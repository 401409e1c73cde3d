-------------------------------- MODULE Grabber --------------------------------
(***************************************************************************)
(* The Grabber of package grabber with its Files and Segments: the three    *)
(* state machines, the dispatcher goroutine (handleEnqueues, dispatch), the *)
(* responder goroutine (handleResponses) and a caller that grabs, pauses,   *)
(* resumes, waits on PostProcessable() and shuts down.                      *)
(*                                                                          *)
(* A step is what one critical section does.  The methods read a state,     *)
(* unlock, and lock again to write it; both halves are steps of their own,  *)
(* so that everything the locks let happen in between does.                 *)
(***************************************************************************)
EXTENDS RetryPolicy, FiniteSets, Functions

CONSTANTS
    Files,          \* the files of the NZB
    FileSeq,        \* ... in the order of Grabber.files
    Segments,       \* the segments of all files
    SegSeq,         \* SegSeq[f]: the segments of f, in order
    FileOf,         \* FileOf[s]: the file of s
    InitRequired,   \* the files neither par2 nor filtered, and the smallest par2 file
    GroupSeq,       \* GroupSeq[s]: the groups of s's file
    Expired,        \* pairs <<s, srv>>: s is out of srv's retention
    NoSegment,      \* no segment
    GrabCap,        \* the requests a server takes before its Grab blocks
    Scripts,        \* the sequences of calls the caller may make
    Unwritable,     \* the segments whose output file may fail to be created
    MaxLost         \* bound of the model: requests lost in dying sessions

Ops == {"GrabAll", "Pause", "Resume", "Await", "Shutdown"}
Calls == (Ops \X {"all"}) \cup ({"GrabFile"} \X Files)

ASSUME GrabberAssumption ==
    /\ IsFiniteSet(Files)
    /\ FileSeq \in Seq(Files) /\ Listed(FileSeq) = Files /\ IsInjective(FileSeq)
    /\ FileOf \in [Segments -> Files]
    /\ SegSeq \in [Files -> Seq(Segments)]
    /\ \A f \in Files : Listed(SegSeq[f]) = {s \in Segments : FileOf[s] = f}
    /\ \A f \in Files : IsInjective(SegSeq[f])
    /\ InitRequired \subseteq Files
    /\ GroupSeq \in [Segments -> Seq(Groups)]
    /\ Expired \subseteq Segments \X Servers
    /\ NoSegment \notin Segments
    /\ Unwritable \subseteq Segments
    /\ GrabCap \in Nat /\ MaxLost \in Nat
    /\ Scripts \subseteq Seq(Calls)

VARIABLES
    segState,       \* Segment.state
    segErr,         \* the segments whose err is not nil
    hist,           \* Segment.failedServer, failedGroup and retries
    fState,         \* File.state
    fDone,          \* File.done
    fRequired,      \* File.required
    gState,         \* Grabber.state
    doneFiles,      \* Grabber.doneFiles
    required,       \* Grabber.required
    failedSegments, \* Grabber.failedSegments
    queue,          \* the segments enqueued and not yet dispatched
    asked,          \* how many times each request is with its server
    alive,          \* the servers whose Alive() is true
    lost,           \* the segments whose request died with its session
    pc, cur,        \* where dispatcher and responder are, and with what segment
    req,            \* the <<server, group>> the dispatcher is in Grab with
    mpc,            \* where the caller is
    calls,          \* the calls it is making, the current one first
    mfiles, msegs,  \* the files and segments its loops have yet to visit
    enqDying,       \* enqueueT is killed
    grabDying       \* grabT is killed

segVars  == <<segState, segErr, hist>>
fileVars == <<fState, fDone, fRequired>>
grabVars == <<gState, doneFiles, required, failedSegments>>
netVars  == <<asked, alive, lost>>
thrVars  == <<pc, cur, req>>
mainVars == <<mpc, calls, mfiles, msegs>>
dieVars  == <<enqDying, grabDying>>
vars == <<segVars, fileVars, grabVars, queue, netVars, thrVars, mainVars, dieVars>>

Threads == {"dispatcher", "responder"}
States == {"Pending", "Pausing", "Paused", "Resuming", "Working", "Done"}
Requests == Segments \X Servers \X Groups

DonePC == {"check", "write", "count", "file", "report", "signal"}
DispatcherPC == DonePC \cup {"idle", "working", "fileRead", "fileSet", "grabberRead",
                             "grabberSet", "setWorking", "select", "grab",
                             "segFailed", "exited"}
ResponderPC == DonePC \cup {"idle", "requeue", "exited"}
MainPC == {"idle", "lock", "next", "pausing", "pauseSegs", "resume", "resuming",
           "resumeSegs", "resumeSeg", "require", "stillPending", "reset", "grab",
           "enqueue", "waitEnqueue", "waitGrab"}

SharedOK ==
    /\ segState \in [Segments -> States \ {"Resuming"}]
    /\ segErr \subseteq Segments
    /\ hist \in [Segments -> Histories]
    /\ fState \in [Files -> States]
    /\ fDone \in [Files -> Nat]
    /\ fRequired \in [Files -> BOOLEAN]
    /\ gState \in {"Pending", "Working", "Paused"}
    /\ doneFiles \in Seq(Files)
    /\ required \in Nat /\ failedSegments \in Nat
    /\ queue \in Seq(Segments)
    /\ asked \in [Requests -> Nat]
    /\ alive \subseteq Servers /\ lost \subseteq Segments

ThreadOK ==
    /\ pc \in [Threads -> DispatcherPC \cup ResponderPC]
    /\ cur \in [Threads -> Segments \cup {NoSegment}]
    /\ req \in (Servers \X Groups) \cup {<<>>}

CallerOK ==
    /\ mpc \in MainPC
    /\ calls \in Seq(Calls)
    /\ mfiles \in Seq(Files)
    /\ msegs \in Seq(Segments)

TypeOK == SharedOK /\ ThreadOK /\ CallerOK /\ enqDying \in BOOLEAN /\ grabDying \in BOOLEAN

\* FromNZB: a par2 or filtered file is paused, with its segments, and not
\* required, but for the smallest par2 file, which is resumed; HandleGrabs has
\* connected what servers it could.
Init ==
    /\ segState = [s \in Segments |->
                     IF FileOf[s] \in InitRequired THEN "Pending" ELSE "Paused"]
    /\ segErr = {}
    /\ hist = [s \in Segments |-> NewHistory]
    /\ fState = [f \in Files |-> IF f \in InitRequired THEN "Pending" ELSE "Paused"]
    /\ fDone = [f \in Files |-> 0]
    /\ fRequired = [f \in Files |-> f \in InitRequired]
    /\ gState = "Pending"
    /\ doneFiles = <<>>
    /\ required = Cardinality(InitRequired)
    /\ failedSegments = 0
    /\ queue = <<>>
    /\ asked = [r \in Requests |-> 0]
    /\ alive \in SUBSET Servers
    /\ lost = {}
    /\ pc = [t \in Threads |-> "idle"]
    /\ cur = [t \in Threads |-> NoSegment]
    /\ req = <<>>
    /\ mpc = "idle"
    /\ calls \in Scripts
    /\ mfiles = <<>> /\ msegs = <<>>
    /\ enqDying = FALSE /\ grabDying = FALSE

-----------------------------------------------------------------------------
\* The locks, as the threads' places tell who holds them.

Op == Head(calls)[1]

\* Grabber.Pause and Resume hold writeState over their whole loop.
GrabberLocked ==
    calls # <<>> /\ Op \in {"Pause", "Resume"} /\ mpc \notin {"idle", "lock"}

\* File.Resume holds writeState while it calls FileRequired.
FileLocked(f) == mpc = "require" /\ Head(mfiles) = f

\* A mutant: nobody takes doneMx.
NoDoneMx == TRUE

\* Grabber.FileDone holds doneMx while it sends on the channel pp.
DoneMxFree == \A t \in Threads : pc[t] # "signal"

\* File.SegmentDone holds File.doneMx while it calls File.Done, and so FileDone.
FileDoneMxFree(f) ==
    \A t \in Threads : pc[t] \in {"file", "report", "signal"} => FileOf[cur[t]] # f

\* A mutant: one file too early.
AlmostPostProcessable == Len(doneFiles) + 1 >= required

isPostProcessable == Len(doneFiles) >= required

-----------------------------------------------------------------------------
\* What a step does to the shared state: nothing, or one of these.

Reads == UNCHANGED <<segVars, fileVars, grabVars, queue, netVars>>

SetSegment(s, state) ==
    /\ segState' = [segState EXCEPT ![s] = state]
    /\ UNCHANGED <<segErr, hist, fileVars, grabVars, queue, netVars>>

SetHistory(s, h) ==
    /\ hist' = [hist EXCEPT ![s] = h]
    /\ UNCHANGED <<segState, segErr, fileVars, grabVars, queue, alive, lost>>

SetFile(f, state) ==
    /\ fState' = [fState EXCEPT ![f] = state]
    /\ UNCHANGED <<segVars, fDone, fRequired, grabVars, queue, netVars>>

SetGrabber(state) ==
    /\ gState' = state
    /\ UNCHANGED <<segVars, fileVars, doneFiles, required, failedSegments, queue, netVars>>

SetCounters(files, n) ==
    /\ doneFiles' = files
    /\ required' = n
    /\ UNCHANGED <<segVars, fileVars, gState, failedSegments, queue, netVars>>

SetQueue(q) == queue' = q /\ UNCHANGED <<segVars, fileVars, grabVars, netVars>>

-----------------------------------------------------------------------------
\* The dispatcher and the responder.

At(t, l) == pc[t] = l

Goto(t, l) == pc' = [pc EXCEPT ![t] = l] /\ UNCHANGED <<cur, req>>

Begin(t, l, s) ==
    /\ pc' = [pc EXCEPT ![t] = l]
    /\ cur' = [cur EXCEPT ![t] = s]
    /\ UNCHANGED req

Finish(t) ==
    /\ pc' = [pc EXCEPT ![t] = "idle"]
    /\ cur' = [cur EXCEPT ![t] = NoSegment]
    /\ req' = IF t = "dispatcher" THEN <<>> ELSE req

Dequeue ==
    /\ At("dispatcher", "idle") /\ queue # <<>>
    /\ SetQueue(Tail(queue))
    /\ Begin("dispatcher", "working", Head(queue))

ExitDispatcher ==
    /\ At("dispatcher", "idle") /\ enqDying
    /\ Reads
    /\ Goto("dispatcher", "exited")

\* Segment.Working, to the end of its first critical section.
SegmentWorkingRead(s) ==
    /\ At("dispatcher", "working")
    /\ Reads
    /\ CASE segState[s] = "Working"                -> Goto("dispatcher", "select")
         [] segState[s] \in {"Pending", "Pausing"} -> Goto("dispatcher", "fileRead")
         [] OTHER                                  -> Finish("dispatcher")

\* File.Working, which Segment.Working calls.
FileWorkingRead(f) ==
    /\ At("dispatcher", "fileRead") /\ ~FileLocked(f)
    /\ Reads
    /\ CASE fState[f] = "Working" -> Goto("dispatcher", "setWorking")
         [] fState[f] = "Pending" -> Goto("dispatcher", "fileSet")
         [] OTHER                 -> Finish("dispatcher")

FileWorkingSet(f) ==
    /\ At("dispatcher", "fileSet") /\ ~FileLocked(f)
    /\ SetFile(f, "Working")
    /\ Goto("dispatcher", "grabberRead")

\* Grabber.Working, which File.Working calls.
GrabberWorkingRead ==
    /\ At("dispatcher", "grabberRead") /\ ~GrabberLocked
    /\ Reads
    /\ CASE gState = "Working" -> Goto("dispatcher", "setWorking")
         [] gState = "Pending" -> Goto("dispatcher", "grabberSet")
         [] OTHER              -> Finish("dispatcher")

GrabberWorkingSet ==
    /\ At("dispatcher", "grabberSet") /\ ~GrabberLocked
    /\ SetGrabber("Working")
    /\ Goto("dispatcher", "setWorking")

\* The second critical section of Segment.Working.
SegmentWorkingSet(s) ==
    /\ At("dispatcher", "setWorking")
    /\ IF segState[s] = "Pausing"
         THEN SetSegment(s, "Paused") /\ Finish("dispatcher")
         ELSE SetSegment(s, "Working") /\ Goto("dispatcher", "select")

\* dispatch, once the segment is working: its output file cannot be created ...
CannotCreate(s) ==
    /\ At("dispatcher", "select") /\ s \in Unwritable
    /\ Reads
    /\ Goto("dispatcher", "check")

\* ... or every server has failed ...
GiveUp(s) ==
    /\ At("dispatcher", "select") /\ NoMoreServers(hist[s])
    /\ Reads
    /\ Goto("dispatcher", "check")

Useless(s, srv) ==
    \/ srv \notin alive
    \/ <<s, srv>> \in Expired
    \/ NoMoreGroups(hist[s], GroupSeq[s])

\* ... or the first server left is no use, and dispatch calls itself ...
Skip(s) ==
    /\ At("dispatcher", "select") /\ ~NoMoreServers(hist[s])
    /\ Useless(s, SelectServer(hist[s]))
    /\ SetHistory(s, FailServer(hist[s], SelectServer(hist[s]))) /\ UNCHANGED asked
    /\ Goto("dispatcher", "working")

\* A mutant: Alive() and the retention are not looked at.
ChooseAny(s) ==
    /\ At("dispatcher", "select") /\ ~NoMoreServers(hist[s])
    /\ ~NoMoreGroups(hist[s], GroupSeq[s])
    /\ req' = <<SelectServer(hist[s]), SelectGroup(hist[s], GroupSeq[s])>>
    /\ Reads
    /\ pc' = [pc EXCEPT !["dispatcher"] = "grab"] /\ UNCHANGED cur

\* ... or there is a server, and a group, to ask ...
Choose(s) ==
    /\ At("dispatcher", "select") /\ ~NoMoreServers(hist[s])
    /\ ~Useless(s, SelectServer(hist[s]))
    /\ req' = <<SelectServer(hist[s]), SelectGroup(hist[s], GroupSeq[s])>>
    /\ Reads
    /\ pc' = [pc EXCEPT !["dispatcher"] = "grab"] /\ UNCHANGED cur

\* ... and Server.Grab takes the request once its channel has room.
Grab(s) ==
    /\ At("dispatcher", "grab")
    /\ SumFunctionOnSet(asked, {r \in Requests : r[2] = req[1]}) < GrabCap
    /\ asked' = [asked EXCEPT ![<<s, req[1], req[2]>>] = @ + 1]
    /\ Finish("dispatcher")
    /\ UNCHANGED <<segVars, fileVars, grabVars, queue, alive, lost>>

-----------------------------------------------------------------------------
\* Segment.Done, by the dispatcher with an error or the responder without.

\* A mutant: segFailed is not called.
AfterDoneUncounted(t) == Finish(t)

AfterDone(t) == IF t = "dispatcher" THEN Goto(t, "segFailed") ELSE Finish(t)

DoneCheck(t, s) ==
    /\ At(t, "check")
    /\ Reads
    /\ IF segState[s] = "Done" THEN AfterDone(t) ELSE Goto(t, "write")

DoneWrite(t, s) ==
    /\ At(t, "write")
    /\ segState' = [segState EXCEPT ![s] = "Done"]
    /\ segErr' = IF t = "dispatcher" THEN segErr \cup {s} ELSE segErr \ {s}
    /\ Goto(t, "count")
    /\ UNCHANGED <<hist, fileVars, grabVars, queue, netVars>>

\* Mutants: a failed segment is not counted; the last segment is not noticed.
SegmentDoneWell(t, f) ==
    /\ At(t, "count") /\ FileDoneMxFree(f)
    /\ fDone' = [fDone EXCEPT ![f] = IF t = "responder" THEN @ + 1 ELSE @]
    /\ IF fDone'[f] >= Len(SegSeq[f]) THEN Goto(t, "file") ELSE AfterDone(t)
    /\ UNCHANGED <<segVars, fState, fRequired, grabVars, queue, netVars>>

SegmentDoneLate(t, f) ==
    /\ At(t, "count") /\ FileDoneMxFree(f)
    /\ fDone' = [fDone EXCEPT ![f] = @ + 1]
    /\ IF fDone'[f] > Len(SegSeq[f]) THEN Goto(t, "file") ELSE AfterDone(t)
    /\ UNCHANGED <<segVars, fState, fRequired, grabVars, queue, netVars>>

\* File.SegmentDone
SegmentDone(t, f) ==
    /\ At(t, "count") /\ FileDoneMxFree(f)
    /\ fDone' = [fDone EXCEPT ![f] = @ + 1]
    /\ IF fDone'[f] >= Len(SegSeq[f]) THEN Goto(t, "file") ELSE AfterDone(t)
    /\ UNCHANGED <<segVars, fState, fRequired, grabVars, queue, netVars>>

\* A mutant: the state is left as it is.
FileDoneUnset(t, f) == At(t, "file") /\ ~FileLocked(f) /\ Reads /\ Goto(t, "report")

\* File.Done
FileDone(t, f) ==
    /\ At(t, "file") /\ ~FileLocked(f)
    /\ SetFile(f, "Done")
    /\ Goto(t, "report")

\* Grabber.FileDone
ReportFile(t, f) ==
    /\ At(t, "report") /\ DoneMxFree
    /\ SetCounters(Append(doneFiles, f), required)
    /\ IF isPostProcessable' THEN Goto(t, "signal") ELSE AfterDone(t)

SegFailed ==
    /\ At("dispatcher", "segFailed")
    /\ failedSegments' = failedSegments + 1
    /\ Finish("dispatcher")
    /\ UNCHANGED <<segVars, fileVars, gState, doneFiles, required, queue, netVars>>

-----------------------------------------------------------------------------
\* handleResponses: a request is answered, well or with an error. The answer names
\* its segment by the article's ID, which no other segment of the NZB is taken to have.

Grabbed(r) ==
    /\ At("responder", "idle") /\ asked[r] > 0
    /\ asked' = [asked EXCEPT ![r] = @ - 1]
    /\ UNCHANGED <<segVars, fileVars, grabVars, queue, alive, lost>>
    /\ Begin("responder", "check", r[1])

Failed(r, err) ==
    /\ At("responder", "idle") /\ asked[r] > 0
    /\ asked' = [asked EXCEPT ![r] = @ - 1]
    /\ SetHistory(r[1], HandleError(hist[r[1]], err, r[2], r[3]))
    /\ Begin("responder", "requeue", r[1])

\* Mutants: handleResponses goes on to Done; the segment is not enqueued again.
RequeueAndDone(s) ==
    /\ At("responder", "requeue")
    /\ SetQueue(Append(queue, s)) \/ (enqDying /\ Reads)
    /\ Goto("responder", "check")

RequeueNothing(s) == At("responder", "requeue") /\ Reads /\ Finish("responder")

\* enqueue(s): its select takes either case once enqueueT is dying.
Requeue(s) ==
    /\ At("responder", "requeue")
    /\ SetQueue(Append(queue, s)) \/ (enqDying /\ Reads)
    /\ Finish("responder")

ExitResponder ==
    /\ At("responder", "idle") /\ grabDying
    /\ Reads
    /\ Goto("responder", "exited")

-----------------------------------------------------------------------------
\* The servers: a session that meets a protocol error ends with the request it
\* held, and ends its server, unless that is dead already, or connected anew
\* with other sessions; the Strategy's ticker connects a dead server.

ServerDies(r) ==
    /\ asked[r] > 0
    /\ Cardinality(lost) < MaxLost
    /\ alive' \in {alive, alive \ {r[2]}}
    /\ asked' = [asked EXCEPT ![r] = @ - 1]
    /\ lost' = lost \cup {r[1]}
    /\ UNCHANGED <<segVars, fileVars, grabVars, queue>>

Reconnect(srv) ==
    /\ srv \notin alive /\ ~grabDying
    /\ alive' = alive \cup {srv}
    /\ UNCHANGED <<segVars, fileVars, grabVars, queue, asked, lost>>

-----------------------------------------------------------------------------
\* The caller.  mfiles and msegs are what is left of the loops over files and
\* over the segments of the file at hand, Head(mfiles).

thisFile == Head(mfiles)

Step(l) == mpc' = l /\ UNCHANGED <<calls, mfiles, msegs>>

Visit(l) == mpc' = l /\ msegs' = SegSeq[thisFile] /\ UNCHANGED <<calls, mfiles>>

NextSegment(l) == mpc' = l /\ msegs' = Tail(msegs) /\ UNCHANGED <<calls, mfiles>>

NextFile == mpc' = "next" /\ mfiles' = Tail(mfiles) /\ UNCHANGED <<calls, msegs>>

Enter(l, fs) == mpc' = l /\ mfiles' = fs /\ UNCHANGED <<calls, msegs>>

Return == mpc' = "idle" /\ calls' = Tail(calls) /\ UNCHANGED <<mfiles, msegs>>

Calling(op) == mpc = "idle" /\ calls # <<>> /\ Op = op

CallGrabAll == Calling("GrabAll") /\ Reads /\ Enter("next", FileSeq)

CallGrabFile == Calling("GrabFile") /\ Reads /\ Enter("reset", <<Head(calls)[2]>>)

\* The first critical sections of Grabber.Pause and Grabber.Resume.
CallPause ==
    /\ Calling("Pause") /\ Reads
    /\ IF gState \in {"Pending", "Working"} THEN Enter("lock", FileSeq) ELSE Return

CallResume ==
    /\ Calling("Resume") /\ Reads
    /\ IF gState = "Paused" THEN Enter("lock", FileSeq) ELSE Return

LockGrabber == mpc = "lock" /\ Reads /\ Step("next")

\* GrabAll's loop, and the end of GrabFile.
GrabNext ==
    /\ mpc = "next" /\ Op \in {"GrabAll", "GrabFile"}
    /\ Reads
    /\ IF mfiles = <<>> THEN Return
       ELSE IF fState[thisFile] = "Pending" THEN Step("reset") ELSE NextFile

\* Grabber.Pause's loop, with the first critical section of File.Pause.
PauseNext ==
    /\ mpc = "next" /\ Op = "Pause"
    /\ IF mfiles = <<>> THEN SetGrabber("Paused") /\ Return
       ELSE /\ Reads
            /\ IF fState[thisFile] \in {"Pending", "Working"}
                 THEN Step("pausing") ELSE NextFile

\* The rest of File.Pause, and Segment.Pause, whose second critical section
\* looks at the state again.
PausingFile == mpc = "pausing" /\ SetFile(thisFile, "Pausing") /\ Visit("pauseSegs")

PauseSegment ==
    /\ mpc = "pauseSegs" /\ msegs # <<>>
    /\ SetSegment(Head(msegs), CASE segState[Head(msegs)] = "Pending" -> "Paused"
                                 [] segState[Head(msegs)] = "Working" -> "Pausing"
                                 [] OTHER                             -> segState[Head(msegs)])
    /\ NextSegment("pauseSegs")

PausedFile ==
    /\ mpc = "pauseSegs" /\ msegs = <<>>
    /\ SetFile(thisFile, "Paused")
    /\ NextFile

\* A mutant: Resume does not ask IsRequired.
ResumeAny ==
    /\ mpc = "next" /\ Op = "Resume"
    /\ IF mfiles = <<>> THEN SetGrabber("Pending") /\ Return ELSE Reads /\ Step("resume")

\* Grabber.Resume's loop.
ResumeNext ==
    /\ mpc = "next" /\ Op = "Resume"
    /\ IF mfiles = <<>> THEN SetGrabber("Pending") /\ Return
       ELSE Reads /\ IF fRequired[thisFile] THEN Step("resume") ELSE NextFile

\* After File.Resume, which only resumes a paused file, GrabFile goes on to the
\* segments either way and Resume looks at the state of the file.
Resumed == IF Op = "Resume" THEN Step("stillPending") ELSE Visit("enqueue")

ResumeFile ==
    /\ mpc = "resume" /\ Reads
    /\ IF fState[thisFile] = "Paused" THEN Step("resuming") ELSE Resumed

ResumingFile == mpc = "resuming" /\ SetFile(thisFile, "Resuming") /\ Visit("resumeSegs")

\* Segment.Resume, in two critical sections.
SegmentResumeRead ==
    /\ mpc = "resumeSegs" /\ msegs # <<>>
    /\ Reads
    /\ IF segState[Head(msegs)] \in {"Paused", "Pausing"}
         THEN Step("resumeSeg") ELSE NextSegment("resumeSegs")

SegmentResumeSet ==
    /\ mpc = "resumeSeg"
    /\ SetSegment(Head(msegs), "Pending")
    /\ NextSegment("resumeSegs")

\* A mutant: File.Resume does not set required.
ResumedUnrequired ==
    /\ mpc = "resumeSegs" /\ msegs = <<>>
    /\ SetFile(thisFile, "Pending")
    /\ IF fRequired[thisFile] THEN Resumed ELSE Step("require")

ResumedFile ==
    /\ mpc = "resumeSegs" /\ msegs = <<>>
    /\ fState' = [fState EXCEPT ![thisFile] = "Pending"]
    /\ fRequired' = [fRequired EXCEPT ![thisFile] = TRUE]
    /\ IF fRequired[thisFile] THEN Resumed ELSE Step("require")
    /\ UNCHANGED <<segVars, fDone, grabVars, queue, netVars>>

\* Grabber.FileRequired
RequireFile ==
    /\ mpc = "require" /\ DoneMxFree
    /\ SetCounters(doneFiles, required + 1)
    /\ Resumed

ResumeGrabs ==
    /\ mpc = "stillPending" /\ Reads
    /\ IF fState[thisFile] = "Pending" THEN Step("reset") ELSE NextFile

\* A mutant: required is not reset with the files counted.
ResetDoneFiles ==
    /\ mpc = "reset" /\ DoneMxFree
    /\ IF isPostProcessable THEN SetCounters(<<>>, required) ELSE Reads
    /\ Step("grab")

\* GrabFile: the counters start again once what they count is complete ...
ResetGrabbed ==
    /\ mpc = "reset" /\ DoneMxFree
    /\ IF isPostProcessable THEN SetCounters(<<>>, 0) ELSE Reads
    /\ Step("grab")

\* ... a pending file is enqueued, a paused one resumed first ...
GrabFileState ==
    /\ mpc = "grab" /\ Reads
    /\ CASE fState[thisFile] = "Pending" -> Visit("enqueue")
         [] fState[thisFile] = "Paused"  -> Step("resume")
         [] OTHER                        -> NextFile

\* ... segment by segment.
EnqueueSegment ==
    /\ mpc = "enqueue" /\ msegs # <<>>
    /\ SetQueue(Append(queue, Head(msegs)))
    /\ NextSegment("enqueue")

Enqueued == mpc = "enqueue" /\ msegs = <<>> /\ Reads /\ NextFile

\* The caller receives from PostProcessable(), and FileDone returns.
PostProcessable(t) ==
    /\ At(t, "signal") /\ Calling("Await")
    /\ Reads
    /\ AfterDone(t)
    /\ Return

\* Shutdown kills enqueueT, waits for its goroutines, shuts the Strategy down,
\* kills grabT and waits for the responder.
CallShutdown ==
    /\ Calling("Shutdown")
    /\ enqDying' = TRUE /\ UNCHANGED grabDying
    /\ Reads
    /\ Step("waitEnqueue")

\* A mutant: enqueueT.Wait is not called.
NoWait == TRUE

EnqueueStopped == At("dispatcher", "exited")

\* Strategy.Shutdown returns, which it may never do (see Strategy), and grabT is killed.
ShutdownStrategy ==
    /\ mpc = "waitEnqueue" /\ EnqueueStopped
    /\ alive' = {} /\ UNCHANGED <<segVars, fileVars, grabVars, queue, asked, lost>>
    /\ grabDying' = TRUE /\ UNCHANGED enqDying
    /\ Step("waitGrab")

ShutDown == mpc = "waitGrab" /\ At("responder", "exited") /\ Reads /\ Return

-----------------------------------------------------------------------------
Done(t, s) ==
    DoneCheck(t, s) \/ DoneWrite(t, s) \/ SegmentDone(t, FileOf[s])
        \/ FileDone(t, FileOf[s]) \/ ReportFile(t, FileOf[s])

Dispatch(s) ==
    \/ SegmentWorkingRead(s) \/ FileWorkingRead(FileOf[s]) \/ FileWorkingSet(FileOf[s])
    \/ GrabberWorkingRead \/ GrabberWorkingSet \/ SegmentWorkingSet(s)
    \/ CannotCreate(s) \/ GiveUp(s) \/ Skip(s) \/ Choose(s) \/ Grab(s)

Dispatcher ==
    /\ \/ Dequeue \/ ExitDispatcher \/ SegFailed
       \/ \E s \in Segments : s = cur["dispatcher"] /\ (Dispatch(s) \/ Done("dispatcher", s))
    /\ UNCHANGED <<mainVars, dieVars>>

Responder ==
    /\ \/ ExitResponder
       \/ \E s \in Segments : s = cur["responder"] /\ (Requeue(s) \/ Done("responder", s))
       \/ \E r \in Requests : Grabbed(r) \/ \E err \in Errors : Failed(r, err)
    /\ UNCHANGED <<mainVars, dieVars>>

Network ==
    /\ (\E r \in Requests : ServerDies(r)) \/ (\E srv \in Servers : Reconnect(srv))
    /\ UNCHANGED <<thrVars, mainVars, dieVars>>

CallerAlone ==
    \/ CallGrabAll \/ CallGrabFile \/ CallPause \/ CallResume \/ LockGrabber
    \/ GrabNext \/ PauseNext \/ PausingFile \/ PauseSegment \/ PausedFile
    \/ ResumeNext \/ ResumeFile \/ ResumingFile \/ SegmentResumeRead
    \/ SegmentResumeSet \/ ResumedFile \/ RequireFile \/ ResumeGrabs
    \/ ResetGrabbed \/ GrabFileState \/ EnqueueSegment \/ Enqueued \/ ShutDown

Caller ==
    \/ CallerAlone /\ UNCHANGED <<thrVars, dieVars>>
    \/ (\E t \in Threads : PostProcessable(t)) /\ UNCHANGED dieVars
    \/ (CallShutdown \/ ShutdownStrategy) /\ UNCHANGED thrVars

Next == Dispatcher \/ Responder \/ Caller \/ Network

\* Each goroutine runs when it can; the responder's share is that every
\* request that is not lost with its session is answered, somehow. Nothing
\* is assumed of Strategy.Shutdown.
Fairness ==
    WF_vars(Dispatcher) /\ WF_vars(Responder) /\ WF_vars(Caller /\ ~ShutdownStrategy)

Safety == Init /\ [][Next]_vars

Spec == Safety /\ Fairness

-----------------------------------------------------------------------------
\* Segments of the same file.
SegsOf(f) == {s \in Segments : FileOf[s] = f}

\* The segments queued, with the dispatcher or the responder, or with a server.
InWork(s) ==
    \/ s \in Listed(queue)
    \/ \E t \in Threads : cur[t] = s
    \/ \E r \in Requests : r[1] = s /\ asked[r] > 0

\* A par2 or filtered file is not downloaded, nor any part of it, before it is
\* asked for: whatever the caller grabs, pauses or resumes, none of its
\* segments is enqueued, requested or counted (Grabber.Resume's IsRequired
\* test, GrabAll's test of the state, File.Resume setting required).
UnrequiredUntouched ==
    \A f \in Files : ~fRequired[f] =>
        /\ fDone[f] = 0
        /\ \A s \in SegsOf(f) : ~InWork(s) /\ segState[s] # "Working"

\* Only GrabFile makes a par2 or filtered file required, and only the one it
\* names: GrabAll, and Resume after any number of pauses, never add to what is
\* downloaded, though they run the same code and look at the same states.
OnlyAskedFor ==
    [][\A f \in Files : fRequired'[f] # fRequired[f] =>
            calls # <<>> /\ Head(calls) = <<"GrabFile", f>>]_vars

\* When FileDone signals, the counters still say what made it signal: neither
\* a reset by GrabFile nor a FileRequired comes between its test and the
\* caller's receive, which may be a long time later (doneMx is held).
SignalTruthful == (\E t \in Threads : pc[t] = "signal") => isPostProcessable

\* A completion is never missed: a file has counted every segment of its that
\* is done, but for those whose SegmentDone is still to run.
CompletionCounted ==
    \A f \in Files :
        fDone[f] >= Cardinality({s \in SegsOf(f) :
                        segState[s] = "Done" /\ \A t \in Threads :
                            ~(pc[t] = "count" /\ cur[t] = s)})

\* Shutdown's order: once the Strategy is shut down no request is made of a
\* server, so that none waits for an answer that cannot come.
NoRequestAfterShutdown ==
    [][mpc = "waitGrab" => \A r \in Requests : asked'[r] <= asked[r]]_vars
=============================================================================
