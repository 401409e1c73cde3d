------------------------ MODULE GrabberOrderlyProofs ------------------------
(***************************************************************************)
(* Proofs of what GrabberOrderly promises a caller that grabs one lot at a  *)
(* time, for every NZB, every Strategy and all such callers.                *)
(***************************************************************************)
EXTENDS GrabberOrderly, GrabberProofs

\* The callers that wait for a lot before they ask for another, pause or resume.
LotAtATime ==
    \A c \in Scripts :
        /\ c # <<>> => c[1][1] \notin {"Pause", "Resume"}
        /\ \A i \in 1 .. Len(c) - 1 :
            /\ c[i][1] # "Shutdown"
            /\ c[i][1] \in {"GrabAll", "GrabFile"} => c[i + 1][1] \in {"Await", "Shutdown"}

-----------------------------------------------------------------------------
\* Where a goroutine is with a segment that is not done, and with one that is.
Early == {"working", "fileRead", "fileSet", "grabberRead", "grabberSet", "setWorking",
          "select", "grab", "requeue", "check", "write"}

Late == {"count", "file", "report", "signal", "segFailed"}

\* A goroutine has a segment unless it is idle, and a server to ask when it is in Grab.
CurOK ==
    /\ \A t \in Threads : cur[t] = NoSegment <=> pc[t] \in {"idle", "exited"}
    /\ pc["dispatcher"] = "grab" => req \in Servers \X Groups

InQueue(s) == s \in Listed(queue)
IsCur(s) == \E t \in Threads : cur[t] = s
IsAsked(s) == \E r \in Requests : r[1] = s /\ asked[r] > 0

LEMMA CurSegment ==
    ASSUME ThreadOK, CurOK, NEW t \in Threads
    PROVE  /\ pc[t] \notin {"idle", "exited"} => cur[t] \in Segments
           /\ cur[t] # NoSegment => pc[t] \in Early \cup Late
           /\ NoSegment \notin Segments
BY GrabberAssumption DEF CurOK, ThreadOK, Early, Late, DispatcherPC, ResponderPC, DonePC

LEMMA DoneCur ==
    ASSUME ThreadOK, CurOK, NEW t \in Threads, NEW s \in Segments, s = cur[t], Done(t, s)
    PROVE  CurOK'
<1> USE DEF CurOK, ThreadOK, Threads, AfterDone, Goto, Finish, At
<1>1. s # NoSegment
  BY GrabberAssumption
<1>2. CASE DoneCheck(t, s)
  BY <1>1, <1>2 DEF DoneCheck
<1>3. CASE DoneWrite(t, s)
  BY <1>1, <1>3 DEF DoneWrite
<1>4. CASE SegmentDone(t, FileOf[s])
  BY <1>1, <1>4 DEF SegmentDone
<1>5. CASE FileDone(t, FileOf[s])
  BY <1>1, <1>5 DEF FileDone
<1>6. CASE ReportFile(t, FileOf[s])
  BY <1>1, <1>6 DEF ReportFile
<1> QED  BY <1>2, <1>3, <1>4, <1>5, <1>6 DEF Done

LEMMA NextCur ==
    ASSUME TypeInv, CurOK, [Next]_vars
    PROVE  CurOK'
<1> ThreadOK /\ SharedOK
  BY DEF TypeInv, TypeOK
<1> USE DEF CurOK, ThreadOK, Threads, Goto, Finish, Begin, At
<1>1. NoSegment \notin Segments
  BY GrabberAssumption
<1>2. ASSUME NEW s \in Segments, s = cur["dispatcher"], Dispatch(s) PROVE CurOK'
  <2>1. CASE SegmentWorkingRead(s)
    BY <1>1, <1>2, <2>1 DEF SegmentWorkingRead
  <2>2. CASE FileWorkingRead(FileOf[s]) \/ FileWorkingSet(FileOf[s])
    BY <1>1, <1>2, <2>2 DEF FileWorkingRead, FileWorkingSet
  <2>3. CASE GrabberWorkingRead \/ GrabberWorkingSet
    BY <1>1, <1>2, <2>3 DEF GrabberWorkingRead, GrabberWorkingSet
  <2>4. CASE SegmentWorkingSet(s)
    BY <1>1, <1>2, <2>4 DEF SegmentWorkingSet
  <2>5. CASE CannotCreate(s) \/ GiveUp(s) \/ Skip(s)
    BY <1>1, <1>2, <2>5 DEF CannotCreate, GiveUp, Skip
  <2>6. CASE Choose(s)
    <3>1. hist[s] \in Histories /\ ~NoMoreServers(hist[s])
      BY <2>6 DEF Choose, SharedOK
    <3>2. GroupSeq[s] \in Seq(Groups) /\ ~NoMoreGroups(hist[s], GroupSeq[s])
      BY <2>6, GrabberAssumption DEF Choose, Useless
    <3>3. req' \in Servers \X Groups
      BY <2>6, <3>1, <3>2, SelectServerSpec, SelectGroupSpec DEF Choose
    <3> QED  BY <1>1, <1>2, <2>6, <3>3 DEF Choose
  <2>7. CASE Grab(s)
    BY <1>1, <1>2, <2>7 DEF Grab
  <2> QED  BY <1>2, <2>1, <2>2, <2>3, <2>4, <2>5, <2>6, <2>7 DEF Dispatch
<1>3. CASE Dequeue \/ ExitDispatcher \/ SegFailed
  <2>1. queue # <<>> => Head(queue) \in Segments
    BY SeqFacts DEF SharedOK
  <2> QED  BY <1>1, <1>3, <2>1 DEF Dequeue, ExitDispatcher, SegFailed
<1>4. CASE Dispatcher
  BY <1>2, <1>3, <1>4, DoneCur DEF Dispatcher
<1>5. CASE Responder
  <2>1. CASE ExitResponder \/ \E s \in Segments : Requeue(s)
    BY <1>1, <2>1 DEF ExitResponder, Requeue
  <2>2. ASSUME NEW r \in Requests, Grabbed(r) \/ \E err \in Errors : Failed(r, err)
        PROVE  CurOK'
    <3>1. r[1] \in Segments
      BY DEF Requests
    <3> QED  BY <1>1, <2>2, <3>1 DEF Grabbed, Failed
  <2> QED  BY <1>5, <2>1, <2>2, DoneCur DEF Responder
<1>6. CASE Caller
  <2>1. ASSUME NEW t \in Threads, PostProcessable(t) PROVE CurOK'
    BY <2>1 DEF PostProcessable, AfterDone
  <2> QED  BY <1>6, <2>1 DEF Caller, thrVars
<1>7. CASE Network \/ UNCHANGED vars
  BY <1>7 DEF Network, vars, thrVars
<1> QED  BY <1>4, <1>5, <1>6, <1>7 DEF Next

-----------------------------------------------------------------------------
\* What a step may do to the places of the segments.

LEMMA PlaceSteps ==
    ASSUME SharedOK, ThreadOK, NEW s \in Segments
    PROVE  /\ UNCHANGED queue => (InQueue(s)' <=> InQueue(s))
           /\ UNCHANGED asked => (IsAsked(s)' <=> IsAsked(s))
           /\ UNCHANGED cur => (IsCur(s)' <=> IsCur(s))
BY DEF InQueue, IsAsked, IsCur

\* One request more, or one less.
LEMMA AskedMore ==
    ASSUME SharedOK, NEW r \in Requests, asked' = [asked EXCEPT ![r] = @ + 1]
    PROVE  /\ IsAsked(r[1])'
           /\ \A s \in Segments : IsAsked(s) => IsAsked(s)'
           /\ \A s \in Segments : IsAsked(s)' /\ s # r[1] => IsAsked(s)
<1>1. \A q \in Requests : asked[q] \in Nat /\ asked'[q] = IF q = r THEN asked[q] + 1 ELSE asked[q]
  BY DEF SharedOK
<1>2. \A q \in Requests : asked[q] > 0 => asked'[q] > 0
  BY <1>1
<1> QED  BY <1>1, <1>2 DEF IsAsked

LEMMA AskedLess ==
    ASSUME SharedOK, NEW r \in Requests, asked[r] > 0, asked' = [asked EXCEPT ![r] = @ - 1]
    PROVE  /\ IsAsked(r[1])
           /\ \A s \in Segments : IsAsked(s)' => IsAsked(s)
           /\ \A s \in Segments : IsAsked(s) /\ s # r[1] => IsAsked(s)'
<1>1. \A q \in Requests : asked[q] \in Nat /\ asked'[q] = IF q = r THEN asked[q] - 1 ELSE asked[q]
  BY DEF SharedOK
<1>2. \A q \in Requests : asked'[q] > 0 => asked[q] > 0
  BY <1>1
<1> QED  BY <1>1, <1>2 DEF IsAsked

LEMMA QueueMore ==
    ASSUME SharedOK, NEW s \in Segments, queue' = Append(queue, s)
    PROVE  \A x \in Segments : InQueue(x)' <=> InQueue(x) \/ x = s
BY ListedFacts DEF SharedOK, InQueue

LEMMA QueueLess ==
    ASSUME SharedOK, queue # <<>>, queue' = Tail(queue)
    PROVE  /\ Head(queue) \in Segments /\ InQueue(Head(queue))
           /\ \A x \in Segments : InQueue(x)' => InQueue(x)
           /\ \A x \in Segments : InQueue(x) /\ x # Head(queue) => InQueue(x)'
<1>1. /\ Len(queue) \in Nat /\ DOMAIN queue = 1 .. Len(queue)
      /\ \A i \in 1 .. Len(queue) : queue[i] \in Segments
      /\ Head(queue) = queue[1] /\ 1 \in 1 .. Len(queue)
      /\ DOMAIN Tail(queue) = 1 .. Len(queue) - 1
      /\ \A i \in 1 .. Len(queue) - 1 : Tail(queue)[i] = queue[i + 1]
  BY HeadTailProperties, LenProperties, EmptySeq, ElementOfSeq DEF SharedOK
<1>2. \A x : InQueue(x) <=> \E i \in 1 .. Len(queue) : x = queue[i]
  BY <1>1 DEF InQueue, Listed
<1>3. \A x : InQueue(x)' <=> \E i \in 1 .. Len(queue) - 1 : x = queue[i + 1]
  BY <1>1 DEF InQueue, Listed
<1>4. \A i \in 1 .. Len(queue) - 1 : i + 1 \in 1 .. Len(queue)
  BY <1>1
<1>5. \A i \in 1 .. Len(queue) : i = 1 \/ (i - 1 \in 1 .. Len(queue) - 1 /\ (i - 1) + 1 = i)
  BY <1>1
<1> QED  BY <1>1, <1>2, <1>3, <1>4, <1>5

-----------------------------------------------------------------------------
\* No segment that is working is forgotten, whatever the caller does.

Remembered ==
    /\ \A s \in Segments : segState[s] = "Working" /\ s \notin lost /\ ~enqDying =>
         \/ InQueue(s) \/ IsAsked(s) \/ cur["dispatcher"] = s
         \/ cur["responder"] = s /\ pc["responder"] \in {"requeue", "check", "write"}
    /\ pc["dispatcher"] \in {"fileRead", "fileSet", "grabberRead", "grabberSet"} \cup Late =>
          segState[cur["dispatcher"]] # "Working"

\* A step that makes no segment work, and takes none from its place.
NoneTaken ==
    /\ \A s \in Segments : segState'[s] = "Working" => segState[s] = "Working"
    /\ \A s \in Segments : InQueue(s) => InQueue(s)'
    /\ \A s \in Segments : IsAsked(s) => IsAsked(s)'
    /\ UNCHANGED <<lost, pc, cur>> /\ (enqDying => enqDying')

LEMMA NoneTakenRemembered ==
    ASSUME SharedOK, ThreadOK, CurOK, Remembered, NoneTaken
    PROVE  Remembered'
<1>1. pc["dispatcher"] \in {"fileRead", "fileSet", "grabberRead", "grabberSet"} \cup Late =>
          cur["dispatcher"] \in Segments
  BY DEF CurOK, ThreadOK, Threads, Late
<1> QED  BY <1>1 DEF Remembered, NoneTaken, InQueue, IsAsked

\* A step of the dispatcher in which it keeps its segment, or drops one that is not working.
LEMMA KeptOrDropped ==
    ASSUME SharedOK, ThreadOK, Remembered,
           UNCHANGED <<queue, asked, lost>>, enqDying' = enqDying,
           NEW s \in Segments, s = cur["dispatcher"],
           cur'["responder"] = cur["responder"], pc'["responder"] = pc["responder"],
           \A x \in Segments \ {s} : segState'[x] = segState[x],
           \/ cur'["dispatcher"] = s
           \/ pc'["dispatcher"] = "idle" /\ segState'[s] # "Working",
           pc'["dispatcher"] \in {"fileRead", "fileSet", "grabberRead", "grabberSet"} \cup Late =>
               cur'["dispatcher"] = s /\ segState'[s] # "Working"
    PROVE  Remembered'
<1>1. \A x \in Segments : (InQueue(x)' <=> InQueue(x)) /\ (IsAsked(x)' <=> IsAsked(x))
  BY PlaceSteps
<1>2. ASSUME NEW x \in Segments, segState'[x] = "Working", x \notin lost', ~enqDying'
      PROVE  \/ InQueue(x)' \/ IsAsked(x)' \/ cur'["dispatcher"] = x
             \/ cur'["responder"] = x /\ pc'["responder"] \in {"requeue", "check", "write"}
  BY <1>1, <1>2 DEF Remembered
<1> QED  BY <1>2 DEF Remembered, Late

LEMMA DispatchRemembered ==
    ASSUME SharedOK, ThreadOK, CurOK, Remembered, enqDying' = enqDying,
           NEW s \in Segments, s = cur["dispatcher"], Dispatch(s)
    PROVE  Remembered'
<1>1. CASE Grab(s)
  <2>1. /\ UNCHANGED <<queue, lost, segState>>
        /\ pc' = [pc EXCEPT !["dispatcher"] = "idle"]
        /\ cur' = [cur EXCEPT !["dispatcher"] = NoSegment]
    BY <1>1 DEF Grab, Finish, segVars
  <2>2. <<s, req[1], req[2]>> \in Requests
    BY <1>1 DEF Grab, At, CurOK, Requests
  <2>3. IsAsked(s)' /\ \A x \in Segments : IsAsked(x) => IsAsked(x)'
    BY <1>1, <2>2, AskedMore DEF Grab
  <2> QED  BY <2>1, <2>3 DEF Remembered, InQueue, ThreadOK, Threads, Late
<1>2. CASE ~Grab(s)
  <2> USE DEF SharedOK, ThreadOK, Threads, Goto, Finish, At, Reads, netVars, segVars, Late
  <2>1. CASE SegmentWorkingRead(s)
    BY <2>1, KeptOrDropped DEF SegmentWorkingRead
  <2>2. CASE FileWorkingRead(FileOf[s])
    BY <2>2, KeptOrDropped DEF FileWorkingRead, Remembered
  <2>3. CASE FileWorkingSet(FileOf[s])
    BY <2>3, KeptOrDropped DEF FileWorkingSet, SetFile, Remembered
  <2>4. CASE GrabberWorkingRead
    BY <2>4, KeptOrDropped DEF GrabberWorkingRead, Remembered
  <2>5. CASE GrabberWorkingSet
    BY <2>5, KeptOrDropped DEF GrabberWorkingSet, SetGrabber, Remembered
  <2>6. CASE SegmentWorkingSet(s)
    BY <2>6, KeptOrDropped DEF SegmentWorkingSet, SetSegment
  <2>7. CASE CannotCreate(s) \/ GiveUp(s) \/ Skip(s) \/ Choose(s)
    BY <2>7, KeptOrDropped DEF CannotCreate, GiveUp, Skip, SetHistory, Choose
  <2> QED  BY <1>2, <2>1, <2>2, <2>3, <2>4, <2>5, <2>6, <2>7 DEF Dispatch
<1> QED  BY <1>1, <1>2

LEMMA DoneRemembered ==
    ASSUME SharedOK, ThreadOK, CurOK, Remembered, enqDying' = enqDying,
           NEW t \in Threads, NEW s \in Segments, s = cur[t], Done(t, s)
    PROVE  Remembered'
<1>1. /\ UNCHANGED <<queue, asked, lost>>
      /\ \A u \in Threads \ {t} : pc'[u] = pc[u] /\ cur'[u] = cur[u]
  BY DEF Done, DoneCheck, DoneWrite, SegmentDone, FileDone, ReportFile, Reads, SetFile,
         SetCounters, AfterDone, Goto, Finish, netVars, ThreadOK
<1>2. \A x \in Segments \ {s} : segState'[x] = segState[x]
  BY DEF Done, DoneCheck, DoneWrite, SegmentDone, FileDone, ReportFile, Reads, SetFile,
         SetCounters, segVars, SharedOK
<1>3. CASE t = "dispatcher"
  <2>1. \/ pc[t] \in {"check", "write"} \cup Late
    BY DEF Done, DoneCheck, DoneWrite, SegmentDone, FileDone, ReportFile, At, Late
  <2>2. pc'[t] \in Late => segState'[s] # "Working" /\ cur'[t] = s
    BY <1>3 DEF Done, DoneCheck, DoneWrite, SegmentDone, FileDone, ReportFile, At, Late, Reads,
       SetFile, SetCounters, AfterDone, Goto, segVars, SharedOK, ThreadOK, Remembered
  <2>3. pc'[t] = "write" \/ pc'[t] \in Late
    BY <1>3 DEF Done, DoneCheck, DoneWrite, SegmentDone, FileDone, ReportFile, Late,
       AfterDone, Goto, ThreadOK
  <2>4. cur'[t] = s
    BY <1>3 DEF Done, DoneCheck, DoneWrite, SegmentDone, FileDone, ReportFile,
       AfterDone, Goto
  <2> QED  BY <1>1, <1>2, <1>3, <2>2, <2>3, <2>4, KeptOrDropped DEF Threads, Late
<1>4. CASE t = "responder"
  <2>1. \/ segState'[s] = "Done"
        \/ segState'[s] = segState[s] /\ cur'[t] = s /\ pc'[t] = "write"
        \/ segState'[s] = segState[s] /\ pc[t] \in Late
    BY <1>4 DEF Done, DoneCheck, DoneWrite, SegmentDone, FileDone, ReportFile, At, Late, Reads,
       SetFile, SetCounters, AfterDone, Goto, segVars, SharedOK, ThreadOK
  <2>2. \A x \in Segments : (InQueue(x)' <=> InQueue(x)) /\ (IsAsked(x)' <=> IsAsked(x))
    BY <1>1, PlaceSteps
  <2>3. ASSUME NEW x \in Segments, segState'[x] = "Working", x \notin lost', ~enqDying'
        PROVE  \/ InQueue(x)' \/ IsAsked(x)' \/ cur'["dispatcher"] = x
               \/ cur'["responder"] = x /\ pc'["responder"] \in {"requeue", "check", "write"}
    <3>1. segState[x] = "Working"
      BY <1>2, <2>1, <2>3
    <3> QED  BY <1>1, <1>2, <1>4, <2>1, <2>2, <2>3, <3>1 DEF Remembered, Threads, Late
  <2>4. pc["dispatcher"] \in {"fileRead", "fileSet", "grabberRead", "grabberSet"} \cup Late =>
            segState'[cur["dispatcher"]] # "Working"
    <3>1. pc["dispatcher"] \in {"fileRead", "fileSet", "grabberRead", "grabberSet"} \cup Late =>
              cur["dispatcher"] \in Segments
      BY CurSegment DEF Threads, Late
    <3> QED  BY <1>2, <2>1, <3>1 DEF Remembered
  <2> QED  BY <1>1, <1>4, <2>3, <2>4 DEF Remembered, Threads, Late
<1> QED  BY <1>3, <1>4 DEF Threads

LEMMA CallerTakesNone ==
    ASSUME SharedOK, ThreadOK, CallerOK, InCall, CurOK, Remembered, Caller
    PROVE  Remembered'
<1> USE DEF Reads, segVars, netVars
<1>1. CASE CallerAlone /\ UNCHANGED <<thrVars, dieVars>>
  <2>1. \A s \in Segments : segState'[s] = "Working" => segState[s] = "Working"
    <3>1. CASE PauseSegment \/ SegmentResumeSet
      BY <3>1, AtHand DEF PauseSegment, SegmentResumeSet, SetSegment, SharedOK
    <3>2. CASE ~PauseSegment /\ ~SegmentResumeSet
      BY <1>1, <3>2 DEF CallerAlone, CallGrabAll, CallGrabFile, CallPause, CallResume,
         LockGrabber, GrabNext, PauseNext, PausingFile, PausedFile, ResumeNext, ResumeFile,
         ResumingFile, SegmentResumeRead, ResumedFile, RequireFile, ResumeGrabs, ResetGrabbed,
         GrabFileState, EnqueueSegment, Enqueued, ShutDown, SetGrabber, SetFile, SetQueue,
         SetCounters
    <3> QED  BY <3>1, <3>2
  <2>2. UNCHANGED <<asked, lost>>
    BY <1>1 DEF CallerAlone, CallGrabAll, CallGrabFile, CallPause, CallResume,
       LockGrabber, GrabNext, PauseNext, PausingFile, PausedFile, ResumeNext, ResumeFile,
       ResumingFile, SegmentResumeRead, ResumedFile, RequireFile, ResumeGrabs, ResetGrabbed,
       GrabFileState, EnqueueSegment, Enqueued, ShutDown, SetGrabber, SetFile, SetQueue,
       SetCounters, PauseSegment, SegmentResumeSet, SetSegment
  <2>3. \A s \in Segments : InQueue(s) => InQueue(s)'
    <3>1. CASE EnqueueSegment
      BY <3>1, AtHand, QueueMore DEF EnqueueSegment, SetQueue
    <3>2. CASE ~EnqueueSegment
      <4>1. UNCHANGED queue
        BY <1>1, <3>2 DEF CallerAlone, CallGrabAll, CallGrabFile, CallPause, CallResume,
           LockGrabber, GrabNext, PauseNext, PausingFile, PausedFile, ResumeNext, ResumeFile,
           ResumingFile, SegmentResumeRead, ResumedFile, RequireFile, ResumeGrabs,
           ResetGrabbed, GrabFileState, Enqueued, ShutDown, SetGrabber, SetFile,
           SetCounters, PauseSegment, SegmentResumeSet, SetSegment
      <4> QED  BY <4>1 DEF InQueue
    <3> QED  BY <3>1, <3>2
  <2>4. NoneTaken
    BY <1>1, <2>1, <2>2, <2>3 DEF NoneTaken, IsAsked, thrVars, dieVars
  <2> QED  BY <2>4, NoneTakenRemembered
<1>2. ASSUME NEW t \in Threads, PostProcessable(t), UNCHANGED dieVars PROVE Remembered'
  <2>1. UNCHANGED <<segState, queue, asked, lost, enqDying>>
    BY <1>2 DEF PostProcessable, dieVars
  <2>2. \/ t = "dispatcher" /\ pc' = [pc EXCEPT ![t] = "segFailed"] /\ UNCHANGED cur
        \/ /\ t = "responder" /\ pc' = [pc EXCEPT ![t] = "idle"]
           /\ cur' = [cur EXCEPT ![t] = NoSegment]
    BY <1>2 DEF PostProcessable, AfterDone, Goto, Finish, Threads
  <2>3. pc[t] = "signal"
    BY <1>2 DEF PostProcessable, At
  <2> QED  BY <2>1, <2>2, <2>3 DEF Remembered, InQueue, IsAsked, ThreadOK, Threads, Late
<1>3. CASE (CallShutdown \/ ShutdownStrategy) /\ UNCHANGED thrVars
  BY <1>3, NoneTakenRemembered DEF CallShutdown, ShutdownStrategy, NoneTaken, InQueue, IsAsked,
     thrVars
<1> QED  BY <1>1, <1>2, <1>3 DEF Caller

LEMMA NextRemembered ==
    ASSUME TypeInv, CurOK, Remembered, [Next]_vars
    PROVE  Remembered'
<1> SharedOK /\ ThreadOK /\ CallerOK /\ InCall
  BY DEF TypeInv, TypeOK
<1> USE DEF Reads, segVars, netVars, dieVars
<1>1. CASE Dequeue /\ UNCHANGED dieVars
  <2>1. /\ \A x \in Segments : InQueue(x) /\ x # Head(queue) => InQueue(x)'
        /\ UNCHANGED <<segState, asked, lost>>
        /\ cur' = [cur EXCEPT !["dispatcher"] = Head(queue)]
        /\ pc' = [pc EXCEPT !["dispatcher"] = "working"]
        /\ cur["dispatcher"] = NoSegment
    BY <1>1, QueueLess DEF Dequeue, SetQueue, Begin, At, CurOK, Threads
  <2>2. NoSegment \notin Segments
    BY GrabberAssumption
  <2> QED  BY <1>1, <2>1, <2>2 DEF Remembered, IsAsked, ThreadOK, Threads, Late
<1>2. CASE (ExitDispatcher \/ SegFailed \/ ExitResponder) /\ UNCHANGED dieVars
  <2> USE DEF Remembered, InQueue, IsAsked, ThreadOK, Threads, Late, At, Goto
  <2>1. NoSegment \notin Segments
    BY GrabberAssumption
  <2>2. CASE ExitDispatcher
    BY <1>2, <2>2 DEF ExitDispatcher
  <2>3. CASE SegFailed
    BY <1>2, <2>3 DEF SegFailed, Finish
  <2>4. CASE ExitResponder
    BY <1>2, <2>4 DEF ExitResponder
  <2> QED  BY <1>2, <2>2, <2>3, <2>4
<1>3. ASSUME NEW s \in Segments, s = cur["responder"], Requeue(s), UNCHANGED dieVars
      PROVE  Remembered'
  <2>1. /\ UNCHANGED <<segState, asked, lost, enqDying>>
        /\ pc' = [pc EXCEPT !["responder"] = "idle"]
        /\ cur' = [cur EXCEPT !["responder"] = NoSegment]
    BY <1>3 DEF Requeue, SetQueue, Finish
  <2>2. CASE queue' = Append(queue, s)
    BY <1>3, <2>1, <2>2, QueueMore DEF Remembered, IsAsked, ThreadOK, Threads
  <2>3. CASE enqDying
    BY <2>1, <2>3 DEF Remembered, ThreadOK, Threads
  <2> QED  BY <1>3, <2>2, <2>3 DEF Requeue, SetQueue
<1>4. ASSUME NEW r \in Requests, Grabbed(r) \/ \E err \in Errors : Failed(r, err),
             UNCHANGED dieVars
      PROVE  Remembered'
  <2>1. /\ asked[r] > 0 /\ asked' = [asked EXCEPT ![r] = @ - 1]
        /\ UNCHANGED <<segState, queue, lost, enqDying>>
        /\ cur' = [cur EXCEPT !["responder"] = r[1]]
        /\ \/ pc' = [pc EXCEPT !["responder"] = "check"]
           \/ pc' = [pc EXCEPT !["responder"] = "requeue"]
        /\ cur["responder"] = NoSegment /\ r[1] \in Segments
    BY <1>4 DEF Grabbed, Failed, SetHistory, Begin, At, CurOK, Threads, Requests
  <2>2. NoSegment \notin Segments
    BY GrabberAssumption
  <2>3. \A x \in Segments : IsAsked(x) /\ x # r[1] => IsAsked(x)'
    BY <2>1, AskedLess
  <2> QED  BY <2>1, <2>2, <2>3 DEF Remembered, InQueue, ThreadOK, Threads
<1>5. CASE Network
  <2>1. ASSUME NEW r \in Requests, ServerDies(r) PROVE Remembered'
    <3>1. \A x \in Segments : IsAsked(x) /\ x # r[1] => IsAsked(x)'
      BY <2>1, AskedLess DEF ServerDies
    <3> QED  BY <1>5, <2>1, <3>1 DEF Network, ServerDies, Remembered, InQueue, thrVars
  <2>2. ASSUME NEW srv \in Servers, Reconnect(srv) PROVE Remembered'
    BY <1>5, <2>2 DEF Network, Reconnect, Remembered, InQueue, IsAsked, thrVars
  <2> QED  BY <1>5, <2>1, <2>2 DEF Network
<1>6. CASE UNCHANGED vars
  BY <1>6 DEF vars, Remembered, InQueue, IsAsked, thrVars
<1>7. CASE Dispatcher
  BY <1>1, <1>2, <1>7, DispatchRemembered, DoneRemembered DEF Dispatcher, Threads
<1>8. CASE Responder
  BY <1>2, <1>3, <1>4, <1>8, DoneRemembered DEF Responder, Threads
<1> QED  BY <1>5, <1>6, <1>7, <1>8, CallerTakesNone DEF Next

\* A segment with its state at Working is queued, requested or with a goroutine, whatever
\* the caller does: what fails is enqueued again until it is done, unless the request
\* was lost with its session or the Grabber shuts down.
THEOREM ForgetsNone == Spec => []NoneForgotten
<1> DEFINE Inv == TypeInv /\ CurOK /\ Remembered
<1>1. Init => Inv
  <2>1. Init => CurOK /\ Remembered
    BY DEF Init, CurOK, Remembered, Threads, Late
  <2> QED  BY <2>1, InitTypeInv
<1>2. Inv /\ [Next]_vars => Inv'
  BY NextTypeInv, NextCur, NextRemembered
<1>3. Inv => NoneForgotten
  <2> SUFFICES ASSUME Inv, NEW s \in Segments, InQueue(s) \/ IsAsked(s) \/ IsCur(s)
               PROVE  Places(s) # {}
    BY DEF NoneForgotten, Remembered, IsCur, Threads
  <2>1. CASE InQueue(s)
    <3>1. PICK i \in DOMAIN queue : queue[i] = s
      BY <2>1 DEF InQueue, Listed
    <3>2. <<"queue", i>> \in Places(s)
      BY <3>1 DEF Places
    <3> QED  BY <3>2
  <2>2. CASE IsCur(s)
    <3>1. PICK t \in Threads : cur[t] = s
      BY <2>2 DEF IsCur
    <3>2. <<"thread", t>> \in Places(s)
      BY <3>1 DEF Places
    <3> QED  BY <3>2
  <2>3. CASE IsAsked(s)
    <3>1. PICK r \in Requests : r[1] = s /\ asked[r] > 0
      BY <2>3 DEF IsAsked
    <3>2. r \in {s} \X Servers \X Groups /\ 1 \in 1 .. asked[r]
      BY <3>1 DEF Requests, TypeInv, TypeOK, SharedOK
    <3>3. <<r, 1>> \in UNION {{q} \X (1 .. asked[q]) : q \in {s} \X Servers \X Groups}
      BY <3>2
    <3>4. <<"asked", <<r, 1>>>> \in Places(s)
      BY <3>3 DEF Places
    <3> QED  BY <3>4
  <2> QED  BY <2>1, <2>2, <2>3
<1> QED  BY <1>1, <1>2, <1>3, PTL DEF Spec, Safety

-----------------------------------------------------------------------------
\* The invariant for callers that ask for a lot at a time. A segment is in one place ...
Apart ==
    /\ IsInjective(queue)
    /\ cur["dispatcher"] # NoSegment => cur["dispatcher"] # cur["responder"]
    /\ \A r \in Requests : asked[r] <= 1
    /\ \A r, q \in Requests : asked[r] > 0 /\ asked[q] > 0 /\ r[1] = q[1] => r = q
    /\ \A s \in Segments : /\ ~(InQueue(s) /\ IsCur(s)) /\ ~(InQueue(s) /\ IsAsked(s))
                           /\ ~(IsCur(s) /\ IsAsked(s))

\* ... and is not done as long as there is something left to do for it ...
DoneInTime ==
    /\ \A s \in Segments : InQueue(s) \/ IsAsked(s) => segState[s] # "Done"
    /\ \A t \in Threads, s \in Segments : cur[t] = s =>
          (segState[s] = "Done" <=> pc[t] \in Late)

\* ... its file is done when all of them have been counted ...
FilesCounted ==
    /\ \A f \in Files : fDone[f] = Cardinality(Counted(f))
    /\ \A f \in Files : fState[f] = "Done" => Counted(f) = SegsOf(f)
    /\ \A t \in Threads, s \in Segments : cur[t] = s /\ pc[t] = "file" =>
          Counted(FileOf[s]) = SegsOf(FileOf[s])

\* ... and is reported once, and listed once ...
FilesListed ==
    /\ \A t \in Threads, s \in Segments : cur[t] = s /\ pc[t] = "file" =>
          fState[FileOf[s]] # "Done"
    /\ \A t \in Threads, s \in Segments : cur[t] = s /\ pc[t] = "report" =>
          fState[FileOf[s]] = "Done" /\ FileOf[s] \notin Listed(doneFiles)
    /\ \A s, x \in Segments : cur["dispatcher"] = s /\ cur["responder"] = x
          /\ (\A t \in Threads : pc[t] \in {"file", "report"}) => FileOf[s] # FileOf[x]
    /\ \A f \in Listed(doneFiles) : fState[f] = "Done"
    /\ IsInjective(doneFiles)

\* ... a failure is counted once, after the segment is done ...
Failures ==
    /\ \A s \in segErr : segState[s] = "Done"
    /\ pc["dispatcher"] \in Late => cur["dispatcher"] \in segErr
    /\ failedSegments = Cardinality({s \in segErr : cur["dispatcher"] # s})

\* ... and the counters balance.
ToDo == {f \in Files : fRequired[f] /\ fState[f] # "Done"}

NothingToDo == ToDo = {}

Balance ==
    required + (IF mpc = "require" THEN 1 ELSE 0)
      = Len(doneFiles) + Cardinality(Reporting) + Cardinality(ToDo)

OneSignal == ~(pc["dispatcher"] = "signal" /\ pc["responder"] = "signal")

Books == FilesCounted /\ FilesListed /\ Failures /\ Balance /\ OneSignal

\* What makes that so is that the files the caller is about to enqueue are fresh, in a lot
\* that begins when no file is in between, and that a pause finds nothing to do.
FreshSegment(s) == ~InWork(s) /\ segState[s] \notin {"Working", "Done"}

Fresh(f) == fState[f] # "Done" /\ \A s \in SegsOf(f) : FreshSegment(s)

NoneBetween == \A f \in Files : Fresh(f) \/ fState[f] = "Done"

Grabs == {"GrabAll", "GrabFile"}

Ahead(c) ==
    \A i \in 1 .. Len(c) - 1 :
        /\ c[i][1] # "Shutdown"
        /\ c[i][1] \in Grabs => c[i + 1][1] \in {"Await", "Shutdown"}

InLot ==
    /\ mpc \in {"next", "reset", "grab", "resume", "resuming", "resumeSegs", "resumeSeg",
                "require", "enqueue"}
    /\ IsInjective(mfiles)
    /\ \A f \in Files : f \in Listed(mfiles) =>
          Fresh(f) \/ fState[f] = "Done" \/ (mpc = "enqueue" /\ f = thisFile)
    /\ mpc \in {"resume", "resuming", "resumeSegs", "resumeSeg", "require"} =>
          \A f \in Files : f = thisFile => Fresh(f)
    /\ \A s \in Segments : s \in Listed(msegs)
          /\ mpc \in {"resumeSegs", "resumeSeg", "enqueue"} => FileOf[s] = thisFile
    /\ mpc = "enqueue" => IsInjective(msegs)
    /\ \A s \in Segments : s \in Listed(msegs) /\ mpc = "enqueue" => FreshSegment(s)

InPause ==
    /\ mpc \in {"idle", "lock", "next", "resume", "stillPending"} /\ NothingToDo
    /\ mpc \in {"resume", "stillPending"} => Op = "Resume" /\ fRequired[thisFile]

Lots ==
    calls # <<>> =>
    /\ Op \in Grabs => IF mpc = "idle" THEN NoneBetween ELSE InLot
    /\ Op \in {"Pause", "Resume"} => InPause
    /\ Op = "Await" => mpc = "idle"
    /\ Op = "Shutdown" => mpc \in {"idle", "waitEnqueue", "waitGrab"}

LotInv == Apart /\ DoneInTime /\ Books /\ Ahead(calls) /\ Lots

-----------------------------------------------------------------------------
LEMMA SeqElements ==
    ASSUME NEW S, NEW q \in Seq(S)
    PROVE  /\ Len(q) \in Nat /\ DOMAIN q = 1 .. Len(q)
           /\ \A i \in DOMAIN q : q[i] \in S
           /\ Listed(q) \subseteq S
<1>1. Len(q) \in Nat /\ DOMAIN q = 1 .. Len(q) /\ \A i \in DOMAIN q : q[i] \in S
  BY LenProperties, ElementOfSeq
<1> QED  BY <1>1 DEF Listed

LEMMA AppendNew ==
    ASSUME NEW S, NEW q \in Seq(S), NEW x \in S, IsInjective(q), x \notin Listed(q)
    PROVE  IsInjective(Append(q, x))
<1>1. /\ Len(q) \in Nat /\ DOMAIN q = 1 .. Len(q)
      /\ DOMAIN Append(q, x) = 1 .. Len(q) + 1
      /\ \A k \in 1 .. Len(q) : Append(q, x)[k] = q[k]
      /\ Append(q, x)[Len(q) + 1] = x
  <2>1. /\ Append(q, x) \in Seq(S) /\ Len(Append(q, x)) = Len(q) + 1
        /\ \A k \in 1 .. Len(q) : Append(q, x)[k] = q[k]
        /\ Append(q, x)[Len(q) + 1] = x
    BY AppendProperties
  <2>2. DOMAIN Append(q, x) = 1 .. Len(Append(q, x))
    BY <2>1, LenProperties
  <2> QED  BY <2>1, <2>2, LenProperties
<1>2. \A k \in 1 .. Len(q) + 1 : k \in 1 .. Len(q) \/ k = Len(q) + 1
  BY <1>1
<1>3. \A k \in 1 .. Len(q) : q[k] # x
  BY <1>1 DEF Listed
<1>4. ASSUME NEW i \in 1 .. Len(q) + 1, NEW j \in 1 .. Len(q) + 1,
             Append(q, x)[i] = Append(q, x)[j]
      PROVE  i = j
  <2>1. CASE i \in 1 .. Len(q) /\ j \in 1 .. Len(q)
    <3>1. q[i] = q[j]
      BY <1>1, <1>4, <2>1
    <3> QED  BY <1>1, <2>1, <3>1 DEF IsInjective
  <2>2. CASE i = Len(q) + 1 /\ j \in 1 .. Len(q)
    BY <1>1, <1>3, <1>4, <2>2
  <2>3. CASE j = Len(q) + 1 /\ i \in 1 .. Len(q)
    BY <1>1, <1>3, <1>4, <2>3
  <2> QED  BY <1>2, <2>1, <2>2, <2>3
<1> QED  BY <1>1, <1>4 DEF IsInjective

LEMMA TailNew ==
    ASSUME NEW S, NEW q \in Seq(S), q # <<>>, IsInjective(q)
    PROVE  /\ IsInjective(Tail(q)) /\ Head(q) \notin Listed(Tail(q))
           /\ Listed(Tail(q)) \subseteq Listed(q)
<1>1. /\ Len(q) \in Nat /\ DOMAIN q = 1 .. Len(q)
      /\ Head(q) = q[1] /\ 1 \in 1 .. Len(q)
      /\ DOMAIN Tail(q) = 1 .. Len(q) - 1
      /\ \A i \in 1 .. Len(q) - 1 : Tail(q)[i] = q[i + 1]
  BY HeadTailProperties, LenProperties, EmptySeq, ElementOfSeq
<1>2. \A i \in 1 .. Len(q) - 1 : i + 1 \in 1 .. Len(q) /\ i + 1 # 1
  BY <1>1
<1>3. \A i, j \in 1 .. Len(q) - 1 : i + 1 = j + 1 => i = j
  BY <1>1
<1>4. IsInjective(Tail(q))
  <2> SUFFICES ASSUME NEW i \in 1 .. Len(q) - 1, NEW j \in 1 .. Len(q) - 1,
                      Tail(q)[i] = Tail(q)[j]
               PROVE  i = j
    BY <1>1 DEF IsInjective
  <2>1. q[i + 1] = q[j + 1]
    BY <1>1
  <2>2. i + 1 = j + 1
    BY <1>1, <1>2, <2>1 DEF IsInjective
  <2> QED  BY <1>3, <2>2
<1>5. Head(q) \notin Listed(Tail(q))
  <2> SUFFICES ASSUME NEW i \in 1 .. Len(q) - 1, Tail(q)[i] = Head(q)
               PROVE  FALSE
    BY <1>1 DEF Listed
  <2>1. q[i + 1] = q[1]
    BY <1>1
  <2> QED  BY <1>1, <1>2, <2>1 DEF IsInjective
<1>6. Listed(Tail(q)) \subseteq Listed(q)
  <2> SUFFICES ASSUME NEW i \in 1 .. Len(q) - 1 PROVE Tail(q)[i] \in Listed(q)
    BY <1>1 DEF Listed
  <2> QED  BY <1>1, <1>2 DEF Listed
<1> QED  BY <1>4, <1>5, <1>6

LEMMA SegmentsFinite ==
    /\ IsFiniteSet(Segments)
    /\ \A f \in Files : /\ IsFiniteSet(SegsOf(f)) /\ Cardinality(SegsOf(f)) = Len(SegSeq[f])
                        /\ Len(SegSeq[f]) \in Nat
<1>1. ASSUME NEW f \in Files
      PROVE  /\ IsFiniteSet(SegsOf(f)) /\ Cardinality(SegsOf(f)) = Len(SegSeq[f])
             /\ Len(SegSeq[f]) \in Nat
  <2>1. /\ SegSeq[f] \in Seq(Segments) /\ Listed(SegSeq[f]) = SegsOf(f)
        /\ IsInjective(SegSeq[f])
    BY GrabberAssumption DEF SegsOf
  <2>2. DOMAIN SegSeq[f] = 1 .. Len(SegSeq[f]) /\ Len(SegSeq[f]) \in Nat
    BY <2>1
  <2>3. SegSeq[f] \in Surjection(1 .. Len(SegSeq[f]), SegsOf(f))
    BY <2>1, <2>2 DEF Surjection, Listed
  <2>4. SegSeq[f] \in Injection(1 .. Len(SegSeq[f]), SegsOf(f))
    BY <2>1, <2>2, <2>3 DEF Surjection, Injection, IsInjective
  <2>5. /\ IsFiniteSet(1 .. Len(SegSeq[f]))
        /\ Cardinality(1 .. Len(SegSeq[f])) = Len(SegSeq[f])
    <3>1. 1 \in Int /\ Len(SegSeq[f]) \in Int
      BY <2>2
    <3>2. /\ IsFiniteSet(1 .. Len(SegSeq[f]))
          /\ Cardinality(1 .. Len(SegSeq[f])) =
                IF 1 > Len(SegSeq[f]) THEN 0 ELSE Len(SegSeq[f]) - 1 + 1
      BY <3>1, FS_Interval
    <3> QED  BY <2>2, <3>2
  <2>6. /\ IsFiniteSet(SegsOf(f))
        /\ Cardinality(SegsOf(f)) = Cardinality(1 .. Len(SegSeq[f]))
    BY <2>3, <2>4, <2>5, FS_Surjection, Zenon
  <2> QED  BY <2>2, <2>5, <2>6
<1>2. IsFiniteSet({SegsOf(f) : f \in Files})
  <2> DEFINE of == [f \in Files |-> SegsOf(f)]
  <2>1. of \in Surjection(Files, {SegsOf(f) : f \in Files})
    BY DEF Surjection
  <2> QED  BY <2>1, GrabberAssumption, FS_Surjection
<1>3. Segments = UNION {SegsOf(f) : f \in Files}
  BY GrabberAssumption DEF SegsOf
<1> QED  BY <1>1, <1>2, <1>3, FS_UNION

-----------------------------------------------------------------------------
\* What the goroutines and the servers do to the places of the segments.

Keeps(t) == cur'[t] = cur[t]

Stays == UNCHANGED <<queue, asked>> /\ \A t \in Threads : Keeps(t) \/ cur'[t] = NoSegment

Taken ==
    /\ queue # <<>> /\ queue' = Tail(queue) /\ UNCHANGED asked
    /\ cur["dispatcher"] = NoSegment /\ cur'["dispatcher"] = Head(queue)
    /\ pc'["dispatcher"] \in Early /\ Keeps("responder")

AsksFor(r) ==
    /\ cur["dispatcher"] = r[1] /\ pc["dispatcher"] \in Early
    /\ asked' = [asked EXCEPT ![r] = @ + 1] /\ UNCHANGED queue
    /\ cur'["dispatcher"] = NoSegment /\ Keeps("responder")

PutBack(s) ==
    /\ cur["responder"] = s /\ pc["responder"] \in Early
    /\ queue' = Append(queue, s) /\ UNCHANGED asked
    /\ cur'["responder"] = NoSegment /\ Keeps("dispatcher")

Answered(r) ==
    /\ asked[r] > 0 /\ asked' = [asked EXCEPT ![r] = @ - 1] /\ UNCHANGED queue
    /\ cur["responder"] = NoSegment /\ cur'["responder"] = r[1]
    /\ pc'["responder"] \in Early /\ Keeps("dispatcher")

Dropped(r) ==
    /\ asked[r] > 0 /\ asked' = [asked EXCEPT ![r] = @ - 1] /\ UNCHANGED queue
    /\ Keeps("dispatcher") /\ Keeps("responder")

Moves ==
    \/ Stays \/ Taken
    \/ \E s \in Segments : PutBack(s)
    \/ \E r \in Requests : AsksFor(r) \/ Answered(r) \/ Dropped(r)

\* A segment that has no place gets none.
LEMMA NoPlace ==
    ASSUME NEW s \in Segments
    PROVE  InWork(s) <=> InQueue(s) \/ IsCur(s) \/ IsAsked(s)
BY DEF InWork, InQueue, IsCur, IsAsked

LEMMA MovesNone ==
    ASSUME SharedOK, ThreadOK, Moves, NEW x \in Segments, ~InWork(x)
    PROVE  ~InWork(x)'
<1>1. ~InQueue(x) /\ ~IsCur(x) /\ ~IsAsked(x) /\ x # NoSegment
  BY NoPlace, GrabberAssumption
<1> SUFFICES ~InQueue(x)' /\ ~IsCur(x)' /\ ~IsAsked(x)'
  BY DEF InWork, InQueue, IsCur, IsAsked
<1>2. CASE Stays
  BY <1>1, <1>2 DEF Stays, Keeps, InQueue, IsCur, IsAsked
<1>3. CASE Taken
  <2>1. InQueue(Head(queue)) /\ ~InQueue(x)' /\ ~IsAsked(x)'
    BY <1>1, <1>3, QueueLess DEF Taken, IsAsked
  <2> QED  BY <1>1, <1>3, <2>1 DEF Taken, Keeps, IsCur, Threads
<1>4. ASSUME NEW s \in Segments, PutBack(s) PROVE ~InQueue(x)' /\ ~IsCur(x)' /\ ~IsAsked(x)'
  <2>1. s # x
    BY <1>1, <1>4 DEF PutBack, IsCur, Threads
  <2>2. ~InQueue(x)' /\ ~IsAsked(x)'
    BY <1>1, <1>4, <2>1, QueueMore DEF PutBack, IsAsked
  <2> QED  BY <1>1, <1>4, <2>2 DEF PutBack, Keeps, IsCur, Threads
<1>5. ASSUME NEW r \in Requests, AsksFor(r) PROVE ~InQueue(x)' /\ ~IsCur(x)' /\ ~IsAsked(x)'
  <2>1. r[1] # x
    BY <1>1, <1>5 DEF AsksFor, IsCur, Threads
  <2>2. ~IsAsked(x)' /\ ~InQueue(x)'
    BY <1>1, <1>5, <2>1, AskedMore DEF AsksFor, InQueue
  <2> QED  BY <1>1, <1>5, <2>2 DEF AsksFor, Keeps, IsCur, Threads
<1>6. ASSUME NEW r \in Requests, Answered(r) \/ Dropped(r)
      PROVE  ~InQueue(x)' /\ ~IsCur(x)' /\ ~IsAsked(x)'
  <2>1. r[1] # x /\ ~IsAsked(x)' /\ ~InQueue(x)'
    BY <1>1, <1>6, AskedLess DEF Answered, Dropped, InQueue
  <2> QED  BY <1>1, <1>6, <2>1 DEF Answered, Dropped, Keeps, IsCur, Threads
<1> QED  BY <1>2, <1>3, <1>4, <1>5, <1>6 DEF Moves

\* Each segment stays in one place.
LEMMA MovesApart ==
    ASSUME SharedOK, ThreadOK, Moves, Apart
    PROVE  Apart'
<1>1. NoSegment \notin Segments
  BY GrabberAssumption
<1>2. CASE Stays
  BY <1>2, <1>1 DEF Stays, Keeps, Apart, InQueue, IsCur, IsAsked, Threads
<1>3. CASE Taken
  <2>1. /\ IsInjective(queue') /\ Head(queue) \in Segments /\ InQueue(Head(queue))
        /\ \A x \in Segments : InQueue(x)' => InQueue(x) /\ x # Head(queue)
    BY <1>3, QueueLess, TailNew DEF Taken, Apart, SharedOK, InQueue
  <2>2. \A x \in Segments : IsCur(x)' => IsCur(x) \/ x = Head(queue)
    BY <1>3 DEF Taken, Keeps, IsCur, Threads
  <2>3. \A x \in Segments : IsAsked(x)' <=> IsAsked(x)
    BY <1>3 DEF Taken, IsAsked
  <2>4. cur["responder"] # Head(queue)
    BY <2>1 DEF Apart, IsCur, Threads
  <2> QED  BY <1>3, <2>1, <2>2, <2>3, <2>4 DEF Apart, Taken, Keeps
<1>4. ASSUME NEW s \in Segments, PutBack(s) PROVE Apart'
  <2>1. IsCur(s) /\ s # NoSegment /\ ~InQueue(s) /\ ~IsAsked(s) /\ cur["dispatcher"] # s
    BY <1>1, <1>4 DEF PutBack, IsCur, Apart, Threads
  <2>2. IsInjective(queue') /\ \A x \in Segments : InQueue(x)' <=> InQueue(x) \/ x = s
    <3>1. queue \in Seq(Segments) /\ s \notin Listed(queue) /\ IsInjective(queue)
      BY <2>1 DEF InQueue, SharedOK, Apart
    <3>2. queue' = Append(queue, s)
      BY <1>4 DEF PutBack
    <3>3. IsInjective(Append(queue, s))
      BY <3>1, AppendNew
    <3> QED  BY <3>2, <3>3, QueueMore
  <2>3. \A x \in Segments : IsCur(x)' => IsCur(x) /\ x # s
    BY <1>1, <1>4, <2>1 DEF PutBack, Keeps, IsCur, Threads
  <2>4. \A x \in Segments : IsAsked(x)' <=> IsAsked(x)
    BY <1>4 DEF PutBack, IsAsked
  <2> QED  BY <1>4, <2>1, <2>2, <2>3, <2>4 DEF Apart, PutBack, Keeps
<1>5. ASSUME NEW r \in Requests, AsksFor(r) PROVE Apart'
  <2>1. r[1] \in Segments /\ IsCur(r[1]) /\ ~InQueue(r[1]) /\ ~IsAsked(r[1])
    BY <1>5 DEF AsksFor, IsCur, Apart, Threads, Requests
  <2>2. \A q \in Requests : q[1] = r[1] => asked[q] = 0
    BY <2>1 DEF IsAsked, SharedOK
  <2>3. \A q \in Requests : asked'[q] = IF q = r THEN 1 ELSE asked[q]
    <3>1. asked[r] + 1 = 1
      BY <2>2
    <3>2. \A q \in Requests : asked'[q] = IF q = r THEN asked[r] + 1 ELSE asked[q]
      BY <1>5 DEF AsksFor, SharedOK
    <3> QED  BY <3>1, <3>2
  <2>4. \A x \in Segments : IsCur(x)' => IsCur(x) /\ x # r[1]
    BY <1>1, <1>5, <2>1 DEF AsksFor, Keeps, IsCur, Threads, Apart
  <2>5. \A x \in Segments : IsAsked(x)' => IsAsked(x) \/ x = r[1]
    BY <2>3 DEF IsAsked
  <2>6. \A q \in Requests : asked'[q] <= 1
    BY <2>3 DEF Apart
  <2>7. \A q, p \in Requests : asked'[q] > 0 /\ asked'[p] > 0 /\ q[1] = p[1] => q = p
    BY <2>2, <2>3 DEF Apart
  <2>8. \A x \in Segments : InQueue(x)' <=> InQueue(x)
    BY <1>5 DEF AsksFor, InQueue
  <2> QED  BY <1>1, <1>5, <2>1, <2>4, <2>5, <2>6, <2>7, <2>8 DEF Apart, AsksFor, Keeps
<1>6. ASSUME NEW r \in Requests, Answered(r) \/ Dropped(r) PROVE Apart'
  <2>1. r[1] \in Segments /\ IsAsked(r[1]) /\ ~InQueue(r[1]) /\ ~IsCur(r[1])
    BY <1>6 DEF Answered, Dropped, IsAsked, Apart, Requests
  <2>2. asked[r] = 1
    BY <1>6 DEF Answered, Dropped, Apart, SharedOK
  <2>3. \A q \in Requests : asked'[q] = IF q = r THEN 0 ELSE asked[q]
    BY <1>6, <2>2 DEF Answered, Dropped, SharedOK
  <2>4. \A q \in Requests : asked'[q] > 0 => asked[q] > 0 /\ q[1] # r[1]
    BY <1>6, <2>3 DEF Answered, Dropped, Apart
  <2>5. \A x \in Segments : IsAsked(x)' => IsAsked(x) /\ x # r[1]
    BY <2>4 DEF IsAsked
  <2>6. \A q \in Requests : asked'[q] <= 1
    BY <2>3 DEF Apart
  <2>7. \A x \in Segments : InQueue(x)' <=> InQueue(x)
    BY <1>6 DEF Answered, Dropped, InQueue
  <2>8. \A x \in Segments : IsCur(x)' => IsCur(x) \/ (x = r[1] /\ Answered(r))
    BY <1>6 DEF Answered, Dropped, Keeps, IsCur, Threads
  <2>9. cur["dispatcher"] # r[1]
    BY <2>1 DEF IsCur, Threads
  <2> QED  BY <1>6, <2>1, <2>4, <2>5, <2>6, <2>7, <2>8, <2>9 DEF Apart, Answered, Dropped, Keeps
<1> QED  BY <1>2, <1>3, <1>4, <1>5, <1>6 DEF Moves

-----------------------------------------------------------------------------
\* Segments are not done before they leave their places.

SegsSame == \A s \in Segments : segState'[s] = "Done" <=> segState[s] = "Done"

\* No goroutine that keeps its segment gets it done in this step.
InPhase == \A t \in Threads : Keeps(t) => (pc'[t] \in Late <=> pc[t] \in Late)

LEMMA MovesInTime ==
    ASSUME SharedOK, ThreadOK, Moves, DoneInTime, InPhase, SegsSame
    PROVE  DoneInTime'
<1>1. NoSegment \notin Segments /\ Early \cap Late = {}
  BY GrabberAssumption DEF Early, Late
<1>2. ASSUME NEW t \in Threads, NEW s \in Segments, cur'[t] = s, Keeps(t)
      PROVE  segState'[s] = "Done" <=> pc'[t] \in Late
  BY <1>2 DEF DoneInTime, InPhase, SegsSame, Keeps
<1>3. CASE Stays
  <2>1. \A s \in Segments : InQueue(s)' \/ IsAsked(s)' => InQueue(s) \/ IsAsked(s)
    BY <1>3 DEF Stays, InQueue, IsAsked
  <2>2. \A t \in Threads, s \in Segments : cur'[t] = s => Keeps(t)
    BY <1>1, <1>3 DEF Stays
  <2> QED  BY <1>2, <2>1, <2>2 DEF DoneInTime, SegsSame
<1>4. CASE Taken
  <2>1. /\ Head(queue) \in Segments /\ InQueue(Head(queue))
        /\ \A s \in Segments : InQueue(s)' => InQueue(s)
    BY <1>4, QueueLess DEF Taken
  <2>2. segState'[Head(queue)] # "Done" /\ pc'["dispatcher"] \notin Late
    BY <1>1, <1>4, <2>1 DEF Taken, DoneInTime, SegsSame
  <2>3. \A s \in Segments : IsAsked(s)' => IsAsked(s)
    BY <1>4 DEF Taken, IsAsked
  <2>4. \A t \in Threads, s \in Segments : cur'[t] = s =>
            (segState'[s] = "Done" <=> pc'[t] \in Late)
    BY <1>2, <1>4, <2>2 DEF Taken, Threads
  <2> QED  BY <2>1, <2>3, <2>4 DEF DoneInTime, SegsSame
<1>5. ASSUME NEW s \in Segments, PutBack(s) PROVE DoneInTime'
  <2>1. segState[s] # "Done" /\ \A x \in Segments : InQueue(x)' => InQueue(x) \/ x = s
    BY <1>1, <1>5, QueueMore DEF PutBack, DoneInTime, Threads
  <2>2. \A x \in Segments : IsAsked(x)' => IsAsked(x)
    BY <1>5 DEF PutBack, IsAsked
  <2>3. \A t \in Threads, x \in Segments : cur'[t] = x => Keeps(t)
    BY <1>1, <1>5 DEF PutBack, Threads
  <2> QED  BY <1>2, <2>1, <2>2, <2>3 DEF DoneInTime, SegsSame
<1>6. ASSUME NEW r \in Requests, AsksFor(r) PROVE DoneInTime'
  <2>1. r[1] \in Segments /\ segState[r[1]] # "Done"
    BY <1>1, <1>6 DEF AsksFor, DoneInTime, Threads, Requests
  <2>2. \A x \in Segments : IsAsked(x)' => IsAsked(x) \/ x = r[1]
    BY <1>6, AskedMore DEF AsksFor
  <2>3. \A x \in Segments : InQueue(x)' => InQueue(x)
    BY <1>6 DEF AsksFor, InQueue
  <2>4. \A t \in Threads, x \in Segments : cur'[t] = x => Keeps(t)
    BY <1>1, <1>6 DEF AsksFor, Threads
  <2> QED  BY <1>2, <2>1, <2>2, <2>3, <2>4 DEF DoneInTime, SegsSame
<1>7. ASSUME NEW r \in Requests, Answered(r) \/ Dropped(r) PROVE DoneInTime'
  <2>1. /\ r[1] \in Segments /\ IsAsked(r[1])
        /\ \A x \in Segments : IsAsked(x)' => IsAsked(x)
    BY <1>7, AskedLess DEF Answered, Dropped, Requests
  <2>2. \A x \in Segments : InQueue(x)' => InQueue(x)
    BY <1>7 DEF Answered, Dropped, InQueue
  <2>3. segState'[r[1]] # "Done"
    BY <2>1 DEF DoneInTime, SegsSame
  <2>4. \A t \in Threads, x \in Segments : cur'[t] = x =>
            (segState'[x] = "Done" <=> pc'[t] \in Late)
    BY <1>1, <1>2, <1>7, <2>3 DEF Answered, Dropped, Threads
  <2> QED  BY <2>1, <2>2, <2>4 DEF DoneInTime, SegsSame
<1> QED  BY <1>3, <1>4, <1>5, <1>6, <1>7 DEF Moves

\* A segment becomes done in the hands of the one goroutine that has it.
LEMMA WriteInTime ==
    ASSUME SharedOK, ThreadOK, Apart, DoneInTime,
           NEW t \in Threads, NEW s \in Segments, s = cur[t], DoneWrite(t, s)
    PROVE  DoneInTime'
<1>1. /\ UNCHANGED <<queue, asked, cur>> /\ s # NoSegment
      /\ \A x \in Segments : segState'[x] = IF x = s THEN "Done" ELSE segState[x]
      /\ \A u \in Threads : pc'[u] = IF u = t THEN "count" ELSE pc[u]
  BY GrabberAssumption DEF DoneWrite, Goto, netVars, SharedOK, ThreadOK
<1>2. ~InQueue(s) /\ ~IsAsked(s) /\ \A u \in Threads \ {t} : cur[u] # s
  BY <1>1 DEF Apart, IsCur, Threads
<1>3. \A x \in Segments : (InQueue(x)' <=> InQueue(x)) /\ (IsAsked(x)' <=> IsAsked(x))
  BY <1>1, PlaceSteps
<1>4. \A x \in Segments : InQueue(x)' \/ IsAsked(x)' => segState'[x] # "Done"
  BY <1>1, <1>2, <1>3 DEF DoneInTime
<1>5. \A u \in Threads, x \in Segments : cur'[u] = x =>
          (segState'[x] = "Done" <=> pc'[u] \in Late)
  BY <1>1, <1>2 DEF DoneInTime, Late
<1> QED  BY <1>4, <1>5 DEF DoneInTime

-----------------------------------------------------------------------------
\* Most steps move segments and leave the books as they are.

FilesSame == \A f \in Files : fState'[f] = "Done" <=> fState[f] = "Done"

Quiet ==
    /\ UNCHANGED <<fDone, doneFiles, failedSegments, segErr, required, fRequired>>
    /\ SegsSame /\ FilesSame
    /\ \A t \in Threads : \/ pc'[t] = pc[t] /\ cur'[t] = cur[t]
                          \/ pc[t] \notin Late /\ pc'[t] \notin Late

\* Only the goroutines' own segments change their state.
OwnSegments == \A x \in Segments : ~IsCur(x) => segState'[x] = segState[x]

Bookkeeping(t, s) ==
    \/ DoneWrite(t, s) \/ SegmentDone(t, FileOf[s]) \/ FileDone(t, FileOf[s])
    \/ ReportFile(t, FileOf[s])

\* The file of a segment that is not done is not done.
LEMMA FileNotDone ==
    ASSUME FilesCounted, NEW s \in Segments, segState[s] # "Done"
    PROVE  FileOf[s] \in Files /\ fState[FileOf[s]] # "Done"
BY GrabberAssumption DEF FilesCounted, Counted, SegsOf

LEMMA DispatchMoves ==
    ASSUME SharedOK, ThreadOK, CurOK, DoneInTime, FilesCounted,
           NEW s \in Segments, s = cur["dispatcher"], Dispatch(s)
    PROVE  Moves /\ Quiet /\ OwnSegments
<1>1. pc["dispatcher"] \in Early /\ pc["dispatcher"] \notin Late
  BY DEF Dispatch, SegmentWorkingRead, FileWorkingRead, FileWorkingSet, GrabberWorkingRead,
         GrabberWorkingSet, SegmentWorkingSet, CannotCreate, GiveUp, Skip, Choose, Grab, At,
         Early, Late
<1>2. segState[s] # "Done" /\ FileOf[s] \in Files /\ fState[FileOf[s]] # "Done"
  BY <1>1, FileNotDone DEF DoneInTime, Threads
<1>3. UNCHANGED <<queue, fDone, doneFiles, failedSegments, segErr, required, fRequired>>
  BY DEF Dispatch, SegmentWorkingRead, FileWorkingRead, FileWorkingSet, GrabberWorkingRead,
         GrabberWorkingSet, SegmentWorkingSet, CannotCreate, GiveUp, Skip, Choose, Grab,
         Reads, SetFile, SetSegment, SetHistory, SetGrabber, segVars, fileVars, grabVars
<1>4. /\ pc'["responder"] = pc["responder"] /\ cur'["responder"] = cur["responder"]
      /\ pc'["dispatcher"] \notin Late
      /\ cur'["dispatcher"] \in {s, NoSegment}
  BY DEF Dispatch, SegmentWorkingRead, FileWorkingRead, FileWorkingSet, GrabberWorkingRead,
         GrabberWorkingSet, SegmentWorkingSet, CannotCreate, GiveUp, Skip, Choose, Grab,
         Goto, Finish, ThreadOK, Threads, Late
<1>5. \A x \in Segments : segState'[x] # segState[x] => x = s /\ segState'[x] # "Done"
  BY DEF Dispatch, SegmentWorkingRead, FileWorkingRead, FileWorkingSet, GrabberWorkingRead,
         GrabberWorkingSet, SegmentWorkingSet, CannotCreate, GiveUp, Skip, Choose, Grab,
         Reads, SetFile, SetSegment, SetHistory, SetGrabber, segVars, SharedOK
<1>6. \A f \in Files : fState'[f] # fState[f] => f = FileOf[s] /\ fState'[f] # "Done"
  BY DEF Dispatch, SegmentWorkingRead, FileWorkingRead, FileWorkingSet, GrabberWorkingRead,
         GrabberWorkingSet, SegmentWorkingSet, CannotCreate, GiveUp, Skip, Choose, Grab,
         Reads, SetFile, SetSegment, SetHistory, SetGrabber, fileVars, SharedOK
<1>7. UNCHANGED asked \/ \E r \in Requests : AsksFor(r)
  <2>1. CASE Grab(s)
    <3>1. <<s, req[1], req[2]>> \in Requests
      BY <2>1 DEF Grab, At, CurOK, Requests
    <3>2. AsksFor(<<s, req[1], req[2]>>)
      BY <1>1, <1>4, <2>1 DEF Grab, Finish, AsksFor, Keeps, ThreadOK, Threads
    <3> QED  BY <3>1, <3>2
  <2>2. CASE ~Grab(s)
    BY <2>2 DEF Dispatch, SegmentWorkingRead, FileWorkingRead, FileWorkingSet,
       GrabberWorkingRead, GrabberWorkingSet, SegmentWorkingSet, CannotCreate, GiveUp, Skip,
       Choose, Reads, SetFile, SetSegment, SetHistory, SetGrabber, netVars
  <2> QED  BY <2>1, <2>2
<1>8. Moves
  BY <1>3, <1>4, <1>7 DEF Moves, Stays, Keeps, Threads
<1>9. SegsSame /\ FilesSame /\ OwnSegments
  BY <1>2, <1>5, <1>6 DEF SegsSame, FilesSame, OwnSegments, IsCur, Threads
<1> QED  BY <1>1, <1>3, <1>4, <1>8, <1>9 DEF Quiet, Threads

LEMMA DoneMoves ==
    ASSUME SharedOK, ThreadOK, DoneInTime,
           NEW t \in Threads, NEW s \in Segments, s = cur[t], Done(t, s)
    PROVE  Moves /\ OwnSegments /\ (Bookkeeping(t, s) \/ Quiet)
<1>1. /\ UNCHANGED <<queue, asked>>
      /\ \A u \in Threads \ {t} : pc'[u] = pc[u] /\ cur'[u] = cur[u]
      /\ cur'[t] \in {s, NoSegment}
  BY DEF Done, DoneCheck, DoneWrite, SegmentDone, FileDone, ReportFile, Reads, SetFile,
         SetCounters, AfterDone, Goto, Finish, netVars, ThreadOK
<1>2. OwnSegments
  BY DEF Done, DoneCheck, DoneWrite, SegmentDone, FileDone, ReportFile, Reads, SetFile,
         SetCounters, segVars, SharedOK, OwnSegments, IsCur
<1>3. ASSUME DoneCheck(t, s) PROVE Quiet
  <2>1. segState[s] # "Done"
    BY <1>3 DEF DoneCheck, At, DoneInTime, Late
  <2>2. pc[t] = "check" /\ pc'[t] = "write" /\ Reads
    BY <1>3, <2>1 DEF DoneCheck, At, Goto, ThreadOK
  <2> QED  BY <1>1, <2>2 DEF Quiet, Reads, SegsSame, FilesSame, segVars, fileVars, grabVars, Late
<1> QED  BY <1>1, <1>2, <1>3 DEF Done, Bookkeeping, Moves, Stays, Keeps

LEMMA OthersMove ==
    ASSUME SharedOK, ThreadOK, CurOK, DoneInTime, FilesCounted,
           Dispatcher \/ Responder \/ Network
    PROVE  /\ Moves /\ OwnSegments
           /\ \/ Quiet \/ SegFailed
              \/ \E t \in Threads, s \in Segments : s = cur[t] /\ Bookkeeping(t, s)
<1> DEFINE Goal == /\ Moves /\ OwnSegments
                   /\ \/ Quiet \/ SegFailed
                      \/ \E t \in Threads, s \in Segments : s = cur[t] /\ Bookkeeping(t, s)
<1> USE DEF Threads, At, SegsSame, FilesSame, segVars, fileVars, grabVars, netVars, thrVars
<1>1. CASE Dequeue
  <2>1. /\ Taken /\ OwnSegments
    BY <1>1 DEF Dequeue, SetQueue, Begin, Taken, Keeps, Early, OwnSegments, ThreadOK, CurOK
  <2>2. Quiet
    BY <1>1 DEF Dequeue, SetQueue, Begin, Quiet, ThreadOK, Late
  <2> QED  BY <2>1, <2>2 DEF Moves
<1>2. CASE ExitDispatcher \/ ExitResponder
  BY <1>2 DEF ExitDispatcher, ExitResponder, Reads, Goto, Moves, Stays, Keeps, OwnSegments,
     Quiet, ThreadOK, Late
<1>3. CASE SegFailed
  BY <1>3 DEF SegFailed, Finish, Moves, Stays, Keeps, OwnSegments, ThreadOK
<1>4. ASSUME NEW s \in Segments, s = cur["responder"], Requeue(s) PROVE Goal
  <2>1. OwnSegments /\ Quiet
    BY <1>4 DEF Requeue, SetQueue, Reads, Finish, OwnSegments, Quiet, ThreadOK, Late
  <2>2. PutBack(s) \/ Stays
    BY <1>4 DEF Requeue, SetQueue, Reads, Finish, PutBack, Stays, Keeps, Early, ThreadOK
  <2> QED  BY <2>1, <2>2 DEF Moves
<1>5. ASSUME NEW r \in Requests, Grabbed(r) \/ \E err \in Errors : Failed(r, err)
      PROVE  Goal
  <2>1. OwnSegments /\ Quiet
    BY <1>5 DEF Grabbed, Failed, SetHistory, Begin, OwnSegments, Quiet, ThreadOK, Late
  <2>2. Answered(r)
    BY <1>5 DEF Grabbed, Failed, SetHistory, Begin, Answered, Keeps, Early, ThreadOK, CurOK
  <2> QED  BY <2>1, <2>2 DEF Moves
<1>6. CASE Network
  <2>1. OwnSegments /\ Quiet
    BY <1>6 DEF Network, ServerDies, Reconnect, OwnSegments, Quiet
  <2>2. ASSUME NEW r \in Requests, ServerDies(r) PROVE Dropped(r)
    BY <1>6, <2>2 DEF Network, ServerDies, Dropped, Keeps
  <2>3. ASSUME NEW srv \in Servers, Reconnect(srv) PROVE Stays
    BY <1>6, <2>3 DEF Network, Reconnect, Stays, Keeps
  <2> QED  BY <1>6, <2>1, <2>2, <2>3 DEF Network, Moves
<1>7. ASSUME NEW s \in Segments, s = cur["dispatcher"], Dispatch(s) PROVE Goal
  BY <1>7, DispatchMoves
<1>8. ASSUME NEW t \in Threads, NEW s \in Segments, s = cur[t], Done(t, s) PROVE Goal
  BY <1>8, DoneMoves
<1> QED  BY <1>1, <1>2, <1>3, <1>4, <1>5, <1>6, <1>7, <1>8 DEF Dispatcher, Responder

LEMMA OthersInTime ==
    ASSUME SharedOK, ThreadOK, CurOK, Apart, DoneInTime, FilesCounted,
           Dispatcher \/ Responder \/ Network
    PROVE  Apart' /\ DoneInTime'
<1>1. Apart' /\ Moves
  BY OthersMove, MovesApart
<1>2. CASE Quiet
  BY <1>1, <1>2, MovesInTime DEF Quiet, InPhase, Keeps
<1>3. CASE SegFailed
  <2>1. InPhase /\ SegsSame
    BY <1>3, GrabberAssumption DEF SegFailed, Finish, InPhase, SegsSame, Keeps, CurOK, At,
       ThreadOK, Threads, segVars, Late
  <2> QED  BY <1>1, <2>1, MovesInTime
<1>4. ASSUME NEW t \in Threads, NEW s \in Segments, s = cur[t], Bookkeeping(t, s)
      PROVE  DoneInTime'
  <2>1. CASE DoneWrite(t, s)
    BY <1>4, <2>1, WriteInTime
  <2>2. CASE ~DoneWrite(t, s)
    <3>1. s # NoSegment
      BY GrabberAssumption
    <3>2. UNCHANGED segState
      BY <1>4, <2>2 DEF Bookkeeping, SegmentDone, FileDone, ReportFile, SetFile, SetCounters,
         segVars
    <3>3. InPhase
      BY <1>4, <2>2, <3>1 DEF Bookkeeping, SegmentDone, FileDone, ReportFile, AfterDone, Goto,
         Finish, InPhase, Keeps, At, ThreadOK, Late
    <3> QED  BY <1>1, <3>2, <3>3, MovesInTime DEF SegsSame
  <2> QED  BY <2>1, <2>2
<1> QED  BY <1>1, <1>2, <1>3, <1>4, OthersMove

-----------------------------------------------------------------------------
\* What the books depend on.

Unbusy(places) ==
    \A t \in Threads : \/ pc'[t] = pc[t] /\ cur'[t] = cur[t]
                       \/ pc[t] \notin places /\ pc'[t] \notin places

LEMMA KeepsCounted ==
    ASSUME FilesCounted, SegsSame, FilesSame, UNCHANGED fDone, Unbusy({"count", "file"})
    PROVE  FilesCounted'
<1>1. \A s \in Segments : Counting(s)' <=> Counting(s)
  BY DEF Counting, Unbusy
<1>2. \A f \in Files : Counted(f)' = Counted(f)
  BY <1>1 DEF Counted, SegsSame, SegsOf
<1>3. ASSUME NEW t \in Threads, NEW s \in Segments, cur'[t] = s, pc'[t] = "file"
      PROVE  Counted(FileOf[s])' = SegsOf(FileOf[s])
  <2>1. cur[t] = s /\ pc[t] = "file"
    BY <1>3 DEF Unbusy
  <2> QED  BY <1>2, <2>1, GrabberAssumption DEF FilesCounted
<1> QED  BY <1>2, <1>3 DEF FilesCounted, FilesSame

LEMMA KeepsListed ==
    ASSUME FilesListed, FilesSame, UNCHANGED doneFiles, doneFiles \in Seq(Files),
           Unbusy({"file", "report"})
    PROVE  FilesListed'
<1>1. \A s \in Segments : FileOf[s] \in Files
  BY GrabberAssumption
<1>2. Listed(doneFiles) \subseteq Files
  BY SeqElements
<1>3. \A t \in Threads : pc'[t] \in {"file", "report"} => pc'[t] = pc[t] /\ cur'[t] = cur[t]
  BY DEF Unbusy
<1> QED  BY <1>1, <1>2, <1>3 DEF FilesListed, FilesSame, Threads

LEMMA KeepsFailures ==
    ASSUME SharedOK, Failures, DoneInTime, DoneInTime', SegsSame,
           UNCHANGED <<segErr, failedSegments>>,
           \/ Keeps("dispatcher") /\ (pc'["dispatcher"] \in Late <=> pc["dispatcher"] \in Late)
           \/ pc["dispatcher"] \notin Late /\ pc'["dispatcher"] \notin Late
    PROVE  Failures'
<1>1. \A s \in segErr : s \in Segments /\ segState[s] = "Done" /\ segState'[s] = "Done"
  BY DEF Failures, SegsSame, SharedOK
<1>2. {s \in segErr : cur'["dispatcher"] # s} = {s \in segErr : cur["dispatcher"] # s}
  BY <1>1 DEF DoneInTime, Threads, Keeps
<1> QED  BY <1>1, <1>2 DEF Failures, Keeps

LEMMA KeepsBalance ==
    ASSUME Balance, OneSignal, FilesSame, UNCHANGED <<doneFiles, required, fRequired>>,
           Unbusy({"report", "signal"}), mpc' = "require" <=> mpc = "require"
    PROVE  Balance' /\ OneSignal'
<1>1. Reporting' = Reporting
  BY DEF Reporting, Unbusy
<1>2. ToDo' = ToDo
  BY DEF ToDo, FilesSame
<1> QED  BY <1>1, <1>2 DEF Balance, OneSignal, Unbusy, Threads

LEMMA QuietBooks ==
    ASSUME SharedOK, Books, DoneInTime, DoneInTime', Quiet, mpc' = "require" <=> mpc = "require"
    PROVE  Books'
<1>1. Unbusy({"count", "file"}) /\ Unbusy({"file", "report"}) /\ Unbusy({"report", "signal"})
  BY DEF Quiet, Unbusy, Late
<1>2. FilesCounted'
  BY <1>1, KeepsCounted DEF Books, Quiet
<1>3. FilesListed'
  BY <1>1, KeepsListed DEF Books, Quiet, SharedOK
<1>4. Failures'
  BY KeepsFailures DEF Books, Quiet, Keeps, Threads
<1> QED  BY <1>1, <1>2, <1>3, <1>4, KeepsBalance DEF Books, Quiet

-----------------------------------------------------------------------------
\* The steps that keep the books.

LEMMA WriteBooks ==
    ASSUME SharedOK, ThreadOK, Apart, DoneInTime, Books, UNCHANGED mpc,
           NEW t \in Threads, NEW s \in Segments, s = cur[t], DoneWrite(t, s)
    PROVE  Books'
<1>1. /\ UNCHANGED <<cur, fDone, fState, fRequired, doneFiles, required, failedSegments>>
      /\ \A x \in Segments : segState'[x] = IF x = s THEN "Done" ELSE segState[x]
      /\ \A u \in Threads : pc'[u] = IF u = t THEN "count" ELSE pc[u]
      /\ pc[t] = "write" /\ segState[s] # "Done"
  BY DEF DoneWrite, Goto, At, fileVars, grabVars, SharedOK, ThreadOK, DoneInTime, Late
<1>2. \A x \in Segments : Counting(x)' <=> Counting(x) \/ x = s
  BY <1>1 DEF Counting
<1>3. \A f \in Files : Counted(f)' = Counted(f)
  BY <1>1, <1>2 DEF Counted, SegsOf
<1>4. FilesCounted'
  <2>1. ASSUME NEW u \in Threads, NEW x \in Segments, cur'[u] = x, pc'[u] = "file"
        PROVE  Counted(FileOf[x])' = SegsOf(FileOf[x])
    <3>1. cur[u] = x /\ pc[u] = "file" /\ FileOf[x] \in Files
      BY <1>1, <2>1, GrabberAssumption
    <3> QED  BY <1>3, <3>1 DEF Books, FilesCounted
  <2> QED  BY <1>1, <1>3, <2>1 DEF Books, FilesCounted
<1>5. FilesListed'
  BY <1>1, KeepsListed DEF Books, Unbusy, FilesSame, SharedOK
<1>6. s \notin segErr /\ \A x \in segErr : x \in Segments /\ segState[x] = "Done"
  BY <1>1 DEF Books, Failures, SharedOK
<1>7. Failures'
  <2>1. CASE t = "dispatcher"
    <3>1. segErr' = segErr \cup {s}
      BY <2>1 DEF DoneWrite
    <3>2. {x \in segErr' : cur'["dispatcher"] # x} = {x \in segErr : cur["dispatcher"] # x}
      BY <1>1, <2>1, <3>1
    <3> QED  BY <1>1, <1>6, <2>1, <3>1, <3>2 DEF Books, Failures
  <2>2. CASE t = "responder"
    <3>1. segErr' = segErr
      BY <1>6, <2>2 DEF DoneWrite
    <3>2. {x \in segErr' : cur'["dispatcher"] # x} = {x \in segErr : cur["dispatcher"] # x}
      BY <1>1, <3>1
    <3> QED  BY <1>1, <1>6, <2>2, <3>1, <3>2 DEF Books, Failures, Threads
  <2> QED  BY <2>1, <2>2 DEF Threads
<1> QED
  BY <1>1, <1>4, <1>5, <1>7, KeepsBalance DEF Books, Unbusy, FilesSame

LEMMA CountBooks ==
    ASSUME SharedOK, ThreadOK, Apart, DoneInTime, Books, UNCHANGED mpc,
           NEW t \in Threads, NEW s \in Segments, s = cur[t], SegmentDone(t, FileOf[s])
    PROVE  Books'
<1> DEFINE f == FileOf[s]
<1>1. /\ f \in Files /\ pc[t] = "count" /\ s # NoSegment /\ s \in SegsOf(f)
      /\ \A g \in Files : fDone'[g] = IF g = f THEN fDone[g] + 1 ELSE fDone[g]
      /\ UNCHANGED <<segState, segErr, fState, fRequired, doneFiles, required, failedSegments>>
      /\ \A u \in Threads \ {t} : pc'[u] = pc[u] /\ cur'[u] = cur[u]
      /\ pc'[t] \notin {"count", "report", "signal"}
  BY GrabberAssumption DEF SegmentDone, AfterDone, Goto, Finish, At, segVars, grabVars,
     SharedOK, ThreadOK, SegsOf
<1>2. pc'[t] = "file" => cur'[t] = s /\ fDone'[f] >= Len(SegSeq[f])
  BY DEF SegmentDone, AfterDone, Goto, Finish, ThreadOK
<1>3. t = "dispatcher" => cur'[t] = s /\ pc'[t] \in Late /\ pc[t] \in Late
  BY <1>1 DEF SegmentDone, AfterDone, Goto, ThreadOK, Late
<1>4. \A x \in Segments : Counting(x)' <=> Counting(x) /\ x # s
  <2>1. \A u \in Threads \ {t} : cur[u] # s
    BY <1>1 DEF Apart, Threads
  <2> QED  BY <1>1, <2>1 DEF Counting
<1>5. segState[s] = "Done" /\ s \notin Counted(f)
  BY <1>1 DEF DoneInTime, Late, Counted, Counting
<1>6. \A g \in Files : Counted(g)' = IF g = f THEN Counted(g) \cup {s} ELSE Counted(g)
  <2>1. \A g \in Files : s \in SegsOf(g) <=> g = f
    BY <1>1 DEF SegsOf
  <2> QED  BY <1>1, <1>4, <1>5, <2>1 DEF Counted, SegsOf
<1>7. \A g \in Files : fState[g] = "Done" \/ Counted(g) = SegsOf(g) => g # f
  BY <1>1, <1>5 DEF Books, FilesCounted
<1>8. \A g \in Files : fDone'[g] = Cardinality(Counted(g)')
  <2>1. Cardinality(Counted(f) \cup {s}) = Cardinality(Counted(f)) + 1
    <3>1. IsFiniteSet(Counted(f))
      BY <1>1, SegmentsFinite, FS_Subset DEF Counted
    <3> QED  BY <1>5, <3>1, FS_AddElement
  <2> HIDE DEF f
  <2> QED  BY <1>1, <1>6, <2>1 DEF Books, FilesCounted
<1>9. pc'[t] = "file" => Counted(f)' = SegsOf(f)
  <2>1. /\ IsFiniteSet(SegsOf(f)) /\ Cardinality(SegsOf(f)) = Len(SegSeq[f])
        /\ Len(SegSeq[f]) \in Nat
    BY <1>1, SegmentsFinite
  <2>2. Counted(f)' \subseteq SegsOf(f)
    BY <1>1, <1>6 DEF Counted
  <2>3. /\ Cardinality(Counted(f)') <= Cardinality(SegsOf(f))
        /\ Cardinality(Counted(f)') \in Nat
        /\ Cardinality(SegsOf(f)) = Cardinality(Counted(f)') => SegsOf(f) = Counted(f)'
    BY <2>1, <2>2, FS_Subset, FS_CardinalityType
  <2>4. pc'[t] = "file" => Cardinality(Counted(f)') >= Cardinality(SegsOf(f))
    BY <1>1, <1>2, <1>8, <2>1
  <2> HIDE DEF f
  <2> QED  BY <2>1, <2>3, <2>4
<1>10. FilesCounted'
  <2>1. ASSUME NEW u \in Threads, NEW x \in Segments, cur'[u] = x, pc'[u] = "file"
        PROVE  Counted(FileOf[x])' = SegsOf(FileOf[x])
    <3>1. CASE u = t
      <4>1. x = s
        BY <1>2, <2>1, <3>1
      <4> QED  BY <1>9, <2>1, <3>1, <4>1
    <3>2. CASE u # t
      <4>1. cur[u] = x /\ pc[u] = "file" /\ FileOf[x] \in Files
        BY <1>1, <2>1, <3>2, GrabberAssumption
      <4>2. Counted(FileOf[x]) = SegsOf(FileOf[x])
        BY <4>1 DEF Books, FilesCounted
      <4> QED  BY <1>6, <1>7, <4>1, <4>2
    <3> QED  BY <3>1, <3>2
  <2>2. \A g \in Files : fState'[g] = "Done" => Counted(g)' = SegsOf(g)
    BY <1>1, <1>6, <1>7 DEF Books, FilesCounted
  <2> QED  BY <1>8, <2>1, <2>2 DEF FilesCounted
<1>11. FilesListed'
  <2>1. \A u \in Threads, x \in Segments : cur'[u] = x /\ pc'[u] = "file" =>
            fState'[FileOf[x]] # "Done"
    BY <1>1, <1>2, <1>7 DEF Books, FilesListed
  <2>2. \A u \in Threads, x \in Segments : cur'[u] = x /\ pc'[u] = "report" =>
            fState'[FileOf[x]] = "Done" /\ FileOf[x] \notin Listed(doneFiles')
    BY <1>1 DEF Books, FilesListed
  <2>3. ASSUME NEW u \in Threads \ {t}, NEW x \in Segments,
               cur[u] = x, pc[u] \in {"file", "report"}
        PROVE  FileOf[x] # f
    <3>1. FileOf[x] \in Files
      BY GrabberAssumption
    <3>2. Counted(FileOf[x]) = SegsOf(FileOf[x]) \/ fState[FileOf[x]] = "Done"
      BY <2>3 DEF Books, FilesCounted, FilesListed
    <3> QED  BY <1>7, <3>1, <3>2
  <2>4. ASSUME NEW x \in Segments, NEW y \in Segments, cur'["dispatcher"] = x,
               cur'["responder"] = y, \A u \in Threads : pc'[u] \in {"file", "report"}
        PROVE  FileOf[x] # FileOf[y]
    <3>1. pc'[t] = "file" /\ cur'[t] = s
      BY <1>1, <1>2, <2>4
    <3>2. CASE t = "dispatcher"
      BY <1>1, <2>3, <2>4, <3>1, <3>2 DEF Threads
    <3>3. CASE t = "responder"
      BY <1>1, <2>3, <2>4, <3>1, <3>3 DEF Threads
    <3> QED  BY <3>2, <3>3 DEF Threads
  <2> QED  BY <1>1, <2>1, <2>2, <2>4 DEF Books, FilesListed
<1>12. Failures'
  <2>1. cur'["dispatcher"] = cur["dispatcher"]
    BY <1>1, <1>3 DEF Threads
  <2>2. pc'["dispatcher"] \in Late => pc["dispatcher"] \in Late
    BY <1>1, <1>3 DEF Threads
  <2> QED  BY <1>1, <2>1, <2>2 DEF Books, Failures
<1>13. Unbusy({"report", "signal"})
  BY <1>1 DEF Unbusy
<1> QED
  BY <1>1, <1>10, <1>11, <1>12, <1>13, KeepsBalance DEF Books, FilesSame

\* A thread has a segment of a file that is asked for.
LEMMA CurRequired ==
    ASSUME Untouched, NEW t \in Threads, NEW s \in Segments, s = cur[t]
    PROVE  fRequired[FileOf[s]]
BY GrabberAssumption DEF Untouched, Idle, InWork, SegsOf

LEMMA ReportingFacts == IsFiniteSet(Reporting) /\ Cardinality(Reporting) \in Nat
<1>1. IsFiniteSet({"dispatcher"}) /\ Threads = {"dispatcher"} \cup {"responder"}
  BY FS_Singleton DEF Threads
<1>2. IsFiniteSet(Threads)
  BY <1>1, FS_AddElement
<1> QED  BY <1>2, FS_Subset, FS_CardinalityType DEF Reporting

LEMMA ToDoFacts == IsFiniteSet(ToDo) /\ Cardinality(ToDo) \in Nat
BY GrabberAssumption, FS_Subset, FS_CardinalityType DEF ToDo

LEMMA FileDoneBooks ==
    ASSUME SharedOK, ThreadOK, Untouched, Books, UNCHANGED mpc,
           NEW t \in Threads, NEW s \in Segments, s = cur[t], FileDone(t, FileOf[s])
    PROVE  Books'
<1> DEFINE f == FileOf[s]
<1>1. /\ f \in Files /\ pc[t] = "file"
      /\ \A g \in Files : fState'[g] = IF g = f THEN "Done" ELSE fState[g]
      /\ UNCHANGED <<cur, segState, segErr, fDone, fRequired, doneFiles, required,
                     failedSegments>>
      /\ \A u \in Threads : pc'[u] = IF u = t THEN "report" ELSE pc[u]
  BY GrabberAssumption DEF FileDone, SetFile, Goto, At, segVars, grabVars, SharedOK, ThreadOK
<1>2. Counted(f) = SegsOf(f) /\ fState[f] # "Done" /\ fRequired[f]
  BY <1>1, CurRequired DEF Books, FilesCounted, FilesListed
<1>3. \A g \in Files : Counted(g)' = Counted(g)
  BY <1>1 DEF Counted, Counting, SegsOf
<1>4. FilesCounted'
  <2>1. ASSUME NEW u \in Threads, NEW x \in Segments, cur'[u] = x, pc'[u] = "file"
        PROVE  Counted(FileOf[x])' = SegsOf(FileOf[x])
    <3>1. cur[u] = x /\ pc[u] = "file" /\ FileOf[x] \in Files
      BY <1>1, <2>1, GrabberAssumption
    <3> QED  BY <1>3, <3>1 DEF Books, FilesCounted
  <2>2. \A g \in Files : fState'[g] = "Done" => Counted(g)' = SegsOf(g)
    BY <1>1, <1>2, <1>3 DEF Books, FilesCounted
  <2> QED  BY <1>1, <1>3, <2>1, <2>2 DEF Books, FilesCounted
<1>5. ASSUME NEW u \in Threads \ {t}, NEW x \in Segments,
             cur[u] = x, pc[u] \in {"file", "report"}
      PROVE  FileOf[x] # f
  <2>1. \A v \in Threads : pc[v] \in {"file", "report"}
    BY <1>1, <1>5 DEF Threads
  <2> QED  BY <1>1, <1>5, <2>1 DEF Books, FilesListed, Threads
<1>6. Listed(doneFiles) \subseteq Files /\ f \notin Listed(doneFiles)
  BY <1>2, SeqElements DEF Books, FilesListed, SharedOK
<1>7. FilesListed'
  <2>1. ASSUME NEW u \in Threads, NEW x \in Segments, cur'[u] = x, pc'[u] = "file"
        PROVE  fState'[FileOf[x]] # "Done"
    <3>1. cur[u] = x /\ pc[u] = "file" /\ u # t /\ FileOf[x] \in Files
      BY <1>1, <2>1, GrabberAssumption
    <3>2. FileOf[x] # f
      BY <1>5, <3>1
    <3> QED  BY <1>1, <3>1, <3>2 DEF Books, FilesListed
  <2>2. ASSUME NEW u \in Threads, NEW x \in Segments, cur'[u] = x, pc'[u] = "report"
        PROVE  fState'[FileOf[x]] = "Done" /\ FileOf[x] \notin Listed(doneFiles')
    <3>1. cur[u] = x /\ FileOf[x] \in Files
      BY <1>1, <2>2, GrabberAssumption
    <3>2. CASE u = t
      BY <1>1, <1>6, <3>1, <3>2
    <3>3. CASE u # t
      <4>1. pc[u] = "report"
        BY <1>1, <2>2, <3>3
      <4> QED  BY <1>1, <3>1, <4>1 DEF Books, FilesListed
    <3> QED  BY <3>2, <3>3
  <2>3. (\A u \in Threads : pc'[u] \in {"file", "report"}) =>
            \A u \in Threads : pc[u] \in {"file", "report"}
    BY <1>1
  <2>4. \A g \in Listed(doneFiles') : fState'[g] = "Done"
    BY <1>1, <1>6 DEF Books, FilesListed
  <2> QED  BY <1>1, <2>1, <2>2, <2>3, <2>4 DEF Books, FilesListed
<1>8. Failures'
  <2>1. pc'["dispatcher"] \in Late => pc["dispatcher"] \in Late
    BY <1>1 DEF Threads, Late
  <2> QED  BY <1>1, <2>1 DEF Books, Failures
<1>9. Balance'
  <2>1. Reporting' = Reporting \cup {t} /\ t \notin Reporting
    BY <1>1 DEF Reporting
  <2>2. ToDo = ToDo' \cup {f} /\ f \notin ToDo'
    BY <1>1, <1>2 DEF ToDo
  <2>3. IsFiniteSet(ToDo') /\ Cardinality(ToDo') \in Nat
    BY ToDoFacts, GrabberAssumption, FS_Subset, FS_CardinalityType DEF ToDo
  <2>4. Cardinality(ToDo) = Cardinality(ToDo') + 1
    BY <2>2, <2>3, FS_AddElement
  <2>5. Cardinality(Reporting') = Cardinality(Reporting) + 1
    BY <2>1, ReportingFacts, FS_AddElement
  <2> QED  BY <1>1, <2>3, <2>4, <2>5, ReportingFacts DEF Books, Balance, SharedOK
<1> QED  BY <1>1, <1>4, <1>7, <1>8, <1>9 DEF Books, OneSignal, Threads

LEMMA ReportBooks ==
    ASSUME SharedOK, ThreadOK, Books, UNCHANGED mpc,
           NEW t \in Threads, NEW s \in Segments, s = cur[t], ReportFile(t, FileOf[s])
    PROVE  Books'
<1> DEFINE f == FileOf[s]
<1>1. /\ f \in Files /\ pc[t] = "report" /\ s # NoSegment
      /\ doneFiles' = Append(doneFiles, f)
      /\ UNCHANGED <<segState, segErr, fDone, fState, fRequired, required, failedSegments>>
      /\ \A u \in Threads \ {t} : pc'[u] = pc[u] /\ cur'[u] = cur[u]
      /\ pc'[t] \in {"signal", "segFailed", "idle"}
      /\ \A u \in Threads : pc[u] # "signal"
  BY GrabberAssumption DEF ReportFile, SetCounters, AfterDone, Goto, Finish, At, DoneMxFree,
     segVars, fileVars, ThreadOK
<1>2. t = "dispatcher" => cur'[t] = s /\ pc'[t] \in Late
  BY <1>1 DEF ReportFile, AfterDone, Goto, Finish, ThreadOK, Late
<1>3. fState[f] = "Done" /\ f \notin Listed(doneFiles)
  BY <1>1 DEF Books, FilesListed
<1>4. FilesCounted'
  BY <1>1, KeepsCounted DEF Books, Unbusy, SegsSame, FilesSame
<1>5. ASSUME NEW u \in Threads \ {t}, NEW x \in Segments,
             cur[u] = x, pc[u] \in {"file", "report"}
      PROVE  FileOf[x] # f
  <2>1. \A v \in Threads : pc[v] \in {"file", "report"}
    BY <1>1, <1>5 DEF Threads
  <2> QED  BY <1>1, <1>5, <2>1 DEF Books, FilesListed, Threads
<1>6. doneFiles \in Seq(Files) /\ Listed(doneFiles') = Listed(doneFiles) \cup {f}
  BY <1>1, ListedFacts DEF SharedOK
<1>7. FilesListed'
  <2>1. ASSUME NEW u \in Threads, NEW x \in Segments, cur'[u] = x, pc'[u] = "file"
        PROVE  fState'[FileOf[x]] # "Done"
    BY <1>1, <2>1 DEF Books, FilesListed
  <2>2. ASSUME NEW u \in Threads, NEW x \in Segments, cur'[u] = x, pc'[u] = "report"
        PROVE  fState'[FileOf[x]] = "Done" /\ FileOf[x] \notin Listed(doneFiles')
    <3>1. u # t /\ cur[u] = x /\ pc[u] = "report"
      BY <1>1, <2>2
    <3>2. FileOf[x] # f
      BY <1>5, <3>1
    <3> QED  BY <1>1, <1>6, <3>1, <3>2 DEF Books, FilesListed
  <2>3. ~\A u \in Threads : pc'[u] \in {"file", "report"}
    BY <1>1
  <2>4. \A g \in Listed(doneFiles') : fState'[g] = "Done"
    BY <1>1, <1>3, <1>6 DEF Books, FilesListed
  <2>5. IsInjective(doneFiles')
    <3>1. IsInjective(doneFiles)
      BY DEF Books, FilesListed
    <3>2. IsInjective(Append(doneFiles, f))
      BY <1>1, <1>3, <1>6, <3>1, AppendNew
    <3> QED  BY <1>1, <3>2
  <2> QED  BY <2>1, <2>2, <2>3, <2>4, <2>5 DEF FilesListed
<1>8. Failures'
  <2>1. cur'["dispatcher"] = cur["dispatcher"]
    BY <1>1, <1>2 DEF Threads
  <2>2. pc'["dispatcher"] \in Late => pc["dispatcher"] \in Late
    BY <1>1 DEF Threads, Late
  <2> QED  BY <1>1, <2>1, <2>2 DEF Books, Failures
<1>9. Balance'
  <2>1. Reporting = Reporting' \cup {t} /\ t \notin Reporting'
    BY <1>1 DEF Reporting
  <2>2. ToDo' = ToDo
    BY <1>1 DEF ToDo
  <2>3. IsFiniteSet(Reporting') /\ Cardinality(Reporting') \in Nat
    BY ReportingFacts, <2>1, FS_Subset, FS_CardinalityType
  <2>4. Cardinality(Reporting) = Cardinality(Reporting') + 1
    BY <2>1, <2>3, FS_AddElement
  <2>5. Len(doneFiles') = Len(doneFiles) + 1 /\ Len(doneFiles) \in Nat
    BY <1>1, <1>6, AppendProperties, LenProperties
  <2> QED  BY <1>1, <2>2, <2>3, <2>4, <2>5, ToDoFacts DEF Books, Balance, SharedOK
<1>10. OneSignal'
  BY <1>1 DEF OneSignal, Threads
<1> QED  BY <1>4, <1>7, <1>8, <1>9, <1>10 DEF Books

LEMMA FailBooks ==
    ASSUME SharedOK, ThreadOK, CurOK, Books, UNCHANGED mpc, SegFailed
    PROVE  Books'
<1>1. /\ pc["dispatcher"] = "segFailed" /\ pc'["dispatcher"] = "idle"
      /\ cur'["dispatcher"] = NoSegment
      /\ pc'["responder"] = pc["responder"] /\ cur'["responder"] = cur["responder"]
      /\ failedSegments' = failedSegments + 1
      /\ UNCHANGED <<segState, segErr, fDone, fState, fRequired, doneFiles, required>>
  BY DEF SegFailed, Finish, At, segVars, fileVars, ThreadOK, Threads
<1>2. FilesCounted' /\ FilesListed' /\ Balance' /\ OneSignal'
  BY <1>1, KeepsCounted, KeepsListed, KeepsBalance
     DEF Books, Unbusy, SegsSame, FilesSame, Threads, SharedOK
<1>3. Failures'
  <2>1. cur["dispatcher"] \in segErr /\ segErr \subseteq Segments /\ NoSegment \notin segErr
    BY <1>1, GrabberAssumption DEF Books, Failures, Late, SharedOK
  <2>2. {x \in segErr : cur'["dispatcher"] # x} = segErr
    BY <1>1, <2>1
  <2>3. segErr = {x \in segErr : cur["dispatcher"] # x} \cup {cur["dispatcher"]}
    BY <2>1
  <2>4. IsFiniteSet({x \in segErr : cur["dispatcher"] # x})
    BY <2>1, SegmentsFinite, FS_Subset
  <2>5. Cardinality(segErr) = Cardinality({x \in segErr : cur["dispatcher"] # x}) + 1
    BY <2>3, <2>4, FS_AddElement
  <2> QED  BY <1>1, <2>2, <2>5 DEF Books, Failures, Late
<1> QED  BY <1>2, <1>3 DEF Books

LEMMA OthersBooks ==
    ASSUME SharedOK, ThreadOK, CurOK, Untouched, Apart, DoneInTime, DoneInTime', Books,
           Dispatcher \/ Responder \/ Network
    PROVE  Books'
<1>1. FilesCounted /\ UNCHANGED mpc
  BY DEF Books, Dispatcher, Responder, Network, mainVars
<1>2. \/ Quiet \/ SegFailed
      \/ \E t \in Threads, s \in Segments : s = cur[t] /\ Bookkeeping(t, s)
  BY <1>1, OthersMove
<1>3. CASE Quiet
  BY <1>1, <1>3, QuietBooks
<1>4. ASSUME NEW t \in Threads, NEW s \in Segments, s = cur[t], Bookkeeping(t, s)
      PROVE  Books'
  BY <1>1, <1>4, WriteBooks, CountBooks, FileDoneBooks, ReportBooks DEF Bookkeeping
<1> QED  BY <1>1, <1>2, <1>3, <1>4, FailBooks

-----------------------------------------------------------------------------
\* What is fresh is left so, and what is done stays done.

KeepsFresh ==
    /\ \A s \in Segments : FreshSegment(s) => FreshSegment(s)'
    /\ \A f \in Files : Fresh(f) => Fresh(f)'
    /\ \A f \in Files : fState[f] = "Done" => fState'[f] = "Done"

LEMMA OthersKeepFresh ==
    ASSUME SharedOK, ThreadOK, CurOK, DoneInTime, FilesCounted,
           Dispatcher \/ Responder \/ Network
    PROVE  KeepsFresh
<1>1. /\ Moves /\ OwnSegments
      /\ \/ Quiet \/ SegFailed
         \/ \E t \in Threads, s \in Segments : s = cur[t] /\ Bookkeeping(t, s)
  BY OthersMove
<1>2. ASSUME NEW s \in Segments, FreshSegment(s) PROVE FreshSegment(s)'
  <2>1. ~InWork(s)' /\ ~IsCur(s)
    BY <1>1, <1>2, MovesNone, NoPlace DEF FreshSegment
  <2> QED  BY <1>1, <1>2, <2>1 DEF FreshSegment, OwnSegments
<1>3. ASSUME NEW f \in Files, Fresh(f) PROVE Fresh(f)'
  <2>1. fState'[f] = fState[f]
    BY <1>3, OthersLeaveAlone DEF Fresh, FreshSegment, Idle, LeavesAlone
  <2>2. \A s \in SegsOf(f) : FreshSegment(s)'
    BY <1>2, <1>3 DEF Fresh, SegsOf
  <2> QED  BY <1>3, <2>1, <2>2 DEF Fresh, SegsOf
<1>4. ASSUME NEW f \in Files, fState[f] = "Done" PROVE fState'[f] = "Done"
  <2>1. CASE Quiet \/ SegFailed
    BY <1>4, <2>1 DEF Quiet, FilesSame, SegFailed, fileVars
  <2>2. ASSUME NEW t \in Threads, NEW s \in Segments, Bookkeeping(t, s)
        PROVE  fState'[f] = "Done"
    BY <1>4, <2>2 DEF Bookkeeping, DoneWrite, SegmentDone, FileDone, ReportFile, SetFile,
       SetCounters, fileVars, SharedOK
  <2> QED  BY <1>1, <2>1, <2>2
<1> QED  BY <1>2, <1>3, <1>4 DEF KeepsFresh

LEMMA KeepsLots ==
    ASSUME SharedOK, CallerOK, KeepsFresh, Lots, UNCHANGED <<mainVars, fRequired>>
    PROVE  Lots'
<1>1. UNCHANGED <<mpc, calls, mfiles, msegs>>
  BY DEF mainVars
<1>2. NothingToDo => NothingToDo'
  BY DEF ToDo, NothingToDo, KeepsFresh
<1>3. InPause => InPause'
  BY <1>1, <1>2 DEF InPause, Op, thisFile
<1>4. InLot => InLot'
  BY <1>1 DEF InLot, KeepsFresh, thisFile
<1>5. NoneBetween => NoneBetween'
  BY DEF KeepsFresh, NoneBetween
<1> QED  BY <1>1, <1>3, <1>4, <1>5 DEF Lots, Op

LEMMA OthersLots ==
    ASSUME SharedOK, ThreadOK, CallerOK, CurOK, DoneInTime, FilesCounted, Lots, Ahead(calls),
           Dispatcher \/ Responder \/ Network
    PROVE  Lots' /\ Ahead(calls)'
<1>1. UNCHANGED <<mainVars, fRequired>>
  BY OthersKeepRequired DEF Dispatcher, Responder, Network
<1> QED  BY <1>1, OthersKeepFresh, KeepsLots DEF mainVars

-----------------------------------------------------------------------------
\* The caller's steps, while it keeps to one lot at a time.

\* When every file asked for is done, the others are fresh.
LEMMA AllFresh ==
    SharedOK /\ ThreadOK /\ Untouched /\ FilesCounted /\ NothingToDo => NoneBetween
<1> SUFFICES ASSUME SharedOK, ThreadOK, Untouched, FilesCounted, NothingToDo,
                    NEW f \in Files, ~fRequired[f]
             PROVE  Fresh(f)
  BY DEF ToDo, NothingToDo, NoneBetween
<1>1. /\ fState[f] # "Done" /\ Cardinality(Counted(f)) = 0
      /\ \A s \in SegsOf(f) : ~InWork(s) /\ segState[s] # "Working"
  BY DEF Untouched, Idle, FilesCounted
<1>2. Counted(f) = {}
  <2>1. IsFiniteSet(Counted(f))
    BY SegmentsFinite, FS_Subset DEF Counted
  <2> QED  BY <1>1, <2>1, FS_EmptySet
<1>3. ASSUME NEW s \in SegsOf(f) PROVE segState[s] # "Done"
  BY <1>1, <1>2 DEF Counted, Counting, InWork
<1> QED  BY <1>1, <1>3 DEF Fresh, FreshSegment

\* When the counters say so, every file asked for is done and reported.
LEMMA AllDone ==
    ASSUME SharedOK, Balance, isPostProcessable, mpc # "require"
    PROVE  NothingToDo /\ ToDo = {} /\ Reporting = {}
<1>1. Len(doneFiles) \in Nat /\ required \in Nat /\ Len(doneFiles) >= required
  BY LenProperties DEF SharedOK, isPostProcessable
<1>2. required + 0 = Len(doneFiles) + Cardinality(Reporting) + Cardinality(ToDo)
  BY DEF Balance
<1>3. Cardinality(ToDo) = 0 /\ Cardinality(Reporting) = 0
  BY <1>1, <1>2, ToDoFacts, ReportingFacts
<1> QED  BY <1>3, ToDoFacts, ReportingFacts, FS_EmptySet DEF NothingToDo

\* What follows a call.
LEMMA NextCall ==
    ASSUME CallerOK, calls # <<>>, Ahead(calls), Return
    PROVE  /\ Ahead(calls)'
           /\ calls' # <<>> => Op # "Shutdown" /\ (Op \in Grabs => Op' \in {"Await", "Shutdown"})
<1>1. /\ Len(calls) \in Nat /\ calls[1] = Head(calls) /\ Len(calls) >= 1
      /\ Len(Tail(calls)) = Len(calls) - 1
      /\ \A i \in 1 .. Len(calls) - 1 : Tail(calls)[i] = calls[i + 1]
  BY HeadTailProperties, LenProperties, EmptySeq DEF CallerOK
<1>2. calls' = Tail(calls) /\ Tail(calls) \in Seq(Calls)
  BY SeqFacts DEF Return, CallerOK
<1>3. \A i \in 1 .. Len(Tail(calls)) - 1 :
          /\ i \in 1 .. Len(calls) - 1 /\ i + 1 \in 1 .. Len(calls) - 1
          /\ Tail(calls)[i] = calls[i + 1] /\ Tail(calls)[i + 1] = calls[(i + 1) + 1]
  BY <1>1
<1>4. Ahead(Tail(calls))
  BY <1>3 DEF Ahead
<1>5. ASSUME Tail(calls) # <<>>
      PROVE  /\ Op # "Shutdown"
             /\ Op \in Grabs => Head(Tail(calls))[1] \in {"Await", "Shutdown"}
  <2>1. 1 \in 1 .. Len(calls) - 1 /\ Tail(calls)[1] = calls[1 + 1]
    BY <1>1, <1>2, <1>5, EmptySeq, LenProperties
  <2>2. Head(Tail(calls)) = Tail(calls)[1]
    BY <1>2, <1>5, HeadTailProperties
  <2> QED  BY <1>1, <2>1, <2>2 DEF Ahead, Op
<1> QED  BY <1>2, <1>4, <1>5 DEF Op

\* A call that leaves nothing to do leaves the next one a lot of its own.
LEMMA NextLot ==
    ASSUME SharedOK', ThreadOK', CallerOK, CallerOK', Untouched', FilesCounted', NothingToDo',
           calls # <<>>, Ahead(calls), Return
    PROVE  Lots' /\ Ahead(calls)'
<1>1. mpc' = "idle" /\ Ahead(calls)'
  BY NextCall DEF Return
<1>2. NoneBetween'
  BY AllFresh, PTL
<1> QED  BY <1>1, <1>2 DEF Lots, InPause, Grabs

\* Where the caller is tells what it is doing.
LEMMA Doing ==
    ASSUME CallerOK, InCall, Lots, mpc # "idle"
    PROVE  /\ calls # <<>>
           /\ \/ Op \in Grabs /\ InLot
              \/ Op \in {"Pause", "Resume"} /\ InPause
              \/ Op = "Shutdown" /\ mpc \in {"waitEnqueue", "waitGrab"}
<1>1. calls # <<>> /\ Op \in {"GrabAll", "GrabFile", "Pause", "Resume", "Await", "Shutdown"}
  BY SeqFacts DEF InCall, CallerOK, Calls, Ops, Op
<1>2. CASE Op \in {"GrabAll", "GrabFile"}
  BY <1>1, <1>2 DEF Lots, Grabs
<1>3. CASE Op \in {"Pause", "Resume", "Await", "Shutdown"}
  BY <1>1, <1>3 DEF Lots
<1> QED  BY <1>1, <1>2, <1>3

\* A step in which the caller only looks at the state of the files and segments.
Looks ==
    UNCHANGED <<segState, segErr, fState, fDone, fRequired, failedSegments,
                queue, asked, pc, cur>>

LEMMA LooksKeep ==
    ASSUME SharedOK, Looks, Apart, DoneInTime, Books
    PROVE  /\ Apart' /\ DoneInTime' /\ FilesCounted' /\ Failures' /\ OneSignal' /\ KeepsFresh
           /\ UNCHANGED <<doneFiles, required>> /\ (mpc' = "require" <=> mpc = "require") =>
                  Books'
<1>1. Apart' /\ DoneInTime'
  BY DEF Looks, Apart, DoneInTime, InQueue, IsCur, IsAsked
<1>2. SegsSame /\ FilesSame /\ \A places : Unbusy(places)
  BY DEF Looks, SegsSame, FilesSame, Unbusy
<1>3. FilesCounted' /\ Failures' /\ OneSignal'
  BY <1>1, <1>2, KeepsCounted, KeepsFailures DEF Books, Keeps, Looks, OneSignal
<1>4. KeepsFresh
  BY SameWork DEF Looks, KeepsFresh, Fresh, FreshSegment, SegsOf
<1>5. UNCHANGED <<doneFiles, required>> /\ (mpc' = "require" <=> mpc = "require") => Quiet
  BY <1>2 DEF Looks, Quiet
<1> QED  BY <1>1, <1>3, <1>4, <1>5, QuietBooks

\* The file at hand, and what is left of the lot after it.
LEMMA FileAtHand ==
    ASSUME CallerOK, mfiles # <<>>, IsInjective(mfiles)
    PROVE  /\ thisFile \in Files /\ thisFile \in Listed(mfiles)
           /\ IsInjective(Tail(mfiles))
           /\ \A f \in Listed(Tail(mfiles)) : f \in Listed(mfiles) /\ f # thisFile
BY TailNew, ListedFacts, SeqFacts DEF CallerOK, thisFile

LEMMA LotBegins ==
    ASSUME TypeInv, Lots, KeepsFresh, CallGrabAll \/ CallGrabFile
    PROVE  Lots'
<1> CallerOK /\ InCall
  BY DEF TypeInv, TypeOK
<1>1. calls # <<>> /\ Op \in Grabs /\ NoneBetween /\ calls' = calls /\ Op' = Op
  BY DEF CallGrabAll, CallGrabFile, Calling, Enter, Lots, Grabs, Op
<1>2. \A f \in Files : Fresh(f)' \/ fState'[f] = "Done"
  BY <1>1 DEF NoneBetween, KeepsFresh
<1>3. mpc' \in {"next", "reset"} /\ IsInjective(mfiles')
  <2>1. CASE CallGrabAll
    BY <2>1, GrabberAssumption DEF CallGrabAll, Enter
  <2>2. CASE CallGrabFile
    <3>1. mfiles' = <<Head(calls)[2]>> /\ mpc' = "reset"
      BY <2>2 DEF CallGrabFile, Enter
    <3>2. IsInjective(<<Head(calls)[2]>>)
      BY DEF IsInjective
    <3> QED  BY <3>1, <3>2
  <2> QED  BY <2>1, <2>2
<1>4. InLot'
  BY <1>2, <1>3 DEF InLot
<1> QED  BY <1>1, <1>3, <1>4 DEF Lots, Grabs

\* The caller begins its loop over the segments of a fresh file.
LEMMA LotVisits ==
    ASSUME CallerOK, mfiles # <<>>, InLot, mpc # "enqueue", KeepsFresh,
           thisFile \in Files, Fresh(thisFile),
           NEW l \in {"resumeSegs", "enqueue"}, Visit(l)
    PROVE  InLot'
<1>1. /\ mpc' = l /\ msegs' = SegSeq[thisFile] /\ UNCHANGED <<calls, mfiles>>
      /\ thisFile' = thisFile
  BY DEF Visit, thisFile
<1>2. IsInjective(msegs') /\ \A s \in Segments : s \in Listed(msegs') <=> FileOf[s] = thisFile
  BY <1>1, GrabberAssumption
<1>3. \A s \in Segments : FileOf[s] = thisFile => FreshSegment(s)
  BY DEF Fresh, SegsOf
<1> QED  BY <1>1, <1>2, <1>3 DEF InLot, KeepsFresh

\* GrabNext, Enqueued, and GrabFileState and SegmentResumeRead where they go on.
LEMMA LotGoesOn ==
    ASSUME TypeInv, Lots, Ahead(calls), KeepsFresh, UNCHANGED fState,
           GrabNext \/ Enqueued \/ GrabFileState \/ SegmentResumeRead
    PROVE  Lots' /\ Ahead(calls)'
<1> CallerOK /\ InCall
  BY DEF TypeInv, TypeOK
<1>1. mpc \in {"next", "enqueue", "grab", "resumeSegs"} /\ calls # <<>> /\ Op \in Grabs /\ InLot
  BY Doing DEF GrabNext, Enqueued, GrabFileState, SegmentResumeRead, InPause, Grabs
<1>2. CASE Return
  <2>1. Ahead(calls)' /\ mpc' = "idle" /\ (calls' # <<>> => Op' \in {"Await", "Shutdown"})
    BY <1>1, <1>2, NextCall DEF Return
  <2> QED  BY <2>1 DEF Lots, Grabs
<1>3. ASSUME InLot', UNCHANGED calls PROVE Lots' /\ Ahead(calls)'
  <2>1. mpc' # "idle" /\ Op' = Op
    BY <1>3 DEF InLot, Op
  <2> QED  BY <1>1, <1>3, <2>1 DEF Lots, Grabs
<1>4. CASE NextFile /\ mfiles # <<>>
  <2>1. /\ mpc' = "next" /\ mfiles' = Tail(mfiles) /\ UNCHANGED calls
        /\ IsInjective(mfiles') /\ \A f \in Listed(mfiles') : f \in Listed(mfiles) /\ f # thisFile
    BY <1>1, <1>4, FileAtHand DEF NextFile, InLot
  <2>2. InLot'
    BY <1>1, <2>1 DEF InLot, KeepsFresh
  <2> QED  BY <1>3, <2>1, <2>2
<1>5. CASE GrabNext
  <2>1. CASE mfiles # <<>> /\ Step("reset")
    <3>1. InLot'
      BY <1>1, <1>5, <2>1 DEF GrabNext, Step, InLot, KeepsFresh
    <3> QED  BY <1>3, <2>1, <3>1 DEF Step
  <2> QED  BY <1>2, <1>4, <1>5, <2>1 DEF GrabNext
<1>6. CASE Enqueued
  BY <1>4, <1>6 DEF Enqueued, InCall, FilePC
<1>7. CASE GrabFileState
  <2>1. mpc = "grab" /\ mfiles # <<>>
    BY <1>7 DEF GrabFileState, InCall, FilePC
  <2>2. CASE fState[thisFile] \in {"Pending", "Paused"}
    <3>1. thisFile \in Files /\ Fresh(thisFile)
      BY <1>1, <2>1, <2>2, FileAtHand DEF InLot
    <3>2. CASE Visit("enqueue")
      BY <1>1, <1>3, <2>1, <3>1, <3>2, LotVisits DEF Visit
    <3>3. CASE Step("resume")
      <4>1. mpc' = "resume" /\ UNCHANGED <<calls, mfiles, msegs>> /\ thisFile' = thisFile
        BY <3>3 DEF Step, thisFile
      <4>2. InLot'
        BY <1>1, <2>1, <3>1, <4>1 DEF InLot, KeepsFresh
      <4> QED  BY <1>3, <4>1, <4>2
    <3> QED  BY <1>7, <2>2, <3>2, <3>3 DEF GrabFileState
  <2> QED  BY <1>4, <1>7, <2>1, <2>2 DEF GrabFileState
<1>8. CASE SegmentResumeRead
  <2>1. mpc = "resumeSegs" /\ msegs # <<>> /\ Listed(Tail(msegs)) \subseteq Listed(msegs)
    BY <1>8, ListedFacts DEF SegmentResumeRead, CallerOK
  <2>2. /\ mpc' \in {"resumeSegs", "resumeSeg"} /\ UNCHANGED <<calls, mfiles>>
        /\ thisFile' = thisFile /\ Listed(msegs') \subseteq Listed(msegs)
    BY <1>8, <2>1 DEF SegmentResumeRead, Step, NextSegment, thisFile
  <2>3. InLot'
    BY <1>1, <2>1, <2>2 DEF InLot, KeepsFresh
  <2> QED  BY <1>3, <2>2, <2>3
<1> QED  BY <1>5, <1>6, <1>7, <1>8

\* A paused file is resumed before its segments are enqueued, and the counters reset.
LEMMA LotResumes ==
    ASSUME TypeInv, Lots, Ahead(calls), KeepsFresh,
           \/ ResumingFile \/ SegmentResumeSet \/ ResumedFile \/ RequireFile \/ ResetGrabbed
           \/ ResumeFile /\ Op # "Resume"
    PROVE  Lots' /\ Ahead(calls)'
<1> CallerOK /\ InCall
  BY DEF TypeInv, TypeOK
<1>1. /\ mpc \in {"resume", "resuming", "resumeSegs", "resumeSeg", "require", "reset"}
      /\ calls # <<>> /\ mfiles # <<>> /\ Op \in Grabs /\ InLot /\ Op # "Resume"
  <2>1. mpc \in {"resume", "resuming", "resumeSegs", "resumeSeg", "require", "reset"}
    BY DEF ResumingFile, SegmentResumeSet, ResumedFile, RequireFile, ResetGrabbed, ResumeFile
  <2>2. mpc = "resume" => Op # "Resume"
    BY DEF ResumingFile, SegmentResumeSet, ResumedFile, RequireFile, ResetGrabbed, ResumeFile
  <2> QED  BY <2>1, <2>2, Doing DEF InPause, Grabs, InCall, FilePC
<1>2. ASSUME InLot', UNCHANGED calls PROVE Lots' /\ Ahead(calls)'
  <2>1. mpc' # "idle" /\ Op' = Op
    BY <1>2 DEF InLot, Op
  <2> QED  BY <1>1, <1>2, <2>1 DEF Lots, Grabs
<1>3. thisFile \in Files /\ (mpc # "reset" => Fresh(thisFile))
  BY <1>1, FileAtHand DEF InLot
<1>4. ASSUME NEW l \in {"resumeSegs", "enqueue"}, Visit(l), mpc # "reset"
      PROVE  Lots' /\ Ahead(calls)'
  BY <1>1, <1>2, <1>3, <1>4, LotVisits DEF Visit
<1>5. ASSUME NEW l \in {"grab", "resuming", "require"}, Step(l), mpc = "reset" <=> l = "grab"
      PROVE  Lots' /\ Ahead(calls)'
  <2>1. mpc' = l /\ UNCHANGED <<calls, mfiles>> /\ thisFile' = thisFile
    BY <1>5 DEF Step, thisFile
  <2>2. InLot'
    BY <1>1, <1>3, <1>5, <2>1 DEF InLot, KeepsFresh
  <2> QED  BY <1>2, <2>1, <2>2
<1>6. CASE SegmentResumeSet
  <2>1. mpc = "resumeSeg" /\ msegs # <<>> /\ Listed(Tail(msegs)) \subseteq Listed(msegs)
    BY <1>6, ListedFacts DEF SegmentResumeSet, InCall, CallerOK
  <2>2. /\ mpc' = "resumeSegs" /\ UNCHANGED <<calls, mfiles>>
        /\ thisFile' = thisFile /\ Listed(msegs') \subseteq Listed(msegs)
    BY <1>6, <2>1 DEF SegmentResumeSet, NextSegment, thisFile
  <2>3. InLot'
    BY <1>1, <2>1, <2>2 DEF InLot, KeepsFresh
  <2> QED  BY <1>2, <2>2, <2>3
<1>7. CASE ResumingFile \/ ResumedFile \/ RequireFile \/ ResumeFile
  <2>1. Op # "Resume" /\ mpc # "reset"
    BY <1>1, <1>7 DEF ResumingFile, ResumedFile, RequireFile, ResumeFile
  <2> QED
    BY <1>4, <1>5, <1>7, <2>1 DEF ResumingFile, ResumedFile, RequireFile, ResumeFile, Resumed
<1> QED  BY <1>5, <1>6, <1>7 DEF ResetGrabbed

\* A segment is enqueued, and no other nor another file is any less fresh for it.
LEMMA LotEnqueues ==
    ASSUME TypeInv, Apart, DoneInTime, Lots, Ahead(calls), EnqueueSegment,
           UNCHANGED <<thrVars, dieVars>>
    PROVE  Apart' /\ DoneInTime' /\ Quiet /\ Lots' /\ Ahead(calls)'
<1> SharedOK /\ CallerOK /\ InCall
  BY DEF TypeInv, TypeOK
<1> DEFINE s == Head(msegs)
<1>1. /\ mpc = "enqueue" /\ msegs # <<>> /\ calls # <<>> /\ mfiles # <<>> /\ Op \in Grabs /\ InLot
      /\ s \in Segments /\ s \in Listed(msegs) /\ queue' = Append(queue, s)
      /\ mpc' = "enqueue" /\ msegs' = Tail(msegs) /\ UNCHANGED <<calls, mfiles>>
      /\ UNCHANGED <<segState, segErr, fState, fDone, fRequired, doneFiles, required,
                     failedSegments, asked, pc, cur>>
  BY Doing, SeqFacts, ListedFacts DEF EnqueueSegment, InPause, Grabs, CallerOK, InCall, FilePC,
     SetQueue, NextSegment, segVars, fileVars, grabVars, netVars, thrVars
<1>2. FreshSegment(s) /\ FileOf[s] = thisFile /\ IsInjective(msegs)
  BY <1>1 DEF InLot
<1> HIDE DEF s
<1>3. ~InQueue(s) /\ ~IsCur(s) /\ ~IsAsked(s) /\ segState[s] # "Done"
  BY <1>1, <1>2, NoPlace DEF FreshSegment
<1>4. \A x \in Segments : /\ InQueue(x)' <=> InQueue(x) \/ x = s
                          /\ IsCur(x)' <=> IsCur(x)
                          /\ IsAsked(x)' <=> IsAsked(x)
  BY <1>1, QueueMore DEF IsCur, IsAsked
<1>5. IsInjective(queue')
  <2>1. queue \in Seq(Segments) /\ s \notin Listed(queue) /\ IsInjective(queue)
    BY <1>3 DEF InQueue, SharedOK, Apart
  <2> QED  BY <1>1, <2>1, AppendNew
<1>6. Apart'
  BY <1>1, <1>3, <1>4, <1>5 DEF Apart
<1>7. DoneInTime'
  BY <1>1, <1>3, <1>4 DEF DoneInTime
<1>8. Quiet
  BY <1>1 DEF Quiet, SegsSame, FilesSame
<1>9. \A x \in Segments : FreshSegment(x) /\ x # s => FreshSegment(x)'
  <2>1. \A x \in Segments : ~InWork(x) /\ x # s => ~InWork(x)'
    BY <1>4, NoPlace DEF InWork, InQueue, IsCur, IsAsked
  <2> QED  BY <1>1, <2>1 DEF FreshSegment
<1>10. \A f \in Files : Fresh(f) /\ f # thisFile => Fresh(f)'
  BY <1>1, <1>2, <1>9 DEF Fresh, SegsOf
<1>11. InLot'
  <2>1. /\ \A x \in Listed(Tail(msegs)) : x \in Listed(msegs) /\ x # s
        /\ IsInjective(Tail(msegs))
    BY <1>1, <1>2, TailNew DEF CallerOK, s
  <2>2. thisFile' = thisFile
    BY <1>1 DEF thisFile
  <2> QED  BY <1>1, <1>9, <1>10, <2>1, <2>2 DEF InLot
<1> QED  BY <1>1, <1>6, <1>7, <1>8, <1>11 DEF Lots, Op, Grabs


\* A caller that waits for its lots finds nothing to pause, and resumes nothing.
LEMMA LotPauses ==
    ASSUME TypeInv, TypeInv', Untouched, Untouched', FilesCounted', Lots, Ahead(calls),
           UNCHANGED <<fState, fRequired>>,
           \/ CallPause \/ CallResume \/ LockGrabber \/ PauseNext \/ ResumeNext \/ ResumeGrabs
           \/ ResumeFile /\ Op = "Resume"
    PROVE  Lots' /\ Ahead(calls)'
<1> CallerOK /\ InCall /\ CallerOK' /\ SharedOK' /\ ThreadOK'
  BY DEF TypeInv, TypeOK
<1>1. calls # <<>> /\ Op \in {"Pause", "Resume"} /\ InPause
  <2>1. CASE CallPause \/ CallResume
    BY <2>1 DEF CallPause, CallResume, Calling, Lots
  <2>2. CASE LockGrabber \/ ResumeGrabs
    BY <2>2, Doing DEF LockGrabber, ResumeGrabs, InLot
  <2>3. CASE PauseNext \/ ResumeNext \/ (ResumeFile /\ Op = "Resume")
    BY <2>3, Doing DEF PauseNext, ResumeNext, ResumeFile, Grabs
  <2> QED  BY <2>1, <2>2, <2>3
<1>2. NothingToDo /\ NothingToDo'
  BY <1>1 DEF InPause, NothingToDo, ToDo
<1>3. CASE Return
  BY <1>1, <1>2, <1>3, NextLot
<1>4. ASSUME UNCHANGED calls, mpc' \in {"lock", "next", "resume", "stillPending"},
             mpc' \in {"resume", "stillPending"} =>
                 Op = "Resume" /\ thisFile' = thisFile /\ fRequired[thisFile]
      PROVE  Lots' /\ Ahead(calls)'
  <2>1. Op' = Op
    BY <1>4 DEF Op
  <2>2. InPause'
    BY <1>2, <1>4, <2>1 DEF InPause
  <2> QED  BY <1>1, <1>4, <2>1, <2>2 DEF Lots, Grabs
<1>5. mfiles # <<>> => thisFile \in Files
  BY AtHand
<1>6. mpc # "idle" /\ mfiles # <<>> /\ fRequired[thisFile] => fState[thisFile] = "Done"
  BY <1>2, <1>5 DEF NothingToDo, ToDo
<1> USE DEF Enter, Step, NextFile, thisFile
<1>7. CASE CallPause \/ CallResume
  BY <1>3, <1>4, <1>7 DEF CallPause, CallResume
<1>8. CASE LockGrabber
  BY <1>4, <1>8 DEF LockGrabber
<1>9. CASE PauseNext
  <2>1. mfiles # <<>> => fState[thisFile] \notin {"Pending", "Working"}
    BY <1>2, <1>5 DEF NothingToDo, ToDo, Untouched
  <2> QED  BY <1>3, <1>4, <1>9, <2>1 DEF PauseNext
<1>10. CASE ResumeNext
  BY <1>3, <1>4, <1>10 DEF ResumeNext
<1>11. CASE ResumeFile /\ Op = "Resume"
  <2>1. mpc = "resume" /\ mfiles # <<>> /\ fRequired[thisFile]
    BY <1>1, <1>11 DEF ResumeFile, InPause, InCall, FilePC
  <2>2. Step("stillPending")
    BY <1>6, <1>11, <2>1 DEF ResumeFile, Resumed
  <2> QED  BY <1>4, <1>11, <2>1, <2>2
<1>12. CASE ResumeGrabs
  <2>1. mpc = "stillPending" /\ mfiles # <<>> /\ fRequired[thisFile]
    BY <1>1, <1>12 DEF ResumeGrabs, InPause, InCall, FilePC
  <2>2. NextFile
    BY <1>6, <1>12, <2>1 DEF ResumeGrabs
  <2> QED  BY <1>4, <2>2
<1> QED  BY <1>7, <1>8, <1>9, <1>10, <1>11, <1>12

LEMMA LotNotPaused ==
    ASSUME CallerOK, InCall, Lots
    PROVE  ~PausingFile /\ ~PauseSegment /\ ~PausedFile
BY Doing DEF PausingFile, PauseSegment, PausedFile, InLot, InPause

\* Nothing follows a shutdown.
LEMMA LotEnds ==
    ASSUME TypeInv, Lots, Ahead(calls), CallShutdown \/ ShutdownStrategy \/ ShutDown
    PROVE  Lots' /\ Ahead(calls)'
<1> CallerOK /\ InCall
  BY DEF TypeInv, TypeOK
<1>1. calls # <<>> /\ Op = "Shutdown"
  BY Doing DEF CallShutdown, ShutdownStrategy, ShutDown, Calling, InLot, InPause
<1>2. CASE CallShutdown \/ ShutdownStrategy
  BY <1>1, <1>2 DEF CallShutdown, ShutdownStrategy, Step, Lots, Op, Grabs
<1>3. CASE ShutDown
  <2>1. Return
    BY <1>3 DEF ShutDown
  <2> QED  BY <1>1, <2>1, NextCall DEF Lots
<1> QED  BY <1>2, <1>3


\* The signal is received: the lot is done, and the next call has one of its own.
LEMMA SignalLots ==
    ASSUME TypeInv, TypeInv', CurOK, UntouchedInv, UntouchedInv', SignalTruthful, LotInv,
           NEW t \in Threads, PostProcessable(t)
    PROVE  LotInv'
<1> /\ SharedOK /\ ThreadOK /\ CallerOK /\ SharedOK' /\ ThreadOK' /\ CallerOK'
    /\ Apart /\ DoneInTime /\ Books /\ Ahead(calls) /\ Lots
  BY DEF TypeInv, TypeOK, LotInv
<1>1. /\ pc[t] = "signal" /\ mpc = "idle" /\ calls # <<>> /\ Return
      /\ UNCHANGED <<segState, segErr, fState, fDone, fRequired, doneFiles, required,
                     failedSegments, queue, asked>>
      /\ \A u \in Threads \ {t} : pc'[u] = pc[u] /\ cur'[u] = cur[u]
      /\ pc'[t] \in {"segFailed", "idle"}
      /\ pc'[t] = "segFailed" <=> t = "dispatcher"
      /\ cur'[t] = IF t = "dispatcher" THEN cur[t] ELSE NoSegment
  BY DEF PostProcessable, At, Calling, Reads, AfterDone, Goto, Finish, segVars, fileVars,
         grabVars, netVars, ThreadOK, Threads
<1>2. cur[t] # NoSegment
  BY <1>1 DEF CurOK
<1>3. SegsSame /\ FilesSame /\ Stays /\ InPhase
  BY <1>1, <1>2 DEF SegsSame, FilesSame, Stays, Keeps, InPhase, Late
<1>4. Apart' /\ DoneInTime'
  BY <1>3, MovesApart, MovesInTime DEF Moves
<1>5. FilesCounted' /\ FilesListed'
  BY <1>1, <1>3, KeepsCounted, KeepsListed DEF Books, Unbusy, SharedOK
<1>6. Failures'
  <2>1. \/ Keeps("dispatcher") /\ (pc'["dispatcher"] \in Late <=> pc["dispatcher"] \in Late)
        \/ pc["dispatcher"] \notin Late /\ pc'["dispatcher"] \notin Late
    BY <1>1 DEF Keeps, Late, Threads
  <2> QED  BY <1>1, <1>3, <1>4, <2>1, KeepsFailures DEF Books
<1>7. NothingToDo'
  <2>1. isPostProcessable /\ mpc # "require"
    BY <1>1 DEF SignalTruthful
  <2>2. NothingToDo
    BY <2>1, AllDone DEF Books
  <2> QED  BY <1>1, <2>2 DEF NothingToDo, ToDo
<1>8. Balance' /\ OneSignal'
  <2>1. Reporting' = Reporting
    BY <1>1 DEF Reporting
  <2>2. ToDo' = ToDo /\ mpc' = "idle"
    BY <1>1 DEF ToDo, Return
  <2> QED  BY <1>1, <2>1, <2>2 DEF Books, Balance, OneSignal, Threads
<1>9. Lots' /\ Ahead(calls)'
  BY <1>1, <1>5, <1>7, NextLot DEF UntouchedInv
<1> QED  BY <1>4, <1>5, <1>6, <1>8, <1>9 DEF LotInv, Books

\* The caller's other steps: most only look.
LEMMA LooksLots ==
    ASSUME TypeInv, TypeInv', UntouchedInv, UntouchedInv', LotInv, Looks,
           \/ /\ UNCHANGED <<doneFiles, required>>
              /\ \/ CallGrabAll \/ CallGrabFile \/ CallPause \/ CallResume \/ LockGrabber
                 \/ GrabNext \/ PauseNext \/ ResumeNext \/ ResumeFile \/ SegmentResumeRead
                 \/ ResumeGrabs \/ GrabFileState \/ Enqueued
                 \/ CallShutdown \/ ShutdownStrategy \/ ShutDown
           \/ RequireFile \/ ResetGrabbed
    PROVE  LotInv'
<1> /\ SharedOK /\ ThreadOK /\ CallerOK /\ InCall
    /\ Apart /\ DoneInTime /\ Books /\ Ahead(calls) /\ Lots
  BY DEF TypeInv, TypeOK, LotInv
<1>1. /\ Apart' /\ DoneInTime' /\ FilesCounted' /\ Failures' /\ OneSignal' /\ KeepsFresh
      /\ UNCHANGED <<doneFiles, required>> /\ (mpc' = "require" <=> mpc = "require") => Books'
  BY LooksKeep
<1>2. Lots' /\ Ahead(calls)'
  <2>1. UNCHANGED <<fState, fRequired>> /\ Untouched /\ Untouched'
    BY DEF Looks, UntouchedInv
  <2>2. CASE CallGrabAll \/ CallGrabFile
    <3>1. UNCHANGED calls
      BY <2>2 DEF CallGrabAll, CallGrabFile, Enter
    <3> QED  BY <1>1, <2>2, <3>1, LotBegins
  <2>3. CASE GrabNext \/ Enqueued \/ GrabFileState \/ SegmentResumeRead
    BY <1>1, <2>1, <2>3, LotGoesOn
  <2>4. CASE RequireFile \/ ResetGrabbed \/ (ResumeFile /\ Op # "Resume")
    BY <1>1, <2>4, LotResumes
  <2>5. CASE \/ CallPause \/ CallResume \/ LockGrabber \/ PauseNext \/ ResumeNext \/ ResumeGrabs
             \/ ResumeFile /\ Op = "Resume"
    BY <1>1, <2>1, <2>5, LotPauses
  <2>6. CASE CallShutdown \/ ShutdownStrategy \/ ShutDown
    BY <2>6, LotEnds
  <2> QED  BY <2>2, <2>3, <2>4, <2>5, <2>6
<1>3. ASSUME UNCHANGED <<doneFiles, required>>, mpc' # "require", mpc # "require"
      PROVE  Books'
  BY <1>1, <1>3
<1>4. SegsSame /\ FilesSame /\ \A places : Unbusy(places)
  BY DEF Looks, SegsSame, FilesSame, Unbusy
<1>5. Reporting' = Reporting /\ ToDo' = ToDo
  BY DEF Looks, Reporting, ToDo
<1>6. CASE RequireFile
  <2>1. /\ mpc = "require" /\ mpc' # "require"
        /\ doneFiles' = doneFiles /\ required' = required + 1
    BY <1>6 DEF RequireFile, SetCounters, Resumed, Step, Visit
  <2>2. FilesListed'
    BY <1>4, <2>1, KeepsListed DEF Books, SharedOK
  <2>3. Balance'
    BY <1>5, <2>1 DEF Books, Balance, SharedOK
  <2> QED  BY <1>1, <1>2, <2>2, <2>3 DEF LotInv, Books
<1>7. CASE ResetGrabbed
  <2>1. mpc = "reset" /\ mpc' = "grab"
    BY <1>7 DEF ResetGrabbed, Step
  <2>2. CASE ~isPostProcessable
    <3>1. UNCHANGED <<doneFiles, required>>
      BY <1>7, <2>2 DEF ResetGrabbed, Reads, grabVars
    <3> QED  BY <1>1, <1>2, <1>3, <2>1, <3>1 DEF LotInv
  <2>3. CASE isPostProcessable
    <3>1. doneFiles' = <<>> /\ required' = 0
      BY <1>7, <2>3 DEF ResetGrabbed, SetCounters
    <3>2. ToDo = {} /\ Reporting = {}
      BY <2>1, <2>3, AllDone DEF Books
    <3>3. Balance'
      BY <1>5, <2>1, <3>1, <3>2, FS_EmptySet DEF Balance
    <3>4. FilesListed'
      <4>1. \A u \in Threads : pc'[u] = pc[u] /\ cur'[u] = cur[u] /\ pc[u] # "report"
        BY <3>2 DEF Looks, Reporting
      <4>2. Listed(doneFiles') = {} /\ IsInjective(doneFiles')
        BY <3>1 DEF Listed, IsInjective
      <4> QED  BY <4>1, <4>2 DEF Books, FilesListed, Looks
    <3> QED  BY <1>1, <1>2, <3>3, <3>4 DEF LotInv, Books
  <2> QED  BY <2>2, <2>3
<1>8. CASE ~RequireFile /\ ~ResetGrabbed
  <2>1. UNCHANGED <<doneFiles, required>> /\ mpc # "require" /\ mpc' # "require"
    BY <1>8 DEF CallGrabAll, CallGrabFile, CallPause, CallResume, LockGrabber, GrabNext,
       PauseNext, ResumeNext, ResumeFile, SegmentResumeRead, ResumeGrabs, GrabFileState,
       Enqueued, CallShutdown, ShutdownStrategy, ShutDown, Calling, Enter, Return, Step,
       NextFile, Visit, NextSegment, Resumed
  <2> QED  BY <1>1, <1>2, <1>3, <2>1 DEF LotInv
<1> QED  BY <1>6, <1>7, <1>8


\* A paused file and its segments are resumed.
LEMMA ResumesLots ==
    ASSUME TypeInv, LotInv, ResumingFile \/ SegmentResumeSet \/ ResumedFile, UNCHANGED thrVars
    PROVE  LotInv'
<1> /\ SharedOK /\ ThreadOK /\ CallerOK /\ InCall
    /\ Apart /\ DoneInTime /\ Books /\ Ahead(calls) /\ Lots
  BY DEF TypeInv, TypeOK, LotInv
<1>1. /\ mpc \in {"resuming", "resumeSegs", "resumeSeg"} /\ InLot
      /\ thisFile \in Files /\ Fresh(thisFile)
  <2>1. mpc \in {"resuming", "resumeSegs", "resumeSeg"}
    BY DEF ResumingFile, SegmentResumeSet, ResumedFile
  <2>2. InLot /\ mfiles # <<>>
    BY <2>1, Doing DEF InPause, InCall, FilePC
  <2> QED  BY <2>1, <2>2, AtHand DEF InLot, FilePC
<1>2. /\ UNCHANGED <<segErr, fDone, doneFiles, required, failedSegments, queue, asked, pc, cur>>
      /\ \A f \in Files : fState'[f] # fState[f] =>
             f = thisFile /\ fState'[f] \in {"Resuming", "Pending"}
  BY DEF ResumingFile, SegmentResumeSet, ResumedFile, SetFile, SetSegment, segVars, fileVars,
         grabVars, netVars, thrVars, SharedOK
<1>3. \A s \in Segments : segState'[s] # segState[s] =>
          segState'[s] = "Pending" /\ segState[s] # "Done"
  <2>1. CASE SegmentResumeSet
    <3>1. /\ mpc = "resumeSeg" /\ msegs # <<>>
          /\ \A s \in Segments : segState'[s] # segState[s] =>
                 s = Head(msegs) /\ segState'[s] = "Pending"
      BY <2>1 DEF SegmentResumeSet, SetSegment, SharedOK, InCall
    <3>2. Head(msegs) \in Segments /\ Head(msegs) \in Listed(msegs)
      BY <3>1, AtHand, ListedFacts DEF CallerOK
    <3>3. FileOf[Head(msegs)] = thisFile
      BY <1>1, <3>1, <3>2 DEF InLot
    <3>4. segState[Head(msegs)] # "Done"
      BY <1>1, <3>2, <3>3 DEF Fresh, FreshSegment, SegsOf
    <3> QED  BY <3>1, <3>4
  <2>2. CASE ResumingFile \/ ResumedFile
    BY <2>2 DEF ResumingFile, ResumedFile, SetFile, segVars
  <2> QED  BY <2>1, <2>2
<1>4. fState[thisFile] # "Done"
  BY <1>1 DEF Fresh
<1>5. SegsSame /\ FilesSame /\ Stays /\ InPhase /\ \A places : Unbusy(places)
  BY <1>2, <1>3, <1>4 DEF SegsSame, FilesSame, Stays, Keeps, InPhase, Unbusy
<1>6. Apart' /\ DoneInTime'
  BY <1>5, MovesApart, MovesInTime DEF Moves
<1>7. KeepsFresh
  <2>1. \A s \in Segments : FreshSegment(s) => FreshSegment(s)'
    BY <1>2, <1>3, SameWork DEF FreshSegment
  <2> QED  BY <1>5, <2>1 DEF KeepsFresh, Fresh, FilesSame, SegsOf
<1>8. Lots' /\ Ahead(calls)'
  BY <1>7, LotResumes
<1>9. FilesCounted' /\ FilesListed' /\ Failures'
  <2>1. FilesCounted' /\ FilesListed'
    BY <1>2, <1>5, KeepsCounted, KeepsListed DEF Books, SharedOK
  <2>2. Keeps("dispatcher") /\ (pc'["dispatcher"] \in Late <=> pc["dispatcher"] \in Late)
    BY <1>2 DEF Keeps
  <2> QED  BY <1>2, <1>5, <1>6, <2>1, <2>2, KeepsFailures DEF Books
<1>10. Balance' /\ OneSignal'
  <2>1. CASE ResumingFile \/ SegmentResumeSet
    <3>1. UNCHANGED fRequired /\ mpc # "require" /\ mpc' # "require"
      BY <2>1 DEF ResumingFile, SegmentResumeSet, SetFile, SetSegment, Visit, NextSegment,
         fileVars
    <3> QED  BY <1>2, <1>5, <3>1, KeepsBalance DEF Books
  <2>2. CASE ResumedFile /\ fRequired[thisFile]
    <3>1. UNCHANGED fRequired /\ mpc # "require" /\ mpc' # "require"
      BY <1>1, <2>2 DEF ResumedFile, Resumed, Step, Visit, SharedOK
    <3> QED  BY <1>2, <1>5, <3>1, KeepsBalance DEF Books
  <2>3. CASE ResumedFile /\ ~fRequired[thisFile]
    <3>1. /\ mpc = "resumeSegs" /\ mpc' = "require"
          /\ \A f \in Files : fRequired'[f] <=> fRequired[f] \/ f = thisFile
      BY <1>1, <2>3 DEF ResumedFile, Step, SharedOK
    <3>2. Reporting' = Reporting
      BY <1>2 DEF Reporting
    <3>3. ToDo' = ToDo \cup {thisFile} /\ thisFile \notin ToDo
      BY <1>1, <1>4, <1>5, <2>3, <3>1 DEF ToDo, FilesSame
    <3>4. Cardinality(ToDo') = Cardinality(ToDo) + 1
      BY <3>3, ToDoFacts, FS_AddElement
    <3>5. Len(doneFiles) \in Nat /\ required \in Nat
      BY LenProperties DEF SharedOK
    <3> QED
      BY <1>2, <3>1, <3>2, <3>4, <3>5, ToDoFacts, ReportingFacts
         DEF Books, Balance, OneSignal
  <2> QED  BY <2>1, <2>2, <2>3
<1> QED  BY <1>6, <1>8, <1>9, <1>10 DEF LotInv, Books

LEMMA CallerLots ==
    ASSUME TypeInv, TypeInv', CurOK, UntouchedInv, UntouchedInv', SignalTruthful, LotInv, Caller
    PROVE  LotInv'
<1> SharedOK /\ CallerOK /\ InCall
  BY DEF TypeInv, TypeOK
<1> USE DEF Reads, segVars, fileVars, grabVars, netVars, thrVars
<1>1. CASE CallerAlone /\ UNCHANGED <<thrVars, dieVars>>
  <2>1. CASE ResumingFile \/ SegmentResumeSet \/ ResumedFile
    BY <1>1, <2>1, ResumesLots
  <2>2. CASE EnqueueSegment
    <3>1. Apart' /\ DoneInTime' /\ Quiet /\ Lots' /\ Ahead(calls)'
      BY <1>1, <2>2, LotEnqueues DEF LotInv
    <3>2. mpc # "require" /\ mpc' # "require"
      BY <2>2 DEF EnqueueSegment, NextSegment
    <3> QED  BY <3>1, <3>2, QuietBooks DEF LotInv
  <2>3. CASE RequireFile \/ ResetGrabbed
    <3>1. Looks
      BY <1>1, <2>3 DEF RequireFile, ResetGrabbed, SetCounters, Looks
    <3> QED  BY <2>3, <3>1, LooksLots
  <2>4. CASE \/ CallGrabAll \/ CallGrabFile \/ CallPause \/ CallResume \/ LockGrabber
             \/ GrabNext \/ PauseNext \/ ResumeNext \/ ResumeFile \/ SegmentResumeRead
             \/ ResumeGrabs \/ GrabFileState \/ Enqueued \/ ShutDown
    <3>1. Looks /\ UNCHANGED <<doneFiles, required>>
      BY <1>1, <2>4 DEF CallGrabAll, CallGrabFile, CallPause, CallResume, LockGrabber, GrabNext,
         PauseNext, ResumeNext, ResumeFile, SegmentResumeRead, ResumeGrabs, GrabFileState,
         Enqueued, ShutDown, SetGrabber, Looks
    <3> QED  BY <2>4, <3>1, LooksLots
  <2>5. ~PausingFile /\ ~PauseSegment /\ ~PausedFile
    BY LotNotPaused DEF LotInv
  <2> QED  BY <1>1, <2>1, <2>2, <2>3, <2>4, <2>5 DEF CallerAlone
<1>2. ASSUME NEW t \in Threads, PostProcessable(t) PROVE LotInv'
  BY <1>2, SignalLots
<1>3. CASE (CallShutdown \/ ShutdownStrategy) /\ UNCHANGED thrVars
  <2>1. Looks /\ UNCHANGED <<doneFiles, required>>
    BY <1>3 DEF CallShutdown, ShutdownStrategy, Looks
  <2> QED  BY <1>3, <2>1, LooksLots
<1> QED  BY <1>1, <1>2, <1>3 DEF Caller

\* The whole invariant, with those it rests on.
OrderlyInv == UntouchedInv /\ CurOK /\ SignalTruthful /\ LotInv

LEMMA NextOrderly ==
    ASSUME OrderlyInv, [Next]_vars
    PROVE  OrderlyInv'
<1> /\ TypeInv /\ UntouchedInv /\ CurOK /\ SignalTruthful /\ LotInv
    /\ SharedOK /\ ThreadOK /\ CallerOK /\ Untouched
    /\ Apart /\ DoneInTime /\ Books /\ Ahead(calls) /\ Lots /\ FilesCounted
  BY DEF OrderlyInv, UntouchedInv, TypeInv, TypeOK, LotInv, Books
<1>1. TypeInv' /\ UntouchedInv' /\ CurOK' /\ SignalTruthful'
  BY NextTypeInv, NextUntouched, NextCur, SignalStep
<1>2. CASE Dispatcher \/ Responder \/ Network
  <2>1. Apart' /\ DoneInTime'
    BY <1>2, OthersInTime
  <2>2. Books'
    BY <1>2, <2>1, OthersBooks
  <2> QED  BY <1>1, <1>2, <2>1, <2>2, OthersLots DEF OrderlyInv, LotInv
<1>3. CASE Caller
  BY <1>1, <1>3, CallerLots DEF OrderlyInv
<1>4. CASE UNCHANGED vars
  <2>1. Looks /\ UNCHANGED <<doneFiles, required>> /\ UNCHANGED mainVars
    BY <1>4 DEF vars, Looks, segVars, fileVars, grabVars, netVars, thrVars
  <2>2. Apart' /\ DoneInTime' /\ Books' /\ KeepsFresh
    BY <2>1, LooksKeep DEF mainVars
  <2>3. Lots' /\ Ahead(calls)'
    BY <2>1, <2>2, KeepsLots DEF Looks, mainVars
  <2> QED  BY <1>1, <2>2, <2>3 DEF OrderlyInv, LotInv
<1> QED  BY <1>2, <1>3, <1>4 DEF Next


LEMMA InitOrderly ==
    ASSUME LotAtATime
    PROVE  Init => OrderlyInv
<1> SUFFICES ASSUME Init PROVE OrderlyInv
  OBVIOUS
<1>1. UntouchedInv /\ CurOK /\ SignalTruthful
  BY InitUntouched DEF Init, CurOK, SignalTruthful, Threads
<1>2. \A s \in Segments : ~InQueue(s) /\ ~IsCur(s) /\ ~IsAsked(s)
  BY GrabberAssumption DEF Init, InQueue, IsCur, IsAsked, Listed
<1>3. Apart
  BY <1>2 DEF Init, Apart, IsInjective, Threads
<1>4. DoneInTime
  BY <1>2 DEF Init, DoneInTime, IsCur
<1>5. FilesCounted
  <2>1. ASSUME NEW f \in Files PROVE Counted(f) = {}
    BY DEF Init, Counted, SegsOf
  <2> QED  BY <2>1, FS_EmptySet DEF Init, FilesCounted
<1>6. FilesListed
  <2>1. \A t \in Threads : pc[t] = "idle"
    BY DEF Init
  <2>2. Listed(doneFiles) = {} /\ IsInjective(doneFiles)
    BY DEF Init, Listed, IsInjective
  <2> QED  BY <2>1, <2>2 DEF FilesListed, Threads
<1>7. Failures
  <2>1. segErr = {} /\ failedSegments = 0 /\ pc["dispatcher"] \notin Late
    BY DEF Init, Threads, Late
  <2>2. {s \in segErr : cur["dispatcher"] # s} = {}
    BY <2>1
  <2> QED  BY <2>1, <2>2, FS_EmptySet DEF Failures
<1>8. Balance /\ OneSignal
  <2>1. Reporting = {} /\ OneSignal
    BY DEF Init, Reporting, OneSignal, Threads
  <2>2. ToDo = InitRequired
    BY GrabberAssumption DEF Init, ToDo
  <2>3. Len(doneFiles) = 0 /\ required = Cardinality(InitRequired) /\ mpc = "idle"
    BY DEF Init
  <2>4. Cardinality(ToDo) \in Nat
    BY ToDoFacts
  <2> QED  BY <2>1, <2>2, <2>3, <2>4, FS_EmptySet DEF Balance
<1>9. calls \in Scripts /\ calls \in Seq(Calls)
  BY GrabberAssumption DEF Init
<1>10. Ahead(calls)
  BY <1>9 DEF LotAtATime, Ahead, Grabs
<1>11. Lots
  <2>1. ASSUME NEW f \in Files PROVE Fresh(f)
    BY <1>2, NoPlace DEF Init, Fresh, FreshSegment, SegsOf
  <2>2. calls # <<>> => Op \notin {"Pause", "Resume"}
    BY <1>9, HeadTailProperties DEF LotAtATime, Op
  <2> QED  BY <2>1, <2>2 DEF Init, Lots, NoneBetween
<1> QED  BY <1>1, <1>3, <1>4, <1>5, <1>6, <1>7, <1>8, <1>10, <1>11 DEF OrderlyInv, LotInv, Books

\* Two requests, or a request and the dispatcher, are never at work on one segment, so no
\* output file is truncated, replaced or closed while an article is written to it: a lot
\* enqueues each segment once, and the goroutines hand it on to one place at a time.
THEOREM OneAtATime ==
    ASSUME LotAtATime
    PROVE  Spec => []ExclusiveOutput
<1>1. OrderlyInv => ExclusiveOutput
  <2> SUFFICES ASSUME OrderlyInv, NEW s \in Segments, NEW p \in Places(s), NEW q \in Places(s)
               PROVE  p = q
    BY DEF ExclusiveOutput
  <2>1. SharedOK /\ Apart
    BY DEF OrderlyInv, UntouchedInv, TypeInv, TypeOK, LotInv
  <2>2. ASSUME NEW z \in Places(s)
        PROVE  \/ InQueue(s) /\ \E i \in DOMAIN queue : z = <<"queue", i>> /\ queue[i] = s
               \/ IsCur(s) /\ \E t \in Threads : z = <<"thread", t>> /\ cur[t] = s
               \/ IsAsked(s) /\ \E r \in Requests :
                      z = <<"asked", <<r, 1>>>> /\ asked[r] > 0 /\ r[1] = s
    <3>1. CASE z \in {"queue"} \X {i \in DOMAIN queue : queue[i] = s}
      BY <3>1 DEF InQueue, Listed
    <3>2. CASE z \in {"thread"} \X {t \in Threads : cur[t] = s}
      BY <3>2 DEF IsCur
    <3>3. CASE z \in {"asked"} \X UNION {{r} \X (1 .. asked[r]) : r \in {s} \X Servers \X Groups}
      <4>1. PICK r \in {s} \X Servers \X Groups : \E i \in 1 .. asked[r] : z = <<"asked", <<r, i>>>>
        BY <3>3
      <4>2. r \in Requests /\ r[1] = s
        BY DEF Requests
      <4>3. asked[r] \in Nat /\ asked[r] <= 1
        BY <2>1, <4>2 DEF SharedOK, Apart
      <4>4. asked[r] > 0 /\ \A i \in 1 .. asked[r] : i = 1
        BY <4>1, <4>3
      <4> QED  BY <4>1, <4>2, <4>4 DEF IsAsked
    <3> QED  BY <3>1, <3>2, <3>3 DEF Places
  <2>3. CASE InQueue(s)
    <3>1. ~IsCur(s) /\ ~IsAsked(s) /\ IsInjective(queue)
      BY <2>1, <2>3 DEF Apart
    <3> QED  BY <2>2, <3>1 DEF IsInjective
  <2>4. CASE IsCur(s)
    <3>1. ~InQueue(s) /\ ~IsAsked(s) /\ s # NoSegment
      BY <2>1, <2>4, GrabberAssumption DEF Apart
    <3>2. \A t, u \in Threads : cur[t] = s /\ cur[u] = s => t = u
      BY <2>1, <3>1 DEF Apart, Threads
    <3> QED  BY <2>2, <3>1, <3>2
  <2>5. CASE IsAsked(s)
    <3>1. ~InQueue(s) /\ ~IsCur(s)
      BY <2>1, <2>5 DEF Apart
    <3> QED  BY <2>1, <2>2, <3>1 DEF Apart
  <2> QED  BY <2>2, <2>3, <2>4, <2>5
<1> QED  BY <1>1, InitOrderly, NextOrderly, PTL DEF Spec, Safety

\* No segment is counted twice or missed: SegmentDone and SegFailed run once for each
\* segment that is done, or failed, though Done is called by two goroutines.
THEOREM ExactlyCounted ==
    ASSUME LotAtATime
    PROVE  Spec => []CountsExact
<1>1. OrderlyInv => CountsExact
  <2> SUFFICES ASSUME FilesCounted, Failures PROVE CountsExact
    BY DEF OrderlyInv, LotInv, Books
  <2>1. ASSUME NEW f \in Files
        PROVE  Counted(f) = {s \in DoneSegs(f) : \A t \in Threads : ~(pc[t] = "count" /\ cur[t] = s)}
    BY DEF Counted, Counting, DoneSegs
  <2> QED  BY <2>1 DEF CountsExact, FilesCounted, Failures
<1> QED  BY <1>1, InitOrderly, NextOrderly, PTL DEF Spec, Safety

\* What isPostProcessable compares are counters that agree: required exceeds the files
\* reported by those asked for and not done, the resets of GrabFile included, and
\* GrabbedFiles() lists files that are done, none twice.
THEOREM CountersBalance ==
    ASSUME LotAtATime
    PROVE  Spec => []CountersAgree
<1>1. OrderlyInv => CountersAgree
  <2> SUFFICES ASSUME SharedOK, FilesListed, Balance PROVE CountersAgree
    BY DEF OrderlyInv, UntouchedInv, TypeInv, TypeOK, LotInv, Books
  <2>1. \A i \in DOMAIN doneFiles : fState[doneFiles[i]] = "Done"
    BY DEF FilesListed, Listed
  <2> QED  BY <2>1 DEF CountersAgree, FilesListed, Balance, ToDo
<1> QED  BY <1>1, InitOrderly, NextOrderly, PTL DEF Spec, Safety

-----------------------------------------------------------------------------
\* Each segment follows Failover. Where one is on its way that is still to be done tells
\* its stage; what is lost with a session is nowhere.

Answering(s) == cur["responder"] = s /\ pc["responder"] \in {"check", "write"}

Choosing(s) == cur["dispatcher"] = s /\ pc["dispatcher"] = "grab"

AtWork(s) ==
    \/ IsAsked(s) \/ Answering(s)
    \/ cur["dispatcher"] = s /\ pc["dispatcher"] \in {"select", "grab", "check", "write"}
    \/ cur["responder"] = s /\ pc["responder"] = "requeue"

WorkOK ==
    /\ \A s \in Segments : AtWork(s) => segState[s] = "Working"
    /\ \A s \in Segments : s \in lost => segState[s] = "Working" /\ ~InWork(s)

\* The stage that each place stands for.
StagesOK ==
    /\ \A s \in Segments : segState[s] = "Done" =>
          Stage(s) = IF s \notin segErr THEN "done"
                     ELSE IF NoMoreServers(hist[s]) THEN "failed" ELSE "broken"
    /\ \A s \in Segments : s \in lost => Stage(s) = "lost"
    /\ \A s \in Segments : Answering(s) => Stage(s) = "done"
    /\ \A s \in Segments : Choosing(s) => Stage(s) = "asked" /\ AskedFor(s) = req
    /\ \A r \in Requests : asked[r] > 0 =>
          Stage(r[1]) = "asked" /\ AskedFor(r[1]) = <<r[2], r[3]>>
    /\ \A s \in Segments :
          ~IsAsked(s) /\ ~Choosing(s) /\ ~Answering(s) /\ segState[s] # "Done" /\ s \notin lost
              => Stage(s) = "queued"
    /\ \A s \in Segments : Stage(s) # "asked" => AskedFor(s) = <<>>


\* What a goroutine's or a server's step changes of a segment that is at work.
LEMMA OthersWork ==
    ASSUME OrderlyInv, WorkOK, Dispatcher \/ Responder \/ Network
    PROVE  WorkOK'
<1> /\ SharedOK /\ ThreadOK /\ CurOK /\ Apart /\ DoneInTime /\ FilesCounted
  BY DEF OrderlyInv, UntouchedInv, TypeInv, TypeOK, LotInv, Books
<1>1. Moves /\ OwnSegments /\ NoSegment \notin Segments
  BY OthersMove, GrabberAssumption
<1>2. ASSUME NEW x \in Segments, x \in lost PROVE segState'[x] = "Working" /\ ~InWork(x)'
  <2>1. ~InWork(x) /\ segState[x] = "Working"
    BY <1>2 DEF WorkOK
  <2>2. ~IsCur(x)
    BY <2>1, NoPlace
  <2> QED  BY <1>1, <2>1, <2>2, MovesNone DEF OwnSegments
<1> DEFINE Kept(x) == AtWork(x)' => segState'[x] = "Working"
<1> USE DEF Threads, At, segVars, fileVars, grabVars, netVars, thrVars
<1>3. ASSUME NEW s \in Segments, s = cur["dispatcher"], Dispatch(s), NEW x \in Segments
      PROVE  Kept(x) /\ lost' = lost
  <2>1. lost' = lost
    BY <1>3 DEF Dispatch, SegmentWorkingRead, FileWorkingRead, FileWorkingSet,
       GrabberWorkingRead, GrabberWorkingSet, SegmentWorkingSet, CannotCreate, GiveUp, Skip,
       Choose, Grab, Reads, SetFile, SetSegment, SetHistory, SetGrabber
  <2>2. /\ pc'["responder"] = pc["responder"] /\ cur'["responder"] = cur["responder"]
        /\ cur'["dispatcher"] \in {s, NoSegment}
    BY <1>3 DEF Dispatch, SegmentWorkingRead, FileWorkingRead, FileWorkingSet,
       GrabberWorkingRead, GrabberWorkingSet, SegmentWorkingSet, CannotCreate, GiveUp, Skip,
       Choose, Grab, Goto, Finish, ThreadOK
  <2>3. CASE Grab(s)
    <3>1. <<s, req[1], req[2]>> \in Requests /\ UNCHANGED segState /\ cur'["dispatcher"] = NoSegment
      BY <1>3, <2>3 DEF Grab, CurOK, Requests, Finish, ThreadOK
    <3>2. IsAsked(x)' => IsAsked(x) \/ x = s
      BY <2>3, <3>1, AskedMore DEF Grab
    <3>3. AtWork(s)
      BY <1>3, <2>3 DEF Grab, AtWork
    <3> QED  BY <1>1, <2>1, <2>2, <3>1, <3>2, <3>3 DEF AtWork, Answering, WorkOK
  <2>4. CASE ~Grab(s)
    <3>1. UNCHANGED asked
      BY <1>3, <2>4 DEF Dispatch, SegmentWorkingRead, FileWorkingRead, FileWorkingSet,
         GrabberWorkingRead, GrabberWorkingSet, SegmentWorkingSet, CannotCreate, GiveUp, Skip,
         Choose, Reads, SetFile, SetSegment, SetHistory, SetGrabber
    <3>2. CASE x # s
      <4>1. segState'[x] = segState[x]
        BY <1>3, <3>2 DEF Dispatch, SegmentWorkingRead, FileWorkingRead, FileWorkingSet,
           GrabberWorkingRead, GrabberWorkingSet, SegmentWorkingSet, CannotCreate, GiveUp,
           Skip, Choose, Grab, Reads, SetFile, SetSegment, SetHistory, SetGrabber, SharedOK
      <4>2. cur'["dispatcher"] # x /\ (IsAsked(x)' <=> IsAsked(x))
        BY <1>1, <2>2, <3>1, <3>2, PlaceSteps
      <4>3. AtWork(x)' => AtWork(x)
        BY <2>2, <4>2 DEF AtWork, Answering
      <4> QED  BY <2>1, <4>1, <4>3 DEF WorkOK
    <3>3. CASE x = s
      <4>1. ~IsAsked(s)' /\ cur'["responder"] # s
        BY <1>1, <1>3, <2>2, <3>1 DEF Apart, IsCur, IsAsked
      <4>2. CASE SegmentWorkingRead(s)
        BY <1>3, <2>1, <3>3, <4>1, <4>2 DEF SegmentWorkingRead, Reads, Goto, Finish, ThreadOK,
           AtWork, Answering
      <4>3. CASE FileWorkingRead(FileOf[s]) \/ FileWorkingSet(FileOf[s]) \/ GrabberWorkingRead
                   \/ GrabberWorkingSet
        BY <1>3, <2>1, <3>3, <4>1, <4>3 DEF FileWorkingRead, FileWorkingSet,
           GrabberWorkingRead, GrabberWorkingSet, Goto, Finish, ThreadOK, AtWork, Answering
      <4>4. CASE SegmentWorkingSet(s)
        BY <1>3, <2>1, <3>3, <4>1, <4>4 DEF SegmentWorkingSet, SetSegment, SharedOK, Goto,
           Finish, ThreadOK, AtWork, Answering
      <4>5. CASE CannotCreate(s) \/ GiveUp(s) \/ Skip(s) \/ Choose(s)
        BY <1>3, <2>1, <3>3, <4>5 DEF CannotCreate, GiveUp, Skip, Choose, Reads, SetHistory,
           AtWork, WorkOK
      <4> QED  BY <1>3, <2>4, <4>2, <4>3, <4>4, <4>5 DEF Dispatch
    <3> QED  BY <2>1, <3>2, <3>3
  <2> QED  BY <2>3, <2>4
<1>4. ASSUME NEW t \in Threads, NEW s \in Segments, s = cur[t], Done(t, s), NEW x \in Segments
      PROVE  Kept(x) /\ lost' = lost
  <2>1. UNCHANGED <<asked, lost>> /\ (segState'[x] # segState[x] => x = s /\ DoneWrite(t, s))
    BY <1>4 DEF Done, DoneCheck, DoneWrite, SegmentDone, FileDone, ReportFile, Reads, SetFile,
       SetCounters, SharedOK
  <2>2. \A u \in Threads : u # t => pc'[u] = pc[u] /\ cur'[u] = cur[u]
    BY <1>4 DEF Done, DoneCheck, DoneWrite, SegmentDone, FileDone, ReportFile, AfterDone, Goto,
       Finish, ThreadOK
  <2>3. /\ cur'[t] \in {s, NoSegment} /\ (pc'[t] = "write" => pc[t] = "check")
        /\ pc'[t] \notin {"select", "grab", "check", "requeue"}
        /\ DoneWrite(t, s) => pc'[t] = "count" /\ cur'[t] = s
    BY <1>4 DEF Done, DoneCheck, DoneWrite, SegmentDone, FileDone, ReportFile, AfterDone, Goto,
       Finish, ThreadOK
  <2>4. DoneWrite(t, s) => ~IsAsked(s) /\ \A u \in Threads : u # t => cur[u] # s
    BY <1>1, <1>4 DEF Apart, IsCur
  <2>5. IsAsked(x)' <=> IsAsked(x)
    BY <2>1, PlaceSteps
  <2>6. AtWork(x)' => AtWork(x)
    BY <1>1, <1>4, <2>2, <2>3, <2>5 DEF AtWork, Answering
  <2>7. DoneWrite(t, s) => ~AtWork(s)'
    <3>1. DoneWrite(t, s) => ~IsAsked(s)'
      BY <2>1, <2>4, PlaceSteps
    <3> QED  BY <1>1, <1>4, <2>2, <2>3, <2>4, <3>1 DEF AtWork, Answering
  <2> QED  BY <2>1, <2>6, <2>7 DEF WorkOK
<1>5. ASSUME NEW r \in Requests, Grabbed(r) \/ \E err \in Errors : Failed(r, err),
             NEW x \in Segments
      PROVE  Kept(x) /\ lost' = lost
  <2>1. /\ UNCHANGED <<segState, lost>> /\ IsAsked(r[1]) /\ r[1] \in Segments
        /\ IsAsked(x)' => IsAsked(x)
        /\ cur'["responder"] = r[1] /\ cur'["dispatcher"] = cur["dispatcher"]
        /\ pc'["dispatcher"] = pc["dispatcher"]
    BY <1>5, AskedLess DEF Grabbed, Failed, SetHistory, Begin, ThreadOK, Requests
  <2> QED  BY <2>1 DEF AtWork, Answering, WorkOK
<1>6. ASSUME NEW x \in Segments,
             \/ Dequeue \/ ExitDispatcher \/ ExitResponder \/ SegFailed
             \/ \E s \in Segments : s = cur["responder"] /\ Requeue(s)
             \/ (\E srv \in Servers : Reconnect(srv)) /\ UNCHANGED thrVars
      PROVE  Kept(x) /\ lost' = lost
  <2>1. UNCHANGED <<segState, asked, lost>>
    BY <1>6 DEF Dequeue, ExitDispatcher, ExitResponder, SegFailed, Requeue, SetQueue, Reads,
       Reconnect
  <2>2. \A t \in Threads : \/ pc'[t] = pc[t] /\ cur'[t] = cur[t]
                           \/ pc'[t] \in {"working", "idle", "exited"}
    BY <1>6 DEF Dequeue, ExitDispatcher, ExitResponder, SegFailed, Requeue, Reconnect, Begin,
       Goto, Finish, ThreadOK
  <2> QED  BY <2>1, <2>2 DEF AtWork, Answering, IsAsked, WorkOK
<1>7. ASSUME NEW r \in Requests, ServerDies(r), UNCHANGED thrVars PROVE WorkOK'
  <2>1. /\ UNCHANGED <<segState, queue, pc, cur>> /\ lost' = lost \cup {r[1]}
        /\ IsAsked(r[1]) /\ r[1] \in Segments
        /\ \A x \in Segments : IsAsked(x)' => IsAsked(x)
    BY <1>7, AskedLess DEF ServerDies, Requests
  <2>2. \A x \in Segments : AtWork(x)' => AtWork(x)
    BY <2>1 DEF AtWork, Answering
  <2>3. segState'[r[1]] = "Working"
    BY <2>1 DEF WorkOK, AtWork
  <2>4. ~InQueue(r[1])' /\ ~IsCur(r[1])'
    BY <2>1 DEF Apart, InQueue, IsCur
  <2>5. ~IsAsked(r[1])'
    <3>1. asked[r] = 1
      BY <1>7 DEF ServerDies, Apart, SharedOK
    <3>2. \A q \in Requests : asked'[q] = IF q = r THEN 0 ELSE asked[q]
      BY <1>7, <3>1 DEF ServerDies, SharedOK
    <3> QED  BY <1>7, <3>2 DEF ServerDies, IsAsked, Apart
  <2>6. ~InWork(r[1])'
    BY <2>1, <2>4, <2>5 DEF InWork, InQueue, IsCur, IsAsked
  <2> QED  BY <1>2, <2>1, <2>2, <2>3, <2>6 DEF WorkOK
<1>8. ASSUME \A x \in Segments : Kept(x) /\ lost' = lost PROVE WorkOK'
  BY <1>2, <1>8 DEF WorkOK
<1> HIDE DEF Kept
<1> QED  BY <1>3, <1>4, <1>5, <1>6, <1>7, <1>8 DEF Dispatcher, Responder, Network


\* The caller enqueues and resumes what is fresh, and leaves what is at work alone.
CallerApart ==
    /\ UNCHANGED <<asked, lost, hist, segErr>>
    /\ \A t \in Threads : \/ pc'[t] = pc[t] /\ cur'[t] = cur[t]
                          \/ pc[t] = "signal" /\ pc'[t] \in {"segFailed", "idle"}
                             /\ cur'[t] \in {cur[t], NoSegment}
    /\ pc["dispatcher"] = "grab" => req' = req
    /\ \A x \in Segments : \/ segState'[x] = segState[x] /\ (InQueue(x)' => InQueue(x))
                           \/ FreshSegment(x) /\ segState'[x] \notin {"Working", "Done"}

LEMMA CallerLeavesApart ==
    ASSUME OrderlyInv, Caller
    PROVE  CallerApart
<1> /\ TypeInv /\ SharedOK /\ ThreadOK /\ CallerOK /\ InCall /\ Lots
  BY DEF OrderlyInv, UntouchedInv, TypeInv, TypeOK, LotInv
<1> USE DEF Reads, segVars, netVars
<1>1. CASE CallerAlone /\ UNCHANGED <<thrVars, dieVars>>
  <2>1. UNCHANGED <<asked, lost, hist, segErr, pc, cur, req>>
    BY <1>1 DEF CallerAlone, CallGrabAll, CallGrabFile, CallPause, CallResume, LockGrabber,
       GrabNext, PauseNext, PausingFile, PausedFile, ResumeNext, ResumeFile, ResumingFile,
       SegmentResumeRead, ResumedFile, RequireFile, ResumeGrabs, ResetGrabbed, GrabFileState,
       EnqueueSegment, Enqueued, ShutDown, SetGrabber, SetFile, SetQueue, SetCounters,
       PauseSegment, SegmentResumeSet, SetSegment, thrVars
  <2>2. CASE EnqueueSegment
    <3>1. /\ mpc = "enqueue" /\ msegs # <<>> /\ InLot /\ Head(msegs) \in Segments
          /\ Head(msegs) \in Listed(msegs)
          /\ queue' = Append(queue, Head(msegs)) /\ UNCHANGED segState
      BY <2>2, Doing, AtHand, ListedFacts DEF EnqueueSegment, InPause, CallerOK, SetQueue
    <3>2. FreshSegment(Head(msegs))
      BY <3>1 DEF InLot
    <3>3. \A x \in Segments : InQueue(x)' <=> InQueue(x) \/ x = Head(msegs)
      BY <3>1, QueueMore
    <3> QED  BY <2>1, <3>1, <3>2, <3>3 DEF CallerApart, FreshSegment
  <2>3. CASE SegmentResumeSet
    <3>1. /\ mpc = "resumeSeg" /\ msegs # <<>> /\ InLot /\ Head(msegs) \in Segments
          /\ Head(msegs) \in Listed(msegs) /\ mfiles # <<>> /\ thisFile \in Files
      BY <2>3, Doing, AtHand, ListedFacts DEF SegmentResumeSet, InPause, CallerOK, InCall, FilePC
    <3>2. Fresh(thisFile) /\ FileOf[Head(msegs)] = thisFile
      BY <3>1 DEF InLot
    <3>3. FreshSegment(Head(msegs))
      BY <3>1, <3>2 DEF Fresh, SegsOf
    <3>4. /\ UNCHANGED queue
          /\ \A x \in Segments : segState'[x] = IF x = Head(msegs) THEN "Pending" ELSE segState[x]
      BY <2>3 DEF SegmentResumeSet, SetSegment, SharedOK
    <3> QED  BY <2>1, <3>3, <3>4 DEF CallerApart, InQueue
  <2>4. CASE ~EnqueueSegment /\ ~SegmentResumeSet
    <3>1. ~PauseSegment
      BY LotNotPaused
    <3>2. UNCHANGED <<segState, queue>>
      BY <1>1, <2>4, <3>1 DEF CallerAlone, CallGrabAll, CallGrabFile, CallPause, CallResume,
         LockGrabber, GrabNext, PauseNext, PausingFile, PausedFile, ResumeNext, ResumeFile,
         ResumingFile, SegmentResumeRead, ResumedFile, RequireFile, ResumeGrabs, ResetGrabbed,
         GrabFileState, Enqueued, ShutDown, SetGrabber, SetFile, SetCounters
    <3> QED  BY <2>1, <3>2 DEF CallerApart, InQueue
  <2> QED  BY <2>2, <2>3, <2>4
<1>2. ASSUME NEW t \in Threads, PostProcessable(t) PROVE CallerApart
  BY <1>2 DEF PostProcessable, AfterDone, Goto, Finish, At, CallerApart, InQueue, ThreadOK,
     Threads
<1>3. CASE (CallShutdown \/ ShutdownStrategy) /\ UNCHANGED thrVars
  BY <1>3 DEF CallShutdown, ShutdownStrategy, CallerApart, InQueue, thrVars
<1> QED  BY <1>1, <1>2, <1>3 DEF Caller

LEMMA CallerWork ==
    ASSUME OrderlyInv, WorkOK, CallerApart
    PROVE  WorkOK'
<1>1. NoSegment \notin Segments
  BY GrabberAssumption
<1>2. ASSUME NEW x \in Segments
      PROVE  /\ AtWork(x)' => AtWork(x)
             /\ (IsAsked(x)' <=> IsAsked(x)) /\ (IsCur(x)' => IsCur(x))
  BY <1>1 DEF CallerApart, AtWork, Answering, IsAsked, IsCur, Threads
<1>3. ASSUME NEW x \in Segments PROVE AtWork(x) => IsCur(x) \/ IsAsked(x)
  BY DEF AtWork, Answering, IsCur, Threads
<1>4. ASSUME NEW x \in Segments, segState[x] = "Working"
      PROVE  segState'[x] = "Working" /\ (InQueue(x)' => InQueue(x))
  BY <1>4 DEF CallerApart, FreshSegment
<1>5. ASSUME NEW x \in Segments, x \in lost PROVE segState'[x] = "Working" /\ ~InWork(x)'
  <2>1. segState[x] = "Working" /\ ~InQueue(x) /\ ~IsCur(x) /\ ~IsAsked(x)
    BY <1>5, NoPlace DEF WorkOK
  <2>2. segState'[x] = "Working" /\ ~InQueue(x)' /\ ~IsCur(x)' /\ ~IsAsked(x)'
    BY <1>2, <1>4, <2>1
  <2> QED  BY <2>2 DEF InWork, InQueue, IsCur, IsAsked
<1> QED  BY <1>2, <1>4, <1>5 DEF WorkOK, CallerApart

LEMMA InitWork == Init => WorkOK
BY GrabberAssumption DEF Init, WorkOK, AtWork, Answering, IsAsked, Threads

LEMMA NextWork ==
    ASSUME OrderlyInv, WorkOK, [Next]_vars
    PROVE  WorkOK'
<1>1. CASE UNCHANGED vars
  <2>1. UNCHANGED <<segState, queue, asked, lost, pc, cur>>
    BY <1>1 DEF vars, segVars, netVars, thrVars
  <2> QED  BY <2>1 DEF WorkOK, AtWork, Answering, IsAsked, InWork
<1> QED  BY <1>1, OthersWork, CallerWork, CallerLeavesApart DEF Next

LEMMA Staged == OrderlyInv /\ WorkOK => StagesOK
<1> SUFFICES ASSUME OrderlyInv, WorkOK PROVE StagesOK
  OBVIOUS
<1> SharedOK /\ ThreadOK /\ CurOK /\ Apart /\ DoneInTime
  BY DEF OrderlyInv, UntouchedInv, TypeInv, TypeOK, LotInv
<1>1. ASSUME NEW s \in Segments
      PROVE  /\ AskedOf(s) # {} <=> IsAsked(s) \/ Choosing(s)
             /\ Answering(s) \/ Choosing(s) \/ IsAsked(s) => segState[s] = "Working"
             /\ s \in lost => ~Answering(s) /\ ~Choosing(s) /\ ~IsAsked(s)
             /\ ~(Answering(s) /\ (Choosing(s) \/ IsAsked(s)))
             /\ ~(Choosing(s) /\ IsAsked(s))
  <2>1. AskedOf(s) # {} <=> IsAsked(s) \/ Choosing(s)
    <3>1. ASSUME NEW r \in Requests, r[1] = s
          PROVE  r = <<s, r[2], r[3]>> /\ <<r[2], r[3]>> \in Servers \X Groups
      BY <3>1 DEF Requests
    <3>2. \A a \in Servers \X Groups : <<s, a[1], a[2]>> \in Requests
      BY DEF Requests
    <3>3. IsAsked(s) <=> \E a \in Servers \X Groups : asked[<<s, a[1], a[2]>>] > 0
      <4>1. ASSUME NEW r \in Requests, r[1] = s, asked[r] > 0
            PROVE  \E a \in Servers \X Groups : asked[<<s, a[1], a[2]>>] > 0
        <5>1. <<r[2], r[3]>> \in Servers \X Groups /\ asked[<<s, r[2], r[3]>>] > 0
          BY <3>1, <4>1
        <5> QED  BY <5>1
      <4> QED  BY <3>2, <4>1 DEF IsAsked
    <3> QED  BY <3>3 DEF AskedOf, Chosen, Choosing
  <2>2. Answering(s) \/ Choosing(s) \/ IsAsked(s) => segState[s] = "Working"
    BY DEF WorkOK, AtWork, Choosing
  <2>3. Answering(s) \/ Choosing(s) => IsCur(s)
    BY DEF Answering, Choosing, IsCur, Threads
  <2>4. s \in lost => ~IsCur(s) /\ ~IsAsked(s)
    BY NoPlace DEF WorkOK
  <2>5. ~(IsCur(s) /\ IsAsked(s)) /\ ~(Answering(s) /\ Choosing(s))
    BY GrabberAssumption DEF Apart, Answering, Choosing
  <2> QED  BY <2>1, <2>2, <2>3, <2>4, <2>5
<1>2. ASSUME NEW s \in Segments
      PROVE  Stage(s) = IF segState[s] = "Done"
                          THEN IF s \notin segErr THEN "done"
                               ELSE IF NoMoreServers(hist[s]) THEN "failed" ELSE "broken"
                        ELSE IF Answering(s) THEN "done"
                        ELSE IF AskedOf(s) # {} THEN "asked"
                        ELSE IF s \in lost THEN "lost" ELSE "queued"
  <2>1. ~(Answering(s) /\ AskedOf(s) # {}) /\ ~(s \in lost /\ AskedOf(s) # {})
        /\ ~(s \in lost /\ Answering(s)) /\ (segState[s] = "Done" => s \notin lost)
    BY <1>1 DEF WorkOK
  <2>2. CASE segState[s] = "Done" /\ s \notin segErr
    BY <2>1, <2>2 DEF Stage
  <2>3. CASE segState[s] = "Done" /\ s \in segErr
    BY <2>1, <2>3 DEF Stage
  <2>4. CASE segState[s] # "Done" /\ Answering(s)
    BY <2>1, <2>4 DEF Stage, Answering
  <2>5. CASE segState[s] # "Done" /\ ~Answering(s) /\ AskedOf(s) # {}
    BY <2>1, <2>5 DEF Stage, Answering
  <2>6. CASE segState[s] # "Done" /\ ~Answering(s) /\ AskedOf(s) = {} /\ s \in lost
    BY <2>6 DEF Stage, Answering
  <2>7. CASE segState[s] # "Done" /\ ~Answering(s) /\ AskedOf(s) = {} /\ s \notin lost
    BY <2>7 DEF Stage, Answering
  <2> QED  BY <2>2, <2>3, <2>4, <2>5, <2>6, <2>7
<1>3. ASSUME NEW s \in Segments, Choosing(s) PROVE Stage(s) = "asked" /\ AskedFor(s) = req
  <2>1. Stage(s) = "asked"
    BY <1>1, <1>2, <1>3
  <2>2. AskedOf(s) = {req}
    <3>1. \A a \in Servers \X Groups : ~(asked[<<s, a[1], a[2]>>] > 0)
      BY <1>1, <1>3 DEF IsAsked, Requests
    <3> QED  BY <1>3, <3>1 DEF AskedOf, Chosen, Choosing
  <2> QED  BY <2>1, <2>2 DEF AskedFor
<1>4. ASSUME NEW r \in Requests, asked[r] > 0
      PROVE  Stage(r[1]) = "asked" /\ AskedFor(r[1]) = <<r[2], r[3]>>
  <2>1. r[1] \in Segments /\ IsAsked(r[1])
    BY <1>4 DEF Requests, IsAsked
  <2>2. Stage(r[1]) = "asked"
    BY <1>1, <1>2, <2>1
  <2>3. AskedOf(r[1]) = {<<r[2], r[3]>>}
    <3>1. Chosen(r[1]) = {}
      BY <1>1, <2>1 DEF Chosen, Choosing
    <3>2. ASSUME NEW a \in Servers \X Groups
          PROVE  asked[<<r[1], a[1], a[2]>>] > 0 <=> a = <<r[2], r[3]>>
      <4>1. <<r[1], a[1], a[2]>> \in Requests /\ r = <<r[1], r[2], r[3]>>
        BY <2>1 DEF Requests
      <4> QED  BY <1>4, <4>1 DEF Apart
    <3>3. <<r[2], r[3]>> \in Servers \X Groups
      BY DEF Requests
    <3> QED  BY <3>1, <3>2, <3>3 DEF AskedOf
  <2> QED  BY <2>2, <2>3 DEF AskedFor
<1>5. \A s \in Segments : Stage(s) # "asked" => AskedFor(s) = <<>>
  BY DEF AskedFor
<1>6. \A s \in Segments : segState[s] = "Done" =>
          Stage(s) = IF s \notin segErr THEN "done"
                     ELSE IF NoMoreServers(hist[s]) THEN "failed" ELSE "broken"
  BY <1>2
<1>7. ASSUME NEW s \in Segments, s \in lost PROVE Stage(s) = "lost"
  BY <1>1, <1>2, <1>7 DEF WorkOK
<1>8. ASSUME NEW s \in Segments, Answering(s) PROVE Stage(s) = "done"
  BY <1>1, <1>2, <1>8
<1>9. ASSUME NEW s \in Segments, ~IsAsked(s), ~Choosing(s), ~Answering(s),
             segState[s] # "Done", s \notin lost
      PROVE  Stage(s) = "queued"
  BY <1>1, <1>2, <1>9
<1> QED  BY <1>3, <1>4, <1>5, <1>6, <1>7, <1>8, <1>9 DEF StagesOK


-----------------------------------------------------------------------------
\* The steps that leave a segment in its stage.
Undisturbed(x) ==
    /\ segState'[x] = "Done" <=> segState[x] = "Done"
    /\ x \in segErr' <=> x \in segErr
    /\ x \in lost' <=> x \in lost
    /\ hist'[x] = hist[x]
    /\ \A r \in Requests : r[1] = x => asked'[r] = asked[r]
    /\ Answering(x)' <=> Answering(x)
    /\ Choosing(x)' <=> Choosing(x)
    /\ Choosing(x) => req' = req

LEMMA StageKept ==
    ASSUME NEW x \in Segments, Undisturbed(x)
    PROVE  Stage(x)' = Stage(x) /\ AskedFor(x)' = AskedFor(x)
<1>1. AskedOf(x)' = AskedOf(x)
  <2>1. Chosen(x)' = Chosen(x)
    BY DEF Undisturbed, Chosen, Choosing
  <2>2. \A a \in Servers \X Groups : asked'[<<x, a[1], a[2]>>] = asked[<<x, a[1], a[2]>>]
    BY DEF Undisturbed, Requests
  <2> QED  BY <2>1, <2>2 DEF AskedOf
<1>2. Stage(x)' = Stage(x)
  <2>1. /\ segState'[x] = "Done" <=> segState[x] = "Done"
        /\ x \in segErr' <=> x \in segErr
        /\ x \in lost' <=> x \in lost
        /\ hist'[x] = hist[x]
        /\ Answering(x)' <=> Answering(x)
    BY DEF Undisturbed
  <2> QED  BY <1>1, <2>1 DEF Stage, Answering
<1> QED  BY <1>1, <1>2 DEF AskedFor

\* Failover's step when one segment moves on, or none.
AllStages == [s \in Segments |-> Stage(s)]
AllAsked == [s \in Segments |-> AskedFor(s)]

LEMMA OneMoves ==
    ASSUME NEW s \in Segments, \A x \in Segments \ {s} : Undisturbed(x)
    PROVE  /\ AllStages' = [AllStages EXCEPT ![s] = Stage(s)']
           /\ AllAsked' = [AllAsked EXCEPT ![s] = AskedFor(s)']
BY StageKept DEF AllStages, AllAsked

LEMMA NoneMoves ==
    ASSUME \A x \in Segments : Undisturbed(x)
    PROVE  AllStages' = AllStages /\ AllAsked' = AllAsked
BY StageKept DEF AllStages, AllAsked

LEMMA SameOperators ==
    /\ \A h : FO!NoMoreServers(h) <=> NoMoreServers(h)
    /\ \A h : FO!SelectServer(h) = SelectServer(h)
    /\ \A h, g : FO!NoMoreGroups(h, g) <=> NoMoreGroups(h, g)
    /\ \A h, g : FO!SelectGroup(h, g) = SelectGroup(h, g)
    /\ \A h, srv : FO!FailServer(h, srv) = FailServer(h, srv)
    /\ \A h, err, srv, g : FO!HandleError(h, err, srv, g) = HandleError(h, err, srv, g)
    /\ \A s, srv : FO!Useless(s, srv) <=> Useless(s, srv)
    /\ FO!Errors = Errors /\ FO!NewHistory = NewHistory
<1>1. \A seq : FO!Listed(seq) = Listed(seq)
  BY DEF FO!Listed, Listed
<1>2. \A seq, failed : FO!First(seq, failed) = First(seq, failed)
  BY DEF FO!First, First
<1>3. \A h, srv : FO!FailServer(h, srv) = FailServer(h, srv)
  BY DEF FO!FailServer, FailServer
<1>4. /\ \A h : FO!NoMoreServers(h) <=> NoMoreServers(h)
      /\ \A h, g : FO!NoMoreGroups(h, g) <=> NoMoreGroups(h, g)
  BY <1>1 DEF FO!NoMoreServers, NoMoreServers, FO!NoMoreGroups, NoMoreGroups
<1>5. /\ \A h : FO!SelectServer(h) = SelectServer(h)
      /\ \A h, g : FO!SelectGroup(h, g) = SelectGroup(h, g)
  BY <1>2 DEF FO!SelectServer, SelectServer, FO!SelectGroup, SelectGroup
<1>6. \A h, err, srv, g : FO!HandleError(h, err, srv, g) = HandleError(h, err, srv, g)
  BY <1>3 DEF FO!HandleError, HandleError, FO!FailGroup, FailGroup, FO!MayRetry, MayRetry,
     FO!RetryServer, RetryServer
<1>7. \A s, srv : FO!Useless(s, srv) <=> Useless(s, srv)
  BY <1>4 DEF FO!Useless, Useless
<1> QED  BY <1>3, <1>4, <1>5, <1>6, <1>7 DEF FO!Errors, Errors, FO!NewHistory, NewHistory


\* Step by step, what Grabber does is what Failover does to one segment, or nothing.
Follows == [FO!Next]_(FO!vars)

LEMMA Stutters ==
    ASSUME \A x \in Segments : Undisturbed(x), UNCHANGED <<hist, alive>>
    PROVE  Follows
BY NoneMoves DEF Follows, FO!vars, AllStages, AllAsked

LEMMA DispatchFollows ==
    ASSUME OrderlyInv, OrderlyInv', WorkOK, StagesOK, StagesOK',
           NEW s \in Segments, s = cur["dispatcher"], Dispatch(s)
    PROVE  Follows
<1> /\ SharedOK /\ ThreadOK /\ CurOK /\ Apart /\ DoneInTime /\ FilesCounted
  BY DEF OrderlyInv, UntouchedInv, TypeInv, TypeOK, LotInv, Books
<1> USE DEF Threads, At, segVars, fileVars, grabVars, netVars
<1>1. /\ SegsSame /\ UNCHANGED <<segErr, lost, alive>> /\ s # NoSegment /\ s \notin lost
      /\ pc'["responder"] = pc["responder"] /\ cur'["responder"] = cur["responder"]
      /\ ~Answering(s) /\ ~Answering(s)' /\ ~IsAsked(s) /\ segState[s] # "Done"
  <2>1. SegsSame /\ UNCHANGED segErr
    BY DispatchMoves DEF Quiet
  <2>2. UNCHANGED <<lost, alive>>
    BY DEF Dispatch, SegmentWorkingRead, FileWorkingRead, FileWorkingSet,
       GrabberWorkingRead, GrabberWorkingSet, SegmentWorkingSet, CannotCreate, GiveUp, Skip,
       Choose, Grab, Reads, SetFile, SetSegment, SetHistory, SetGrabber
  <2>3. pc'["responder"] = pc["responder"] /\ cur'["responder"] = cur["responder"]
    BY DEF Dispatch, SegmentWorkingRead, FileWorkingRead, FileWorkingSet,
       GrabberWorkingRead, GrabberWorkingSet, SegmentWorkingSet, CannotCreate, GiveUp, Skip,
       Choose, Grab, Goto, Finish, ThreadOK
  <2>4. s # NoSegment /\ IsCur(s) /\ InWork(s)
    BY GrabberAssumption DEF IsCur, InWork
  <2>5. s \notin lost /\ cur["responder"] # s /\ ~IsAsked(s)
    BY <2>4 DEF WorkOK, Apart
  <2>6. pc["dispatcher"] \notin Late
    BY DEF Dispatch, SegmentWorkingRead, FileWorkingRead, FileWorkingSet, GrabberWorkingRead,
           GrabberWorkingSet, SegmentWorkingSet, CannotCreate, GiveUp, Skip, Choose, Grab, Late
  <2>7. segState[s] # "Done"
    BY <2>6 DEF DoneInTime
  <2> QED  BY <2>1, <2>2, <2>3, <2>4, <2>5, <2>7 DEF Answering
<1>2. ASSUME NEW x \in Segments, x # s PROVE Undisturbed(x)
  <2>1. /\ hist'[x] = hist[x]
        /\ \A r \in Requests : r[1] = x => asked'[r] = asked[r]
    BY <1>2 DEF Dispatch, SegmentWorkingRead, FileWorkingRead, FileWorkingSet,
       GrabberWorkingRead, GrabberWorkingSet, SegmentWorkingSet, CannotCreate, GiveUp, Skip,
       Choose, Grab, Reads, SetFile, SetSegment, SetHistory, SetGrabber, SharedOK
  <2>2. cur["dispatcher"] # x /\ cur'["dispatcher"] # x
    BY <1>2, GrabberAssumption DEF Dispatch, SegmentWorkingRead, FileWorkingRead,
       FileWorkingSet, GrabberWorkingRead, GrabberWorkingSet, SegmentWorkingSet, CannotCreate,
       GiveUp, Skip, Choose, Grab, Goto, Finish, ThreadOK
  <2> QED  BY <1>1, <2>1, <2>2 DEF Undisturbed, SegsSame, Answering, Choosing
<1>3. CASE Skip(s)
  <2>1. /\ hist' = [hist EXCEPT ![s] = FailServer(@, SelectServer(@))]
        /\ ~NoMoreServers(hist[s]) /\ Useless(s, SelectServer(hist[s]))
        /\ pc["dispatcher"] = "select" /\ pc'["dispatcher"] = "working" /\ UNCHANGED asked
    BY <1>3 DEF Skip, SetHistory, Goto, ThreadOK
  <2>2. ~Choosing(s) /\ ~Choosing(s)' /\ ~IsAsked(s)'
    BY <1>1, <2>1 DEF Choosing, IsAsked
  <2>3. /\ Stage(s) = "queued" /\ Stage(s)' = "queued"
        /\ AskedFor(s) = <<>> /\ AskedFor(s)' = <<>>
    BY <1>1, <2>2 DEF StagesOK, SegsSame
  <2>4. AllStages' = AllStages /\ AllAsked' = AllAsked
    BY <1>2, <2>3, OneMoves DEF AllStages, AllAsked
  <2>5. FO!Skip(s)
    BY <1>1, <2>1, <2>3, <2>4, SameOperators DEF FO!Skip, AllStages, AllAsked
  <2> QED  BY <2>5 DEF Follows, FO!Next, FO!Dispatch
<1>4. CASE Choose(s)
  <2>1. /\ ~NoMoreServers(hist[s]) /\ ~Useless(s, SelectServer(hist[s]))
        /\ req' = <<SelectServer(hist[s]), SelectGroup(hist[s], GroupSeq[s])>>
        /\ pc["dispatcher"] = "select" /\ pc'["dispatcher"] = "grab"
        /\ UNCHANGED <<hist, asked, cur>>
    BY <1>4 DEF Choose, Reads, ThreadOK
  <2>2. ~Choosing(s) /\ Choosing(s)'
    BY <2>1 DEF Choosing
  <2>3. Stage(s) = "queued" /\ Stage(s)' = "asked" /\ AskedFor(s)' = req'
    BY <1>1, <2>2 DEF StagesOK
  <2>4. /\ AllStages' = [AllStages EXCEPT ![s] = "asked"]
        /\ AllAsked' = [AllAsked EXCEPT ![s] = req']
    BY <1>2, <2>3, OneMoves
  <2>5. FO!Ask(s)
    BY <1>1, <2>1, <2>3, <2>4, SameOperators DEF FO!Ask, AllStages, AllAsked
  <2> QED  BY <2>5 DEF Follows, FO!Next, FO!Dispatch
<1>5. CASE Grab(s)
  <2>1. /\ Choosing(s) /\ UNCHANGED hist /\ <<s, req[1], req[2]>> \in Requests
        /\ req = <<req[1], req[2]>>
        /\ asked' = [asked EXCEPT ![<<s, req[1], req[2]>>] = @ + 1]
    BY <1>5 DEF Grab, Choosing, CurOK, Requests
  <2>2. asked'[<<s, req[1], req[2]>>] > 0
    BY <2>1 DEF SharedOK
  <2>3. /\ Stage(s) = "asked" /\ AskedFor(s) = req
        /\ Stage(s)' = "asked" /\ AskedFor(s)' = req
    BY <2>1, <2>2 DEF StagesOK
  <2>4. AllStages' = AllStages /\ AllAsked' = AllAsked
    BY <1>2, <2>3, OneMoves DEF AllStages, AllAsked
  <2> QED  BY <1>1, <2>1, <2>4 DEF Follows, FO!vars, AllStages, AllAsked
<1>6. CASE ~Skip(s) /\ ~Choose(s) /\ ~Grab(s)
  <2>1. UNCHANGED <<hist, asked>>
    BY <1>6 DEF Dispatch, SegmentWorkingRead, FileWorkingRead, FileWorkingSet,
       GrabberWorkingRead, GrabberWorkingSet, SegmentWorkingSet, CannotCreate, GiveUp,
       Reads, SetFile, SetSegment, SetGrabber
  <2>2. pc["dispatcher"] # "grab" /\ pc'["dispatcher"] # "grab"
    BY <1>6 DEF Dispatch, SegmentWorkingRead, FileWorkingRead, FileWorkingSet,
       GrabberWorkingRead, GrabberWorkingSet, SegmentWorkingSet, CannotCreate, GiveUp,
       Goto, Finish, ThreadOK
  <2>3. Undisturbed(s)
    BY <1>1, <2>1, <2>2 DEF Undisturbed, SegsSame, Choosing
  <2> QED  BY <1>1, <1>2, <2>1, <2>3, Stutters
<1> QED  BY <1>3, <1>4, <1>5, <1>6

LEMMA DoneFollows ==
    ASSUME OrderlyInv, OrderlyInv', WorkOK, StagesOK, StagesOK',
           NEW t \in Threads, NEW s \in Segments, s = cur[t], Done(t, s)
    PROVE  Follows
<1> /\ SharedOK /\ ThreadOK /\ CurOK /\ Apart /\ DoneInTime /\ Failures
  BY DEF OrderlyInv, UntouchedInv, TypeInv, TypeOK, LotInv, Books
<1> USE DEF Threads, At, segVars, fileVars, grabVars, netVars
<1>1. UNCHANGED <<hist, asked, lost, alive>> /\ s # NoSegment
  BY GrabberAssumption DEF Done, DoneCheck, DoneWrite, SegmentDone, FileDone, ReportFile,
     Reads, SetFile, SetCounters
<1>2. /\ \A u \in Threads : u # t => pc'[u] = pc[u] /\ cur'[u] = cur[u]
      /\ cur'[t] \in {s, NoSegment}
  BY DEF Done, DoneCheck, DoneWrite, SegmentDone, FileDone, ReportFile, AfterDone, Goto,
     Finish, ThreadOK
<1>3. \A x \in Segments : Choosing(x)' <=> Choosing(x)
  BY <1>2 DEF Done, DoneCheck, DoneWrite, SegmentDone, FileDone, ReportFile, AfterDone, Goto,
     Finish, ThreadOK, Choosing
<1>4. pc["dispatcher"] = "grab" => req' = req
  BY DEF Done, DoneCheck, DoneWrite, SegmentDone, FileDone, ReportFile, AfterDone, Goto, Finish
<1>5. ASSUME NEW x \in Segments, x # s PROVE Undisturbed(x)
  <2>1. segState'[x] = segState[x] /\ (x \in segErr' <=> x \in segErr)
    BY <1>5 DEF Done, DoneCheck, DoneWrite, SegmentDone, FileDone, ReportFile, Reads, SetFile,
       SetCounters, SharedOK
  <2>2. Answering(x)' <=> Answering(x)
    BY <1>1, <1>2, <1>5, GrabberAssumption DEF Answering
  <2> QED  BY <1>1, <1>3, <1>4, <2>1, <2>2 DEF Undisturbed, Choosing
<1>6. CASE DoneWrite(t, s)
  <2>1. /\ pc[t] = "write" /\ segState[s] # "Done" /\ segState'[s] = "Done"
        /\ s \in segErr' <=> t = "dispatcher"
    BY <1>6 DEF DoneWrite, SharedOK, DoneInTime, Late
  <2>2. s \notin lost /\ ~IsAsked(s) /\ \A u \in Threads : u # t => cur[u] # s
    BY <1>1 DEF WorkOK, InWork, Apart, IsCur
  <2>3. CASE t = "dispatcher"
    <3>1. ~Answering(s) /\ ~Choosing(s)
      BY <2>1, <2>2, <2>3 DEF Answering, Choosing
    <3>2. /\ Stage(s) = "queued" /\ AskedFor(s) = <<>> /\ AskedFor(s)' = <<>>
          /\ Stage(s)' = IF NoMoreServers(hist[s]) THEN "failed" ELSE "broken"
      BY <1>1, <2>1, <2>2, <2>3, <3>1 DEF StagesOK
    <3>3. /\ AllStages' = [AllStages EXCEPT ![s] = Stage(s)'] /\ AllAsked' = AllAsked
      BY <1>5, <3>2, OneMoves DEF AllAsked
    <3>4. FO!GiveUp(s) \/ FO!CannotCreate(s)
      BY <1>1, <3>2, <3>3, SameOperators DEF FO!GiveUp, FO!CannotCreate, AllStages, AllAsked
    <3> QED  BY <3>4 DEF Follows, FO!Next, FO!Dispatch
  <2>4. CASE t = "responder"
    <3>1. Answering(s)
      BY <2>1, <2>4 DEF Answering
    <3>2. /\ Stage(s) = "done" /\ Stage(s)' = "done"
          /\ AskedFor(s) = <<>> /\ AskedFor(s)' = <<>>
      BY <2>1, <2>4, <3>1 DEF StagesOK
    <3>3. AllStages' = AllStages /\ AllAsked' = AllAsked
      BY <1>5, <3>2, OneMoves DEF AllStages, AllAsked
    <3> QED  BY <1>1, <3>3 DEF Follows, FO!vars, AllStages, AllAsked
  <2> QED  BY <2>3, <2>4
<1>7. CASE ~DoneWrite(t, s)
  <2>1. UNCHANGED <<segState, segErr>>
    BY <1>7 DEF Done, DoneCheck, SegmentDone, FileDone, ReportFile, Reads, SetFile, SetCounters
  <2>2. Answering(s)' <=> Answering(s)
    <3>1. CASE DoneCheck(t, s)
      <4>1. pc[t] = "check" /\ pc'[t] = "write" /\ UNCHANGED cur
        BY <3>1 DEF DoneCheck, Goto, ThreadOK, DoneInTime, Late
      <4> QED  BY <1>2, <4>1 DEF Answering
    <3>2. CASE ~DoneCheck(t, s)
      <4>1. pc[t] \notin {"check", "write"} /\ pc'[t] \notin {"check", "write"}
        BY <1>7, <3>2 DEF Done, SegmentDone, FileDone, ReportFile, AfterDone, Goto, Finish,
           ThreadOK
      <4> QED  BY <1>2, <4>1 DEF Answering
    <3> QED  BY <3>1, <3>2
  <2>3. Undisturbed(s)
    BY <1>1, <1>3, <1>4, <2>1, <2>2 DEF Undisturbed, Choosing
  <2> QED  BY <1>1, <1>5, <2>3, Stutters
<1> QED  BY <1>6, <1>7


LEMMA ResponseFollows ==
    ASSUME OrderlyInv, OrderlyInv', WorkOK, StagesOK, StagesOK', NEW r \in Requests,
           Grabbed(r) \/ \E err \in Errors : Failed(r, err)
    PROVE  Follows
<1> /\ SharedOK /\ ThreadOK /\ CurOK /\ Apart /\ DoneInTime /\ SharedOK'
  BY DEF OrderlyInv, UntouchedInv, TypeInv, TypeOK, LotInv
<1> USE DEF Threads, At, segVars, fileVars, grabVars, netVars
<1> DEFINE s == r[1]
<1>1. /\ s \in Segments /\ IsAsked(s) /\ asked[r] = 1 /\ r = <<s, r[2], r[3]>>
      /\ cur["responder"] = NoSegment /\ cur["dispatcher"] # s /\ s # NoSegment
      /\ segState[s] # "Done" /\ s \notin lost
  <2>1. s \in Segments /\ IsAsked(s) /\ r = <<s, r[2], r[3]>> /\ asked[r] > 0
    BY DEF Requests, IsAsked, Grabbed, Failed
  <2>2. asked[r] = 1 /\ ~IsCur(s) /\ segState[s] # "Done"
    BY <2>1 DEF Apart, SharedOK, DoneInTime
  <2>3. s \notin lost
    BY <2>1, NoPlace DEF WorkOK
  <2> QED  BY <2>1, <2>2, <2>3, GrabberAssumption DEF CurOK, IsCur, Grabbed, Failed
<1>2. /\ UNCHANGED <<segState, segErr, alive, lost, req>>
      /\ asked' = [asked EXCEPT ![r] = @ - 1]
      /\ pc'["dispatcher"] = pc["dispatcher"] /\ cur'["dispatcher"] = cur["dispatcher"]
      /\ cur'["responder"] = s
  BY DEF Grabbed, Failed, SetHistory, Begin, ThreadOK
<1>3. ASSUME NEW x \in Segments, x # s PROVE Undisturbed(x)
  <2>1. hist'[x] = hist[x]
    BY <1>3 DEF Grabbed, Failed, SetHistory, SharedOK
  <2>2. \A q \in Requests : q[1] = x => asked'[q] = asked[q]
    BY <1>2, <1>3 DEF SharedOK
  <2>3. ~Answering(x) /\ ~Answering(x)'
    BY <1>1, <1>2, <1>3, GrabberAssumption DEF Answering
  <2> QED  BY <1>2, <2>1, <2>2, <2>3 DEF Undisturbed, Choosing
<1>4. /\ Stage(s) = "asked" /\ AskedFor(s) = <<r[2], r[3]>>
      /\ AllStages[s] = "asked" /\ AllAsked[s] = <<r[2], r[3]>>
  BY <1>1 DEF StagesOK, AllStages, AllAsked
<1>5. ~IsAsked(s)' /\ ~Choosing(s)'
  <2>1. \A q \in Requests : asked'[q] = IF q = r THEN 0 ELSE asked[q]
    BY <1>1, <1>2 DEF SharedOK
  <2> QED  BY <1>1, <1>2, <2>1 DEF Apart, IsAsked, Choosing
<1>6. CASE Grabbed(r)
  <2>1. Answering(s)' /\ UNCHANGED hist
    BY <1>2, <1>6 DEF Grabbed, Begin, ThreadOK, Answering
  <2>2. Stage(s)' = "done" /\ AskedFor(s)' = <<>>
    BY <1>1, <2>1 DEF StagesOK
  <2>3. /\ AllStages' = [AllStages EXCEPT ![s] = "done"]
        /\ AllAsked' = [AllAsked EXCEPT ![s] = <<>>]
    BY <1>1, <1>3, <2>2, OneMoves
  <2>4. FO!Succeed(s)
    BY <1>2, <1>4, <2>1, <2>3 DEF FO!Succeed, AllStages, AllAsked
  <2> QED  BY <1>1, <2>4 DEF Follows, FO!Next, FO!Respond
<1>7. ASSUME NEW err \in Errors, Failed(r, err) PROVE Follows
  <2>1. /\ ~Answering(s)' /\ hist' = [hist EXCEPT ![s] = HandleError(@, err, r[2], r[3])]
    BY <1>2, <1>7 DEF Failed, SetHistory, Begin, ThreadOK, Answering
  <2>2. Stage(s)' = "queued" /\ AskedFor(s)' = <<>>
    BY <1>1, <1>2, <1>5, <2>1 DEF StagesOK
  <2>3. /\ AllStages' = [AllStages EXCEPT ![s] = "queued"]
        /\ AllAsked' = [AllAsked EXCEPT ![s] = <<>>]
    BY <1>1, <1>3, <2>2, OneMoves
  <2>4. hist' = [hist EXCEPT ![s] =
                   FO!HandleError(@, err, AllAsked[s][1], AllAsked[s][2])]
    <3>1. AllAsked[s][1] = r[2] /\ AllAsked[s][2] = r[3]
      BY <1>4
    <3>2. FO!HandleError(hist[s], err, r[2], r[3]) = HandleError(hist[s], err, r[2], r[3])
      BY SameOperators
    <3> QED  BY <2>1, <3>1, <3>2
  <2>5. FO!Reject(s, err)
    BY <1>2, <1>4, <2>3, <2>4 DEF FO!Reject, AllStages, AllAsked
  <2>6. err \in FO!Errors
    BY SameOperators
  <2> QED  BY <1>1, <2>5, <2>6 DEF Follows, FO!Next, FO!Respond
<1> QED  BY <1>6, <1>7

LEMMA LossFollows ==
    ASSUME OrderlyInv, OrderlyInv', WorkOK, WorkOK', StagesOK, StagesOK', NEW r \in Requests,
           ServerDies(r), UNCHANGED thrVars
    PROVE  Follows
<1> /\ SharedOK /\ ThreadOK /\ Apart
  BY DEF OrderlyInv, UntouchedInv, TypeInv, TypeOK, LotInv
<1> USE DEF segVars, fileVars, grabVars, thrVars
<1> DEFINE s == r[1]
<1>1. /\ s \in Segments /\ asked[r] > 0 /\ r = <<s, r[2], r[3]>>
      /\ UNCHANGED <<segState, segErr, hist, pc, cur, req>>
      /\ alive' \in {alive, alive \ {r[2]}} /\ lost' = lost \cup {s}
      /\ asked' = [asked EXCEPT ![r] = @ - 1]
  BY DEF ServerDies, Requests
<1>2. ASSUME NEW x \in Segments, x # s PROVE Undisturbed(x)
  <2>1. \A q \in Requests : q[1] = x => asked'[q] = asked[q]
    BY <1>1, <1>2 DEF SharedOK
  <2> QED  BY <1>1, <1>2, <2>1 DEF Undisturbed, Answering, Choosing
<1>3. /\ Stage(s) = "asked" /\ AskedFor(s) = <<r[2], r[3]>>
      /\ AllStages[s] = "asked" /\ AllAsked[s] = <<r[2], r[3]>>
  BY <1>1 DEF StagesOK, AllStages, AllAsked
<1>4. Stage(s)' = "lost" /\ AskedFor(s)' = <<>>
  BY <1>1 DEF StagesOK
<1>5. /\ AllStages' = [AllStages EXCEPT ![s] = "lost"]
      /\ AllAsked' = [AllAsked EXCEPT ![s] = <<>>]
  BY <1>1, <1>2, <1>4, OneMoves
<1>6. FO!Lose(s)
  BY <1>1, <1>3, <1>5 DEF FO!Lose, AllStages, AllAsked
<1> QED  BY <1>1, <1>6 DEF Follows, FO!Next

LEMMA CallerFollows ==
    ASSUME OrderlyInv, OrderlyInv', WorkOK, Caller
    PROVE  Follows
<1> /\ SharedOK /\ ThreadOK /\ CallerApart
  BY CallerLeavesApart DEF OrderlyInv, UntouchedInv, TypeInv, TypeOK
<1>1. ASSUME NEW x \in Segments PROVE Undisturbed(x)
  <2>1. segState'[x] = "Done" <=> segState[x] = "Done"
    BY DEF CallerApart, FreshSegment
  <2>2. (Answering(x)' <=> Answering(x)) /\ (Choosing(x)' <=> Choosing(x))
    BY GrabberAssumption DEF CallerApart, Answering, Choosing, Threads
  <2> QED  BY <2>1, <2>2 DEF CallerApart, Undisturbed, Choosing
<1>2. AllStages' = AllStages /\ AllAsked' = AllAsked /\ UNCHANGED hist
  BY <1>1, NoneMoves DEF CallerApart
<1>3. UNCHANGED alive \/ alive' = {}
  BY DEF Caller, CallerAlone, CallGrabAll, CallGrabFile, CallPause, CallResume, LockGrabber,
     GrabNext, PauseNext, PausingFile, PausedFile, ResumeNext, ResumeFile, ResumingFile,
     SegmentResumeRead, ResumedFile, RequireFile, ResumeGrabs, ResetGrabbed, GrabFileState,
     EnqueueSegment, Enqueued, ShutDown, SetGrabber, SetFile, SetQueue, SetCounters,
     PauseSegment, SegmentResumeSet, SetSegment, PostProcessable, CallShutdown,
     ShutdownStrategy, Reads, netVars
<1>4. UNCHANGED alive \/ FO!Disconnect
  BY <1>2, <1>3 DEF FO!Disconnect, AllStages, AllAsked
<1> QED  BY <1>2, <1>4 DEF Follows, FO!Next, FO!vars, AllStages, AllAsked

LEMMA NextFollows ==
    ASSUME OrderlyInv, OrderlyInv', WorkOK, WorkOK', StagesOK, StagesOK', [Next]_vars
    PROVE  Follows
<1> SharedOK /\ ThreadOK
  BY DEF OrderlyInv, UntouchedInv, TypeInv, TypeOK
<1> USE DEF Threads, At, segVars, fileVars, grabVars, netVars, thrVars
<1>1. CASE \/ Dequeue \/ ExitDispatcher \/ ExitResponder \/ SegFailed
           \/ \E s \in Segments : s = cur["responder"] /\ Requeue(s)
  <2>1. UNCHANGED <<segState, segErr, lost, hist, asked, alive>>
    BY <1>1 DEF Dequeue, ExitDispatcher, ExitResponder, SegFailed, Requeue, SetQueue, Reads
  <2>2. \/ pc["dispatcher"] # "grab" /\ pc'["dispatcher"] # "grab"
        \/ /\ pc'["dispatcher"] = pc["dispatcher"] /\ cur'["dispatcher"] = cur["dispatcher"]
           /\ req' = req
    BY <1>1 DEF Dequeue, ExitDispatcher, ExitResponder, SegFailed, Requeue, Begin, Goto,
       Finish, ThreadOK
  <2>3. \A x \in Segments : Answering(x)' <=> Answering(x)
    BY <1>1, GrabberAssumption DEF Dequeue, ExitDispatcher, ExitResponder, SegFailed, Requeue,
       Begin, Goto, Finish, ThreadOK, Answering
  <2>4. \A x \in Segments : Undisturbed(x)
    BY <2>1, <2>2, <2>3 DEF Undisturbed, Choosing
  <2> QED  BY <2>1, <2>4, Stutters
<1>2. ASSUME NEW srv \in Servers, Reconnect(srv), UNCHANGED thrVars PROVE Follows
  <2>1. \A x \in Segments : Undisturbed(x)
    BY <1>2 DEF Reconnect, Undisturbed, Answering, Choosing
  <2>2. FO!Reconnect(srv)
    BY <1>2, <2>1, NoneMoves DEF Reconnect, FO!Reconnect, AllStages, AllAsked
  <2> QED  BY <2>2 DEF Follows, FO!Next
<1>3. CASE UNCHANGED vars
  <2>1. \A x \in Segments : Undisturbed(x)
    BY <1>3 DEF vars, Undisturbed, Answering, Choosing
  <2> QED  BY <1>3, <2>1, Stutters DEF vars
<1>4. CASE Dispatcher
  BY <1>1, <1>4, DispatchFollows, DoneFollows DEF Dispatcher
<1>5. CASE Responder
  BY <1>1, <1>5, DoneFollows, ResponseFollows DEF Responder
<1>6. CASE Network
  BY <1>2, <1>6, LossFollows DEF Network
<1>7. CASE Caller
  BY <1>7, CallerFollows
<1> QED  BY <1>3, <1>4, <1>5, <1>6, <1>7 DEF Next

LEMMA InitFollows ==
    ASSUME Init, StagesOK
    PROVE  FO!Init
<1>1. ASSUME NEW s \in Segments PROVE Stage(s) = "queued" /\ AskedFor(s) = <<>>
  <2>1. ~IsAsked(s) /\ ~Choosing(s) /\ ~Answering(s) /\ segState[s] # "Done" /\ s \notin lost
    BY DEF Init, IsAsked, Choosing, Answering, Threads
  <2> QED  BY <2>1 DEF StagesOK
<1> QED  BY <1>1, SameOperators DEF Init, FO!Init

\* Each segment goes through the loop of Failover, and no other: between the queue, the
\* goroutines and the servers, with the locks, the counters and the caller around it, it is
\* asked for, rejected, skipped, given up, lost and done as Failover says, so that what
\* FailoverProofs proves of the servers' order and of the failures holds of Grabber.
THEOREM ImplementsFailover ==
    ASSUME LotAtATime
    PROVE  Spec => IsFailover
<1>1. Init => OrderlyInv /\ WorkOK /\ FO!Init
  BY InitOrderly, InitWork, Staged, InitFollows
<1>2. OrderlyInv /\ WorkOK /\ [Next]_vars => (OrderlyInv /\ WorkOK)'
  BY NextOrderly, NextWork
<1>3. OrderlyInv /\ WorkOK => StagesOK
  BY Staged
<1>4. /\ OrderlyInv /\ WorkOK /\ StagesOK /\ (OrderlyInv /\ WorkOK /\ StagesOK)' /\ [Next]_vars
      => [FO!Next]_(FO!vars)
  BY NextFollows DEF Follows
<1> QED  BY <1>1, <1>2, <1>3, <1>4, PTL DEF Spec, Safety, IsFailover, FO!Safety


-----------------------------------------------------------------------------
\* The files are in step with their segments. A caller that grabs nothing while the Grabber
\* is paused has none of its segments dropped.
GrabsResumed(c) ==
    \A i, j \in 1 .. Len(c) : i < j /\ c[i][1] = "Pause" /\ c[j][1] \in Grabs =>
        \E k \in i .. j : c[k][1] = "Resume"

NotWhilePaused == \A c \in Scripts : GrabsResumed(c)

Begun == {"Pending", "Working", "Done"}

FilesInStep ==
    /\ \A s \in Segments : segState[s] \in {"Working", "Done"} =>
          fState[FileOf[s]] \in {"Working", "Done"}
    /\ \A s \in Segments : fState[FileOf[s]] \in Begun => segState[s] \in Begun
    /\ \A s \in Segments : InWork(s) => fState[FileOf[s]] \in Begun
    /\ \A s \in Segments : cur["dispatcher"] = s =>
          /\ pc["dispatcher"] = "fileSet" => fState[FileOf[s]] = "Pending"
          /\ pc["dispatcher"] \in {"grabberRead", "grabberSet", "setWorking"} =>
                fState[FileOf[s]] = "Working"

CallerInStep ==
    /\ mpc = "resuming" \/ (mpc = "resume" /\ Op \in Grabs) => fState[thisFile] = "Paused"
    /\ mpc \in {"resumeSegs", "resumeSeg"} =>
          /\ fState[thisFile] = "Resuming"
          /\ \A s \in SegsOf(thisFile) : s \in Listed(msegs) \/ segState[s] = "Pending"
    /\ mpc \in {"require", "enqueue"} => fState[thisFile] \in Begun

PausedRests ==
    /\ GrabsResumed(calls)
    /\ gState = "Paused" =>
          /\ NothingToDo
          /\ \A j \in 1 .. Len(calls) : calls[j][1] \in Grabs =>
                \E k \in 1 .. j : calls[k][1] = "Resume"

StepInv == FilesInStep /\ CallerInStep /\ PausedRests


\* What the goroutines and the servers do to files and segments.
FilesGoOn ==
    /\ UNCHANGED fRequired
    /\ \A f \in Files : \/ fState'[f] = fState[f]
                        \/ fState[f] = "Pending" /\ fState'[f] = "Working"
                        \/ fState[f] \in {"Working", "Done"} /\ fState'[f] = "Done"
    /\ \A x \in Segments :
          \/ segState'[x] = segState[x]
          \/ segState'[x] \in {"Working", "Done"} /\ fState[FileOf[x]] \in {"Working", "Done"}

LEMMA CurInStep ==
    ASSUME OrderlyInv, FilesInStep, NEW t \in Threads, NEW s \in Segments, s = cur[t]
    PROVE  /\ InWork(s) /\ FileOf[s] \in Files
           /\ fState[FileOf[s]] \in Begun /\ segState[s] \in Begun
           /\ pc[t] \in Late => segState[s] = "Done" /\ fState[FileOf[s]] \in {"Working", "Done"}
           /\ pc[t] \in Early => segState[s] # "Done" /\ fState[FileOf[s]] # "Done"
<1>1. ThreadOK /\ CurOK /\ DoneInTime /\ FilesCounted
  BY DEF OrderlyInv, UntouchedInv, TypeInv, TypeOK, LotInv, Books
<1>2. InWork(s) /\ FileOf[s] \in Files
  BY GrabberAssumption DEF InWork
<1>3. pc[t] \in Late <=> segState[s] = "Done"
  BY <1>1 DEF DoneInTime
<1>4. Early \cap Late = {}
  BY DEF Early, Late
<1>5. segState[s] # "Done" => fState[FileOf[s]] # "Done"
  BY <1>1, FileNotDone
<1> QED  BY <1>2, <1>3, <1>4, <1>5 DEF FilesInStep

LEMMA OthersGoOn ==
    ASSUME OrderlyInv, WorkOK, FilesInStep, Dispatcher \/ Responder \/ Network
    PROVE  FilesGoOn
<1> SharedOK /\ ThreadOK /\ CurOK
  BY DEF OrderlyInv, UntouchedInv, TypeInv, TypeOK, LotInv, Books
<1> USE DEF Threads, At, segVars, fileVars, grabVars, netVars, thrVars
<1>1. CASE \/ Dequeue \/ ExitDispatcher \/ ExitResponder \/ SegFailed \/ Network
           \/ \E s \in Segments : s = cur["responder"] /\ Requeue(s)
           \/ \E r \in Requests : Grabbed(r) \/ \E err \in Errors : Failed(r, err)
  BY <1>1 DEF Dequeue, ExitDispatcher, ExitResponder, SegFailed, Requeue, Grabbed, Failed,
     Network, ServerDies, Reconnect, SetQueue, SetHistory, Reads, FilesGoOn
<1>2. ASSUME NEW s \in Segments, s = cur["dispatcher"], Dispatch(s) PROVE FilesGoOn
  <2>1. CASE FileWorkingSet(FileOf[s])
    BY <1>2, <2>1, CurInStep DEF FileWorkingSet, SetFile, FilesInStep, FilesGoOn, SharedOK
  <2>2. CASE SegmentWorkingSet(s)
    <3>1. segState[s] # "Pausing" /\ fState[FileOf[s]] = "Working"
      BY <1>2, <2>2, CurInStep DEF SegmentWorkingSet, FilesInStep, Begun
    <3> QED  BY <2>2, <3>1 DEF SegmentWorkingSet, SetSegment, FilesGoOn, SharedOK
  <2>3. CASE ~FileWorkingSet(FileOf[s]) /\ ~SegmentWorkingSet(s)
    BY <1>2, <2>3 DEF Dispatch, SegmentWorkingRead, FileWorkingRead, GrabberWorkingRead,
       GrabberWorkingSet, CannotCreate, GiveUp, Skip, Choose, Grab, Reads, SetHistory,
       SetGrabber, FilesGoOn
  <2> QED  BY <2>1, <2>2, <2>3
<1>3. ASSUME NEW t \in Threads, NEW s \in Segments, s = cur[t], Done(t, s) PROVE FilesGoOn
  <2>1. CASE DoneWrite(t, s)
    <3>1. AtWork(s)
      BY <1>3, <2>1 DEF DoneWrite, AtWork, Answering
    <3>2. fState[FileOf[s]] \in {"Working", "Done"}
      BY <3>1 DEF WorkOK, FilesInStep
    <3> QED  BY <2>1, <3>2 DEF DoneWrite, FilesGoOn, SharedOK
  <2>2. CASE FileDone(t, FileOf[s])
    <3>1. fState[FileOf[s]] \in {"Working", "Done"}
      BY <1>3, <2>2, CurInStep DEF FileDone, Late
    <3> QED  BY <2>2, <3>1 DEF FileDone, SetFile, FilesGoOn, SharedOK
  <2>3. CASE ~DoneWrite(t, s) /\ ~FileDone(t, FileOf[s])
    BY <1>3, <2>3 DEF Done, DoneCheck, SegmentDone, ReportFile, Reads, SetCounters, FilesGoOn
  <2> QED  BY <2>1, <2>2, <2>3
<1> QED  BY <1>1, <1>2, <1>3 DEF Dispatcher, Responder

LEMMA OthersInStep ==
    ASSUME OrderlyInv, OrderlyInv', WorkOK, FilesInStep, Dispatcher \/ Responder \/ Network
    PROVE  FilesInStep'
<1> SharedOK /\ ThreadOK /\ CurOK
  BY DEF OrderlyInv, UntouchedInv, TypeInv, TypeOK, LotInv, Books
<1>1. FilesGoOn /\ \A s \in Segments : FileOf[s] \in Files
  BY OthersGoOn, GrabberAssumption
<1>2. \A s \in Segments : InWork(s)' => InWork(s)
  BY OthersMove, MovesNone DEF OrderlyInv, LotInv, Books
<1>3. \A s \in Segments : segState'[s] \in {"Working", "Done"} => fState'[FileOf[s]] \in {"Working", "Done"}
  BY <1>1 DEF FilesGoOn, FilesInStep
<1>4. \A s \in Segments : fState'[FileOf[s]] \in Begun => segState'[s] \in Begun
  BY <1>1 DEF FilesGoOn, FilesInStep, Begun
<1>5. \A s \in Segments : InWork(s)' => fState'[FileOf[s]] \in Begun
  BY <1>1, <1>2 DEF FilesGoOn, FilesInStep, Begun
<1>6. ASSUME NEW s \in Segments, cur'["dispatcher"] = s
      PROVE  /\ pc'["dispatcher"] = "fileSet" => fState'[FileOf[s]] = "Pending"
             /\ pc'["dispatcher"] \in {"grabberRead", "grabberSet", "setWorking"} =>
                   fState'[FileOf[s]] = "Working"
  <2> DEFINE Goal == /\ pc'["dispatcher"] = "fileSet" => fState'[FileOf[s]] = "Pending"
                     /\ pc'["dispatcher"] \in {"grabberRead", "grabberSet", "setWorking"} =>
                           fState'[FileOf[s]] = "Working"
  <2> USE DEF Threads, At, fileVars
  <2>1. CASE Responder \/ Network
    <3>1. pc'["dispatcher"] = pc["dispatcher"] /\ cur'["dispatcher"] = cur["dispatcher"]
      BY <2>1 DEF Responder, ExitResponder, Requeue, Done, DoneCheck, DoneWrite, SegmentDone,
         FileDone, ReportFile, Grabbed, Failed, Network, thrVars, AfterDone, Goto, Finish,
         Begin, ThreadOK
    <3>2. ASSUME pc["dispatcher"] \in Early PROVE fState'[FileOf[s]] # "Done"
      <4>1. (DoneInTime /\ FilesCounted)' /\ pc'["dispatcher"] \notin Late
        BY <3>1, <3>2 DEF OrderlyInv, LotInv, Books, Early, Late
      <4>2. segState'[s] # "Done"
        BY <1>6, <4>1 DEF DoneInTime
      <4> QED  BY <1>1, <4>1, <4>2, GrabberAssumption
                  DEF FilesCounted, Counted, SegsOf
    <3>3. fState'[FileOf[s]] # fState[FileOf[s]] => fState'[FileOf[s]] = "Done"
      BY <1>1, <2>1 DEF Responder, ExitResponder, Requeue, Done, DoneCheck, DoneWrite,
         SegmentDone, FileDone, ReportFile, Grabbed, Failed, Network, ServerDies, Reconnect,
         Reads, SetQueue, SetHistory, SetFile, SetCounters, SharedOK
    <3> QED  BY <1>1, <1>6, <3>1, <3>2, <3>3 DEF FilesInStep, Early
  <2>2. CASE Dequeue \/ ExitDispatcher \/ SegFailed
    BY <2>2 DEF Dequeue, ExitDispatcher, SegFailed, Begin, Goto, Finish, ThreadOK
  <2>3. ASSUME NEW x \in Segments, x = cur["dispatcher"], Dispatch(x) PROVE Goal
    <3>1. cur'["dispatcher"] \in {x, NoSegment} /\ x = s
      BY <1>6, <2>3, GrabberAssumption DEF Dispatch, SegmentWorkingRead, FileWorkingRead,
         FileWorkingSet, GrabberWorkingRead, GrabberWorkingSet, SegmentWorkingSet,
         CannotCreate, GiveUp, Skip, Choose, Grab, Goto, Finish, ThreadOK
    <3>2. CASE FileWorkingSet(FileOf[s])
      BY <1>1, <3>2 DEF FileWorkingSet, SetFile, Goto, ThreadOK, SharedOK
    <3>3. CASE ~FileWorkingSet(FileOf[s])
      <4>1. UNCHANGED fState
        BY <2>3, <3>1, <3>3 DEF Dispatch, SegmentWorkingRead, FileWorkingRead,
           GrabberWorkingRead, GrabberWorkingSet, SegmentWorkingSet, CannotCreate, GiveUp,
           Skip, Choose, Grab, Reads, SetSegment, SetHistory, SetGrabber
      <4> QED  BY <2>3, <3>1, <3>3, <4>1 DEF Dispatch, SegmentWorkingRead, FileWorkingRead,
           GrabberWorkingRead, GrabberWorkingSet, SegmentWorkingSet, CannotCreate, GiveUp,
           Skip, Choose, Grab, Goto, Finish, ThreadOK, FilesInStep
    <3> QED  BY <3>2, <3>3
  <2>4. ASSUME NEW x \in Segments, x = cur["dispatcher"], Done("dispatcher", x) PROVE Goal
    BY <2>4 DEF Done, DoneCheck, DoneWrite, SegmentDone, FileDone, ReportFile, AfterDone, Goto,
       Finish, ThreadOK
  <2> QED  BY <2>1, <2>2, <2>3, <2>4 DEF Dispatcher
<1> QED  BY <1>3, <1>4, <1>5, <1>6 DEF FilesInStep


\* The caller's place and the pause are left alone by the others.
LEMMA OthersKeepStep ==
    ASSUME OrderlyInv, WorkOK, StepInv, Dispatcher \/ Responder \/ Network
    PROVE  CallerInStep' /\ PausedRests'
<1> /\ SharedOK /\ ThreadOK /\ CurOK /\ CallerOK /\ InCall /\ Lots
  BY DEF OrderlyInv, UntouchedInv, TypeInv, TypeOK, LotInv
<1>1. FilesGoOn /\ UNCHANGED mainVars /\ FilesInStep /\ CallerInStep /\ PausedRests
  BY OthersGoOn DEF StepInv, Dispatcher, Responder, Network
<1>2. thisFile' = thisFile /\ Op' = Op /\ UNCHANGED <<mpc, calls, mfiles, msegs>>
  BY <1>1 DEF mainVars, thisFile, Op
<1>3. CallerInStep'
  <2>1. mpc \in {"resume", "resuming", "resumeSegs", "resumeSeg", "require", "enqueue"} =>
            thisFile \in Files
    BY AtHand DEF FilePC
  <2>2. /\ mpc = "resuming" \/ (mpc = "resume" /\ Op \in Grabs) => fState'[thisFile] = "Paused"
        /\ mpc \in {"resumeSegs", "resumeSeg"} => fState'[thisFile] = "Resuming"
        /\ mpc \in {"require", "enqueue"} => fState'[thisFile] \in Begun
    BY <1>1, <2>1 DEF FilesGoOn, CallerInStep, Begun
  <2>3. ASSUME mpc \in {"resumeSegs", "resumeSeg"}, NEW s \in SegsOf(thisFile)
        PROVE  s \in Listed(msegs) \/ segState'[s] = "Pending"
    BY <1>1, <2>1, <2>3 DEF FilesGoOn, CallerInStep, SegsOf
  <2> QED  BY <1>2, <2>2, <2>3 DEF CallerInStep
<1>4. gState' = "Paused" => gState = "Paused"
  BY DEF Dispatcher, Responder, Network, Dequeue, ExitDispatcher, SegFailed, Dispatch,
     SegmentWorkingRead, FileWorkingRead, FileWorkingSet, GrabberWorkingRead,
     GrabberWorkingSet, SegmentWorkingSet, CannotCreate, GiveUp, Skip, Choose, Grab, Done,
     DoneCheck, DoneWrite, SegmentDone, FileDone, ReportFile, ExitResponder, Requeue, Grabbed,
     Failed, ServerDies, Reconnect, Reads, SetSegment, SetHistory, SetFile, SetGrabber,
     SetCounters, SetQueue, grabVars
<1>5. NothingToDo => NothingToDo'
  BY <1>1 DEF FilesGoOn, NothingToDo, ToDo
<1> QED  BY <1>1, <1>2, <1>3, <1>4, <1>5 DEF PausedRests

\* What is left of the calls once one returns.
LEMMA LeftOver ==
    ASSUME CallerOK, calls # <<>>
    PROVE  /\ Len(calls) \in Nat /\ Len(Tail(calls)) = Len(calls) - 1 /\ Len(Tail(calls)) \in Nat
           /\ Op = calls[1][1]
           /\ \A i \in 1 .. Len(Tail(calls)) : Tail(calls)[i] = calls[i + 1]
BY HeadTailProperties, LenProperties, EmptySeq DEF CallerOK, Op

LEMMA ReturnRests ==
    ASSUME CallerOK, calls # <<>>, PausedRests, Return, NothingToDo => NothingToDo',
           \/ gState' = gState /\ (gState = "Paused" => Op # "Resume")
           \/ gState' = "Paused" /\ NothingToDo /\ Op = "Pause"
           \/ gState' = "Pending"
    PROVE  PausedRests'
<1>1. /\ Len(calls) \in Nat /\ Len(Tail(calls)) = Len(calls) - 1
      /\ Op = calls[1][1] /\ calls' = Tail(calls)
      /\ \A i \in 1 .. Len(Tail(calls)) : Tail(calls)[i] = calls[i + 1]
  BY LeftOver DEF Return
<1>2. GrabsResumed(calls) /\ GrabsResumed(Tail(calls))
  <2> SUFFICES ASSUME NEW i \in 1 .. Len(Tail(calls)), NEW j \in 1 .. Len(Tail(calls)), i < j,
                      Tail(calls)[i][1] = "Pause", Tail(calls)[j][1] \in Grabs
               PROVE  \E k \in i .. j : Tail(calls)[k][1] = "Resume"
    BY DEF PausedRests, GrabsResumed
  <2>1. /\ i + 1 \in 1 .. Len(calls) /\ j + 1 \in 1 .. Len(calls) /\ i + 1 < j + 1
        /\ calls[i + 1][1] = "Pause" /\ calls[j + 1][1] \in Grabs
    BY <1>1
  <2>2. PICK k \in i + 1 .. j + 1 : calls[k][1] = "Resume"
    BY <2>1 DEF PausedRests, GrabsResumed
  <2>3. k - 1 \in i .. j /\ k - 1 \in 1 .. Len(Tail(calls)) /\ (k - 1) + 1 = k
    BY <1>1, <2>2
  <2> QED  BY <1>1, <2>2, <2>3
<1>3. ASSUME gState' = "Paused"
      PROVE  /\ NothingToDo'
             /\ \A j \in 1 .. Len(Tail(calls)) : Tail(calls)[j][1] \in Grabs =>
                    \E k \in 1 .. j : Tail(calls)[k][1] = "Resume"
  <2>1. /\ NothingToDo' /\ Op # "Resume"
        /\ gState = "Paused" \/ Op = "Pause"
    BY <1>3 DEF PausedRests
  <2>2. ASSUME NEW j \in 1 .. Len(Tail(calls)), Tail(calls)[j][1] \in Grabs
        PROVE  \E k \in 1 .. j : Tail(calls)[k][1] = "Resume"
    <3>1. j + 1 \in 1 .. Len(calls) /\ 1 \in 1 .. Len(calls) /\ 1 < j + 1 /\ calls[j + 1][1] \in Grabs
      BY <1>1, <2>2
    <3>2. PICK k \in 1 .. j + 1 : calls[k][1] = "Resume"
      BY <1>1, <1>2, <2>1, <3>1 DEF PausedRests, GrabsResumed
    <3>3. k # 1
      BY <1>1, <2>1, <3>2
    <3>4. k - 1 \in 1 .. j /\ k - 1 \in 1 .. Len(Tail(calls)) /\ (k - 1) + 1 = k
      BY <1>1, <3>2, <3>3
    <3> QED  BY <1>1, <3>2, <3>4
  <2> QED  BY <2>1, <2>2
<1> QED  BY <1>1, <1>2, <1>3 DEF PausedRests

\* A paused Grabber is not grabbing.
LEMMA NotGrabbing ==
    ASSUME CallerOK, calls # <<>>, PausedRests, gState = "Paused"
    PROVE  Op \notin Grabs
<1>1. Len(calls) \in Nat /\ Len(calls) >= 1 /\ Op = calls[1][1]
  BY LeftOver
<1>2. 1 \in 1 .. Len(calls)
  BY <1>1
<1> SUFFICES ASSUME Op \in Grabs PROVE FALSE
  OBVIOUS
<1>3. PICK k \in 1 .. 1 : calls[k][1] = "Resume"
  BY <1>1, <1>2 DEF PausedRests
<1> QED  BY <1>1, <1>3 DEF Grabs

\* While a file is being resumed or enqueued the caller is in a GrabFile, and the Grabber
\* not paused.
LEMMA KeepsResting ==
    ASSUME CallerOK, PausedRests, UNCHANGED <<calls, gState>>,
           UNCHANGED <<fState, fRequired>> \/ (calls # <<>> /\ Op \in Grabs)
    PROVE  PausedRests'
<1>1. gState = "Paused" => NothingToDo /\ NothingToDo'
  BY NotGrabbing DEF PausedRests, NothingToDo, ToDo
<1> QED  BY <1>1 DEF PausedRests

LEMMA InGrabFile ==
    ASSUME TypeInv, Lots,
           mpc \in {"resuming", "resumeSegs", "resumeSeg", "require", "reset", "grab", "enqueue"}
    PROVE  /\ calls # <<>> /\ Op \in Grabs /\ InLot /\ mfiles # <<>> /\ thisFile \in Files
           /\ mpc \in {"resuming", "resumeSegs", "resumeSeg", "require"} => Fresh(thisFile)
           /\ msegs # <<>> => Head(msegs) \in Segments /\ Head(msegs) \in Listed(msegs)
           /\ msegs # <<>> =>
                 \A s \in Segments : s \in Listed(msegs) => s = Head(msegs) \/ s \in Listed(Tail(msegs))
<1> CallerOK /\ InCall
  BY DEF TypeInv, TypeOK
<1>1. calls # <<>> /\ Op \in Grabs /\ InLot /\ mfiles # <<>>
  BY Doing DEF InPause, InCall, FilePC
<1>2. thisFile \in Files /\ (msegs # <<>> => Head(msegs) \in Segments)
  BY <1>1, AtHand
<1>3. ASSUME msegs # <<>>
      PROVE  /\ Head(msegs) \in Listed(msegs)
             /\ \A s \in Segments : s \in Listed(msegs) => s = Head(msegs) \/ s \in Listed(Tail(msegs))
  <2>1. /\ Len(msegs) \in Nat /\ DOMAIN msegs = 1 .. Len(msegs) /\ Head(msegs) = msegs[1]
        /\ DOMAIN Tail(msegs) = 1 .. Len(msegs) - 1
        /\ \A i \in 1 .. Len(msegs) - 1 : Tail(msegs)[i] = msegs[i + 1]
    BY <1>3, HeadTailProperties, LenProperties, EmptySeq DEF CallerOK
  <2>2. ASSUME NEW i \in 1 .. Len(msegs), i # 1
        PROVE  msegs[i] \in Listed(Tail(msegs))
    <3>1. i - 1 \in 1 .. Len(msegs) - 1 /\ (i - 1) + 1 = i
      BY <2>1, <2>2
    <3> QED  BY <2>1, <3>1 DEF Listed
  <2>3. Head(msegs) \in Listed(msegs)
    BY <1>3, ListedFacts DEF CallerOK
  <2>4. ASSUME NEW s \in Segments, s \in Listed(msegs), s # Head(msegs)
        PROVE  s \in Listed(Tail(msegs))
    <3>1. PICK i \in DOMAIN msegs : s = msegs[i]
      BY <2>4 DEF Listed
    <3>2. i \in 1 .. Len(msegs) /\ i # 1
      BY <2>1, <2>4, <3>1
    <3> QED  BY <2>2, <3>1, <3>2
  <2> QED  BY <2>3, <2>4
<1> QED  BY <1>1, <1>2, <1>3 DEF InLot

LEMMA LooksInStep ==
    ASSUME FilesInStep, Looks
    PROVE  FilesInStep'
<1>1. \A s \in Segments : InWork(s)' <=> InWork(s)
  BY SameWork DEF Looks
<1> QED  BY <1>1 DEF Looks, FilesInStep

\* The caller's steps that only look: a call begins or ends, or a loop goes on.
LEMMA LooksOn ==
    ASSUME TypeInv, Lots, StepInv, Looks, UNCHANGED gState,
           \/ CallGrabAll \/ CallGrabFile \/ LockGrabber \/ ResumeGrabs
           \/ ResumeFile \/ SegmentResumeRead \/ GrabFileState \/ Enqueued
           \/ CallShutdown \/ ShutdownStrategy \/ RequireFile \/ ResetGrabbed
    PROVE  StepInv'
<1> /\ CallerOK /\ InCall /\ SharedOK /\ FilesInStep /\ CallerInStep /\ PausedRests
  BY DEF TypeInv, TypeOK, StepInv
<1>1. FilesInStep'
  BY LooksInStep
<1>2. PausedRests'
  <2>1. UNCHANGED calls
    BY DEF CallGrabAll, CallGrabFile, LockGrabber, ResumeGrabs, ResumeFile, SegmentResumeRead,
       GrabFileState, Enqueued, CallShutdown, ShutdownStrategy, RequireFile, ResetGrabbed,
       Enter, Step, NextFile, Visit, NextSegment, Resumed
  <2> QED  BY <2>1, KeepsResting DEF Looks
<1>3. CallerInStep'
  <2> USE DEF Looks, Step, Visit, NextSegment, NextFile, thisFile, Op
  <2>1. CASE \/ CallGrabAll \/ CallGrabFile \/ LockGrabber \/ ResumeGrabs \/ Enqueued
             \/ CallShutdown \/ ShutdownStrategy \/ ResetGrabbed
    BY <2>1 DEF CallGrabAll, CallGrabFile, LockGrabber, ResumeGrabs, Enqueued, CallShutdown,
       ShutdownStrategy, ResetGrabbed, Enter, CallerInStep
  <2>2. CASE ResumeFile /\ Op \in Grabs
    <3>1. Step("resuming") /\ fState[thisFile] = "Paused"
      BY <2>2 DEF ResumeFile, CallerInStep
    <3> QED  BY <3>1 DEF CallerInStep
  <2>3. CASE ResumeFile /\ Op \notin Grabs
    <3>1. mfiles # <<>> /\ InPause /\ Op = "Resume" /\ mpc = "resume"
      BY <2>3, Doing DEF ResumeFile, InCall, FilePC, InPause
    <3>2. thisFile \in Files
      BY <3>1, AtHand
    <3>3. fState[thisFile] = "Done"
      BY <3>1, <3>2 DEF InPause, NothingToDo, ToDo
    <3>4. Step("stillPending")
      BY <2>3, <3>1, <3>3 DEF ResumeFile, Resumed
    <3> QED  BY <3>4 DEF CallerInStep
  <2>4. CASE GrabFileState
    BY <2>4 DEF GrabFileState, CallerInStep, Begun
  <2>5. CASE RequireFile
    <3>1. mpc = "require" /\ Op # "Resume"
      BY <2>5, InGrabFile DEF RequireFile, Grabs
    <3>2. Visit("enqueue") /\ fState[thisFile] \in Begun
      BY <2>5, <3>1 DEF RequireFile, Resumed, CallerInStep
    <3> QED  BY <3>2 DEF CallerInStep
  <2>6. CASE SegmentResumeRead
    <3>1. /\ mpc = "resumeSegs" /\ msegs # <<>> /\ InLot /\ thisFile \in Files /\ Fresh(thisFile)
          /\ fState[thisFile] = "Resuming"
          /\ Head(msegs) \in Segments /\ Head(msegs) \in Listed(msegs)
      BY <2>6, InGrabFile DEF SegmentResumeRead, CallerInStep
    <3>2. CASE Step("resumeSeg")
      BY <3>1, <3>2 DEF CallerInStep, SegsOf
    <3>3. CASE NextSegment("resumeSegs") /\ segState[Head(msegs)] \notin {"Paused", "Pausing"}
      <4>1. FileOf[Head(msegs)] = thisFile
        BY <3>1 DEF InLot
      <4>2. segState[Head(msegs)] = "Pending"
        BY <3>1, <3>3, <4>1 DEF Fresh, FreshSegment, SegsOf, SharedOK, States
      <4>3. \A s \in SegsOf(thisFile) : s \in Listed(Tail(msegs)) \/ segState[s] = "Pending"
        BY <3>1, <4>2, InGrabFile DEF CallerInStep, SegsOf
      <4> QED  BY <3>1, <3>3, <4>3 DEF CallerInStep, SegsOf
    <3> QED  BY <2>6, <3>2, <3>3 DEF SegmentResumeRead
  <2> QED  BY <2>1, <2>2, <2>3, <2>4, <2>5, <2>6
<1> QED  BY <1>1, <1>2, <1>3 DEF StepInv

\* A call returns, or the Grabber is paused or resumed with nothing to do.
LEMMA RestsOn ==
    ASSUME TypeInv, Lots, StepInv, FilesInStep', UNCHANGED <<fState, fRequired>>,
           \/ CallPause \/ CallResume \/ GrabNext \/ PauseNext \/ ResumeNext \/ ShutDown
           \/ \E t \in Threads : PostProcessable(t)
    PROVE  StepInv'
<1> /\ CallerOK /\ InCall /\ SharedOK /\ FilesInStep /\ CallerInStep /\ PausedRests
  BY DEF TypeInv, TypeOK, StepInv
<1>2. CallerInStep'
  <2>1. \/ mpc' \in {"idle", "lock", "next", "reset", "pausing"}
        \/ mpc' = "resume" /\ Op' = "Resume"
    BY DEF CallPause, CallResume, GrabNext, PauseNext, ResumeNext, ShutDown, PostProcessable,
       Return, Enter, Step, NextFile, Op
  <2> QED  BY <2>1 DEF CallerInStep, Grabs
<1> SUFFICES PausedRests'
  BY <1>2 DEF StepInv
<1>3. calls # <<>>
  BY DEF CallPause, CallResume, GrabNext, PauseNext, ResumeNext, ShutDown, PostProcessable,
     Calling, InCall
<1>4. NothingToDo => NothingToDo'
  BY DEF NothingToDo, ToDo
<1>5. CASE UNCHANGED <<calls, gState>>
  BY <1>5, KeepsResting
<1>6. CASE Return /\ UNCHANGED gState
  <2>1. gState = "Paused" => Op # "Resume"
    <3>1. CASE CallPause \/ CallResume \/ GrabNext \/ PauseNext \/ \E t \in Threads : PostProcessable(t)
      BY <1>6, <3>1 DEF CallPause, CallResume, GrabNext, PauseNext, PostProcessable, Calling,
         Enter, Return
    <3>2. CASE ShutDown
      BY <3>2, Doing DEF ShutDown, InPause, InLot, Grabs
    <3>3. CASE ResumeNext
      BY <1>6, <3>3 DEF ResumeNext, SetGrabber, Return, Step, NextFile
    <3> QED  BY <3>1, <3>2, <3>3
  <2> QED  BY <1>3, <1>4, <1>6, <2>1, ReturnRests
<1>7. CASE PauseNext /\ SetGrabber("Paused") /\ Return
  <2>1. Op = "Pause" /\ NothingToDo /\ gState' = "Paused"
    BY <1>7, Doing DEF PauseNext, SetGrabber, InPause, Grabs
  <2> QED  BY <1>3, <1>4, <1>7, <2>1, ReturnRests
<1>8. CASE ResumeNext /\ SetGrabber("Pending") /\ Return
  <2>1. gState' = "Pending"
    BY <1>8 DEF SetGrabber
  <2> QED  BY <1>3, <1>4, <1>8, <2>1, ReturnRests
<1>9. \/ UNCHANGED <<calls, gState>>
      \/ Return /\ UNCHANGED gState
      \/ PauseNext /\ SetGrabber("Paused") /\ Return
      \/ ResumeNext /\ SetGrabber("Pending") /\ Return
  BY DEF CallPause, CallResume, GrabNext, PauseNext, ResumeNext, ShutDown, PostProcessable,
     Enter, Step, NextFile, Reads, grabVars
<1> QED  BY <1>5, <1>6, <1>7, <1>8, <1>9

\* A paused file is resumed with its segments, which nobody has ...
LEMMA ResumesInStep ==
    ASSUME TypeInv, Lots, StepInv, ResumingFile \/ SegmentResumeSet \/ ResumedFile,
           UNCHANGED thrVars
    PROVE  StepInv'
<1> /\ CallerOK /\ InCall /\ SharedOK /\ FilesInStep /\ CallerInStep /\ PausedRests
  BY DEF TypeInv, TypeOK, StepInv
<1>1. /\ mpc \in {"resuming", "resumeSegs", "resumeSeg"} /\ InLot
      /\ calls # <<>> /\ Op \in Grabs /\ thisFile \in Files /\ Fresh(thisFile)
  BY InGrabFile DEF ResumingFile, SegmentResumeSet, ResumedFile
<1>2. /\ UNCHANGED <<queue, asked, pc, cur, calls, mfiles, gState>> /\ thisFile' = thisFile
      /\ \A f \in Files : f # thisFile => fState'[f] = fState[f]
      /\ \A s \in Segments : FileOf[s] # thisFile => segState'[s] = segState[s]
  <2>1. CASE SegmentResumeSet
    <3>1. /\ mpc = "resumeSeg" /\ Head(msegs) \in Segments
          /\ FileOf[Head(msegs)] = thisFile
      BY <1>1, <2>1, InGrabFile DEF SegmentResumeSet, InCall, InLot
    <3> QED  BY <2>1, <3>1 DEF SegmentResumeSet, SetSegment, NextSegment, thisFile, fileVars,
                grabVars, netVars, thrVars, SharedOK
  <2>2. CASE ResumingFile \/ ResumedFile
    <3>1. UNCHANGED <<calls, mfiles>>
      BY <2>2 DEF ResumingFile, ResumedFile, Visit, Resumed, Step
    <3> QED
      BY <1>1, <2>2, <3>1 DEF ResumingFile, ResumedFile, SetFile, thisFile, segVars, grabVars,
         netVars, thrVars, SharedOK
  <2> QED  BY <2>1, <2>2
<1>3. \A s \in SegsOf(thisFile) : ~InWork(s) /\ segState[s] \in {"Pending", "Pausing", "Paused"}
  BY <1>1 DEF Fresh, FreshSegment, SegsOf, SharedOK, States
<1>4. PausedRests'
  BY <1>1, <1>2, KeepsResting
<1>5. \A s \in Segments : InWork(s)' <=> InWork(s)
  BY <1>2, SameWork
<1>6. ASSUME \A s \in SegsOf(thisFile) :
               /\ segState'[s] \in {"Pending", "Pausing", "Paused"}
               /\ fState'[thisFile] \in Begun => segState'[s] = "Pending"
      PROVE  FilesInStep'
  <2>1. \A s \in Segments : cur'["dispatcher"] = s => FileOf[s] # thisFile
    BY <1>2, <1>3 DEF SegsOf, InWork, Threads
  <2>2. \A s \in Segments : FileOf[s] # thisFile =>
            segState'[s] = segState[s] /\ fState'[FileOf[s]] = fState[FileOf[s]]
    BY <1>2, GrabberAssumption
  <2>3. \A s \in Segments : FileOf[s] = thisFile =>
            /\ segState'[s] \notin {"Working", "Done"} /\ ~InWork(s)'
            /\ fState'[FileOf[s]] \in Begun => segState'[s] \in Begun
    BY <1>3, <1>5, <1>6 DEF SegsOf, Begun
  <2> QED  BY <1>2, <1>5, <2>1, <2>2, <2>3 DEF FilesInStep
<1>7. CASE ResumingFile
  <2>1. /\ fState'[thisFile] = "Resuming" /\ UNCHANGED segState
        /\ mpc' = "resumeSegs" /\ msegs' = SegSeq[thisFile]
    BY <1>1, <1>7 DEF ResumingFile, SetFile, Visit, segVars, SharedOK
  <2>2. FilesInStep'
    BY <1>3, <1>6, <2>1 DEF Begun
  <2>3. \A s \in SegsOf(thisFile) : s \in Listed(msegs')
    BY <1>1, <2>1, GrabberAssumption DEF SegsOf
  <2>4. CallerInStep'
    BY <1>2, <2>1, <2>3 DEF CallerInStep, SegsOf
  <2> QED  BY <1>4, <2>2, <2>4 DEF StepInv
<1>8. CASE SegmentResumeSet
  <2>1. /\ mpc = "resumeSeg" /\ msegs # <<>> /\ Head(msegs) \in Segments
        /\ fState[thisFile] = "Resuming" /\ UNCHANGED fState
        /\ segState' = [segState EXCEPT ![Head(msegs)] = "Pending"]
        /\ mpc' = "resumeSegs" /\ msegs' = Tail(msegs)
    BY <1>8, InGrabFile DEF SegmentResumeSet, SetSegment, NextSegment, InCall, fileVars,
       CallerInStep
  <2>2. \A s \in Segments : segState'[s] = IF s = Head(msegs) THEN "Pending" ELSE segState[s]
    BY <2>1 DEF SharedOK
  <2>3. FilesInStep'
    BY <1>3, <1>6, <2>1, <2>2 DEF Begun, SegsOf
  <2>4. \A s \in SegsOf(thisFile) : s \in Listed(Tail(msegs)) \/ segState'[s] = "Pending"
    BY <2>1, <2>2, InGrabFile DEF CallerInStep, SegsOf
  <2>5. CallerInStep'
    BY <1>2, <2>1, <2>4 DEF CallerInStep, SegsOf
  <2> QED  BY <1>4, <2>3, <2>5 DEF StepInv
<1>9. CASE ResumedFile
  <2>1. /\ mpc = "resumeSegs" /\ msegs = <<>> /\ UNCHANGED segState
        /\ fState'[thisFile] = "Pending"
    BY <1>1, <1>9 DEF ResumedFile, segVars, SharedOK
  <2>2. \A s \in SegsOf(thisFile) : segState[s] = "Pending"
    BY <2>1 DEF CallerInStep, Listed
  <2>3. FilesInStep'
    BY <1>6, <2>1, <2>2 DEF Begun
  <2>4. mpc' \in {"require", "enqueue"}
    BY <1>1, <1>9 DEF ResumedFile, Resumed, Visit, Step, Grabs
  <2>5. CallerInStep'
    BY <1>2, <2>1, <2>4 DEF CallerInStep, Begun
  <2> QED  BY <1>4, <2>3, <2>5 DEF StepInv
<1> QED  BY <1>7, <1>8, <1>9

\* ... and then they are enqueued, which the file is ready for.
LEMMA EnqueuesInStep ==
    ASSUME TypeInv, Lots, StepInv, EnqueueSegment, UNCHANGED thrVars
    PROVE  StepInv'
<1> /\ CallerOK /\ InCall /\ SharedOK /\ ThreadOK /\ FilesInStep /\ CallerInStep /\ PausedRests
  BY DEF TypeInv, TypeOK, StepInv
<1>1. /\ mpc = "enqueue" /\ msegs # <<>> /\ InLot /\ thisFile \in Files
      /\ Head(msegs) \in Segments /\ Head(msegs) \in Listed(msegs)
      /\ queue' = Append(queue, Head(msegs)) /\ mpc' = "enqueue" /\ thisFile' = thisFile
      /\ UNCHANGED <<segState, fState, fRequired, gState, asked, pc, cur, calls>>
  BY InGrabFile DEF EnqueueSegment, SetQueue, NextSegment, thisFile, segVars, fileVars, grabVars,
     netVars, thrVars
<1>2. FileOf[Head(msegs)] = thisFile /\ fState[thisFile] \in Begun
  BY <1>1 DEF InLot, CallerInStep
<1>3. \A x \in Segments : InWork(x)' => InWork(x) \/ x = Head(msegs)
  BY <1>1, QueueMore DEF InWork, InQueue
<1>4. FilesInStep'
  BY <1>1, <1>2, <1>3 DEF FilesInStep
<1>5. CallerInStep'
  BY <1>1, <1>2 DEF CallerInStep
<1>6. PausedRests'
  BY <1>1, KeepsResting
<1> QED  BY <1>4, <1>5, <1>6 DEF StepInv

LEMMA NextStep ==
    ASSUME OrderlyInv, OrderlyInv', WorkOK, StepInv, [Next]_vars
    PROVE  StepInv'
<1> /\ TypeInv /\ SharedOK /\ ThreadOK /\ CallerOK /\ InCall /\ Lots
    /\ FilesInStep /\ CallerInStep /\ PausedRests
  BY DEF OrderlyInv, UntouchedInv, TypeInv, TypeOK, LotInv, StepInv
<1>1. CASE Dispatcher \/ Responder \/ Network
  BY <1>1, OthersInStep, OthersKeepStep DEF StepInv
<1> USE DEF Reads, segVars, fileVars, grabVars, netVars, thrVars
<1>2. CASE CallerAlone /\ UNCHANGED <<thrVars, dieVars>>
  <2>1. CASE ResumingFile \/ SegmentResumeSet \/ ResumedFile
    BY <1>2, <2>1, ResumesInStep
  <2>2. CASE EnqueueSegment
    BY <1>2, <2>2, EnqueuesInStep
  <2>3. CASE \/ CallGrabAll \/ CallGrabFile \/ LockGrabber \/ ResumeGrabs \/ ResumeFile
             \/ SegmentResumeRead \/ GrabFileState \/ Enqueued \/ RequireFile \/ ResetGrabbed
    <3>1. Looks /\ UNCHANGED gState
      BY <1>2, <2>3 DEF CallGrabAll, CallGrabFile, LockGrabber, ResumeGrabs, ResumeFile,
         SegmentResumeRead, GrabFileState, Enqueued, RequireFile, ResetGrabbed, SetCounters,
         Looks
    <3> QED  BY <2>3, <3>1, LooksOn
  <2>4. CASE CallPause \/ CallResume \/ GrabNext \/ PauseNext \/ ResumeNext \/ ShutDown
    <3>1. Looks
      BY <1>2, <2>4 DEF CallPause, CallResume, GrabNext, PauseNext, ResumeNext, ShutDown,
         SetGrabber, Looks
    <3> QED  BY <2>4, <3>1, LooksInStep, RestsOn DEF Looks
  <2>5. ~PausingFile /\ ~PauseSegment /\ ~PausedFile
    BY LotNotPaused
  <2> QED  BY <1>2, <2>1, <2>2, <2>3, <2>4, <2>5 DEF CallerAlone
<1>3. ASSUME NEW t \in Threads, PostProcessable(t) PROVE StepInv'
  <2>1. /\ UNCHANGED <<segState, fState, fRequired, queue, asked>>
        /\ \A u \in Threads : cur'[u] = cur[u] \/ cur'[u] = NoSegment
        /\ pc'["dispatcher"] = pc["dispatcher"] \/ pc'["dispatcher"] = "segFailed"
        /\ cur'["dispatcher"] = cur["dispatcher"]
    BY <1>3 DEF PostProcessable, AfterDone, Goto, Finish, ThreadOK, Threads
  <2>2. \A s \in Segments : InWork(s)' => InWork(s)
    BY <2>1, GrabberAssumption DEF InWork
  <2>3. FilesInStep'
    BY <2>1, <2>2 DEF FilesInStep
  <2> QED  BY <1>3, <2>1, <2>3, RestsOn
<1>4. CASE (CallShutdown \/ ShutdownStrategy) /\ UNCHANGED thrVars
  <2>1. Looks /\ UNCHANGED gState
    BY <1>4 DEF CallShutdown, ShutdownStrategy, Looks
  <2> QED  BY <1>4, <2>1, LooksOn
<1>5. CASE UNCHANGED vars
  <2>1. Looks /\ UNCHANGED <<gState, mainVars>>
    BY <1>5 DEF vars, Looks
  <2>2. FilesInStep'
    BY <2>1, LooksInStep
  <2>3. CallerInStep' /\ PausedRests'
    BY <2>1 DEF Looks, mainVars, CallerInStep, PausedRests, NothingToDo, ToDo, thisFile, Op
  <2> QED  BY <2>2, <2>3 DEF StepInv
<1> QED  BY <1>1, <1>2, <1>3, <1>4, <1>5 DEF Next, Caller

LEMMA InitStep ==
    ASSUME NotWhilePaused
    PROVE  Init => StepInv
<1> SUFFICES ASSUME Init PROVE StepInv
  OBVIOUS
<1>1. \A s \in Segments : ~InWork(s) /\ cur["dispatcher"] # s /\ FileOf[s] \in Files
  BY GrabberAssumption DEF Init, InWork, Listed, Threads
<1>2. FilesInStep
  BY <1>1 DEF Init, FilesInStep, Begun
<1>3. CallerInStep /\ PausedRests
  BY DEF Init, CallerInStep, PausedRests, NotWhilePaused
<1> QED  BY <1>2, <1>3 DEF StepInv

-----------------------------------------------------------------------------
\* The files follow GrabLots. A segment is met when it has been enqueued.
Met(s) == segState[s] \in {"Working", "Done"} \/ InQueue(s) \/ IsCur(s)

LEMMA WantedMet == \A f \in Files : IsWanted(f) <=> \E s \in SegsOf(f) : Met(s)
BY DEF IsWanted, Met, InQueue, IsCur, Listed, Range

\* The dispatcher drops no segment: none of its file nor the Grabber is paused.
LEMMA NotDropped ==
    ASSUME OrderlyInv, WorkOK, StepInv, NEW s \in Segments, s = cur["dispatcher"], Dispatch(s)
    PROVE  cur'["dispatcher"] = s \/ segState'[s] = "Working"
<1> /\ SharedOK /\ ThreadOK /\ CurOK /\ Untouched /\ FilesInStep /\ PausedRests
  BY DEF OrderlyInv, UntouchedInv, TypeInv, TypeOK, StepInv
<1> USE DEF Threads, At, Goto
<1>1. /\ FileOf[s] \in Files /\ fState[FileOf[s]] \in Begun /\ segState[s] \in Begun
      /\ pc["dispatcher"] \in Early => segState[s] # "Done" /\ fState[FileOf[s]] # "Done"
  BY CurInStep
<1>2. CASE SegmentWorkingRead(s)
  BY <1>1, <1>2 DEF SegmentWorkingRead, Begun, Early
<1>3. CASE FileWorkingRead(FileOf[s])
  BY <1>1, <1>3 DEF FileWorkingRead, Begun, Early
<1>4. CASE GrabberWorkingRead
  <2>1. FileOf[s] \in ToDo
    BY <1>1, <1>4, CurRequired DEF GrabberWorkingRead, Early, ToDo
  <2>2. gState # "Paused"
    BY <2>1 DEF PausedRests, NothingToDo
  <2> QED  BY <1>4, <2>2 DEF GrabberWorkingRead, SharedOK
<1>5. CASE SegmentWorkingSet(s)
  BY <1>1, <1>5 DEF SegmentWorkingSet, Begun
<1>6. CASE Grab(s)
  <2>1. segState[s] = "Working"
    BY <1>6 DEF Grab, WorkOK, AtWork
  <2> QED  BY <1>6, <2>1 DEF Grab, segVars
<1>7. CASE \/ FileWorkingSet(FileOf[s]) \/ GrabberWorkingSet
           \/ CannotCreate(s) \/ GiveUp(s) \/ Skip(s) \/ Choose(s)
  BY <1>7 DEF FileWorkingSet, GrabberWorkingSet, CannotCreate, GiveUp, Skip, Choose
<1> QED  BY <1>2, <1>3, <1>4, <1>5, <1>6, <1>7 DEF Dispatch

LEMMA LetGo ==
    ASSUME OrderlyInv, WorkOK, StepInv, Dispatcher \/ Responder \/ Network,
           NEW t \in Threads, NEW s \in Segments, s = cur[t]
    PROVE  cur'[t] = s \/ segState'[s] \in {"Working", "Done"}
<1> /\ SharedOK /\ ThreadOK /\ CurOK /\ DoneInTime /\ s # NoSegment
  BY GrabberAssumption DEF OrderlyInv, UntouchedInv, TypeInv, TypeOK, LotInv
<1> DEFINE Goal == cur'[t] = s \/ segState'[s] \in {"Working", "Done"}
<1> USE DEF Threads, At, segVars
<1>1. CASE \/ Dequeue \/ ExitDispatcher \/ ExitResponder \/ Network
           \/ \E r \in Requests : Grabbed(r) \/ \E err \in Errors : Failed(r, err)
  BY <1>1 DEF Dequeue, ExitDispatcher, ExitResponder, Network, Grabbed, Failed, Goto, Begin,
     thrVars, CurOK, ThreadOK
<1>2. CASE SegFailed
  <2>1. pc["dispatcher"] \in Late /\ UNCHANGED segState
    BY <1>2 DEF SegFailed, Late
  <2>2. t = "dispatcher" => segState[s] = "Done"
    BY <2>1 DEF DoneInTime
  <2> QED  BY <1>2, <2>1, <2>2 DEF SegFailed, Finish, ThreadOK
<1>3. ASSUME NEW x \in Segments, x = cur["responder"], Requeue(x) PROVE Goal
  <2>1. segState[x] = "Working" /\ UNCHANGED segState
    BY <1>3 DEF Requeue, SetQueue, Reads, WorkOK, AtWork
  <2> QED  BY <1>3, <2>1 DEF Requeue, Finish, ThreadOK
<1>4. ASSUME NEW x \in Segments, x = cur["dispatcher"], Dispatch(x) PROVE Goal
  <2>1. cur'["responder"] = cur["responder"]
    BY <1>4 DEF Dispatch, SegmentWorkingRead, FileWorkingRead, FileWorkingSet,
         GrabberWorkingRead, GrabberWorkingSet, SegmentWorkingSet, CannotCreate, GiveUp, Skip,
         Choose, Grab, Goto, Finish, ThreadOK
  <2> QED  BY <1>4, <2>1, NotDropped
<1>5. ASSUME NEW u \in Threads, NEW x \in Segments, x = cur[u], Done(u, x) PROVE Goal
  <2>1. \A v \in Threads \ {u} : cur'[v] = cur[v]
    BY <1>5 DEF Done, DoneCheck, DoneWrite, SegmentDone, FileDone, ReportFile, AfterDone, Goto,
       Finish, ThreadOK
  <2>2. CASE u # t
    BY <2>1, <2>2
  <2>3. CASE u = t /\ (DoneCheck(t, s) \/ DoneWrite(t, s))
    BY <2>3 DEF DoneCheck, DoneWrite, Goto, DoneInTime, Late
  <2>4. CASE u = t /\ (SegmentDone(t, FileOf[s]) \/ FileDone(t, FileOf[s]) \/ ReportFile(t, FileOf[s]))
    <3>1. pc[t] \in Late /\ UNCHANGED segState
      BY <2>4 DEF SegmentDone, FileDone, ReportFile, SetFile, SetCounters, Late
    <3> QED  BY <3>1 DEF DoneInTime
  <2> QED  BY <1>5, <2>2, <2>3, <2>4 DEF Done
<1> QED  BY <1>1, <1>2, <1>3, <1>4, <1>5 DEF Dispatcher, Responder

LEMMA OthersMeetNone ==
    ASSUME OrderlyInv, WorkOK, StepInv, Dispatcher \/ Responder \/ Network
    PROVE  \A s \in Segments : Met(s)' <=> Met(s)
<1> /\ SharedOK /\ ThreadOK /\ CurOK /\ FilesInStep
  BY DEF OrderlyInv, UntouchedInv, TypeInv, TypeOK, StepInv
<1>1. Moves /\ OwnSegments /\ FilesGoOn
  BY OthersMove, OthersGoOn DEF OrderlyInv, LotInv, Books
<1>2. ASSUME NEW s \in Segments, Met(s)' PROVE Met(s)
  <2>1. CASE IsCur(s) \/ InQueue(s)
    BY <2>1 DEF Met
  <2>2. CASE IsAsked(s)
    BY <2>2 DEF Met, WorkOK, AtWork
  <2>3. CASE ~IsCur(s) /\ ~InQueue(s) /\ ~IsAsked(s)
    <3>1. segState'[s] = segState[s]
      BY <1>1, <2>3 DEF OwnSegments
    <3>2. ~IsCur(s)' /\ ~InQueue(s)'
      <4>1. ~InWork(s)'
        BY <1>1, <2>3, NoPlace, MovesNone
      <4> QED  BY <4>1 DEF InWork, IsCur, InQueue
    <3> QED  BY <1>2, <3>1, <3>2 DEF Met
  <2> QED  BY <2>1, <2>2, <2>3
<1>3. ASSUME NEW s \in Segments, Met(s) PROVE Met(s)'
  <2>1. CASE segState[s] \in {"Working", "Done"}
    BY <1>1, <2>1 DEF FilesGoOn, Met
  <2>2. CASE IsCur(s)
    <3>1. PICK t \in Threads : cur[t] = s
      BY <2>2 DEF IsCur
    <3> QED  BY <3>1, LetGo DEF Met, IsCur
  <2>3. CASE InQueue(s)
    <3>1. InQueue(s)' \/ IsCur(s)'
      <4>1. CASE Stays \/ \E r \in Requests : AsksFor(r) \/ Answered(r) \/ Dropped(r)
        BY <2>3, <4>1 DEF Stays, AsksFor, Answered, Dropped, InQueue
      <4>2. CASE Taken
        BY <2>3, <4>2, QueueLess DEF Taken, IsCur, Threads
      <4>3. ASSUME NEW x \in Segments, PutBack(x) PROVE InQueue(s)'
        BY <2>3, <4>3, QueueMore DEF PutBack
      <4> QED  BY <1>1, <4>1, <4>2, <4>3 DEF Moves
    <3> QED  BY <3>1 DEF Met
  <2> QED  BY <1>3, <2>1, <2>2, <2>3 DEF Met
<1> QED  BY <1>2, <1>3

\* The caller meets a segment when it enqueues it.
LEMMA CallerMeetsNone ==
    ASSUME OrderlyInv, Caller, ~EnqueueSegment
    PROVE  \A s \in Segments : Met(s)' <=> Met(s)
<1> /\ SharedOK /\ ThreadOK /\ CurOK /\ CallerOK /\ InCall /\ Lots /\ TypeInv /\ DoneInTime
  BY DEF OrderlyInv, UntouchedInv, TypeInv, TypeOK, LotInv
<1> USE DEF Reads, segVars, fileVars, grabVars, netVars, thrVars
<1>1. ASSUME UNCHANGED <<segState, queue, cur>> PROVE \A s \in Segments : Met(s)' <=> Met(s)
  BY <1>1 DEF Met, InQueue, IsCur
<1>2. CASE SegmentResumeSet /\ UNCHANGED thrVars
  <2>1. /\ UNCHANGED <<queue, cur>> /\ Head(msegs) \in Segments
        /\ segState' = [segState EXCEPT ![Head(msegs)] = "Pending"]
        /\ InLot /\ Head(msegs) \in Listed(msegs) /\ thisFile \in Files /\ Fresh(thisFile)
        /\ mpc = "resumeSeg"
    BY <1>2, InGrabFile DEF SegmentResumeSet, SetSegment, InCall
  <2>2. FreshSegment(Head(msegs))
    BY <2>1 DEF InLot, Fresh, SegsOf
  <2>3. \A s \in Segments : segState'[s] = segState[s]
                            \/ {segState[s], segState'[s]} \cap {"Working", "Done"} = {}
    BY <2>1, <2>2 DEF SharedOK, FreshSegment
  <2> QED  BY <2>1, <2>3 DEF Met, InQueue, IsCur
<1>3. CASE CallerAlone /\ UNCHANGED thrVars /\ ~SegmentResumeSet
  <2>1. ~PausingFile /\ ~PauseSegment /\ ~PausedFile
    BY LotNotPaused
  <2>2. UNCHANGED <<segState, queue, cur>>
    BY <1>3, <2>1 DEF CallerAlone, CallGrabAll, CallGrabFile, CallPause, CallResume,
       LockGrabber, GrabNext, PauseNext, ResumeNext, ResumeFile, ResumingFile,
       SegmentResumeRead, ResumedFile, RequireFile, ResumeGrabs, ResetGrabbed, GrabFileState,
       Enqueued, ShutDown, SetFile, SetGrabber, SetCounters
  <2> QED  BY <1>1, <2>2
<1>4. CASE (CallShutdown \/ ShutdownStrategy) /\ UNCHANGED thrVars
  BY <1>1, <1>4 DEF CallShutdown, ShutdownStrategy
<1>5. ASSUME NEW t \in Threads, PostProcessable(t)
      PROVE  \A s \in Segments : Met(s)' <=> Met(s)
  <2>1. /\ UNCHANGED <<segState, queue>> /\ pc[t] = "signal"
        /\ \A u \in Threads : u # t => cur'[u] = cur[u]
        /\ cur'[t] \in {cur[t], NoSegment}
    BY <1>5 DEF PostProcessable, AfterDone, Goto, Finish, ThreadOK, At
  <2>2. \A s \in Segments : cur[t] = s => segState[s] = "Done"
    BY <2>1 DEF DoneInTime, Late
  <2> QED  BY <2>1, <2>2, GrabberAssumption DEF Met, InQueue, IsCur
<1> QED  BY <1>2, <1>3, <1>4, <1>5 DEF Caller

\* What GrabLots sees.
Shown == [f \in Files |-> IF fState[f] = "Resuming" THEN "Paused" ELSE fState[f]]
Requiring == IF mpc = "require" THEN {thisFile} ELSE {}
WantedFiles == {f \in Files : IsWanted(f)}
Reported == {FileOf[cur[t]] : t \in Reporting}
Signals == \E t \in Threads : pc[t] = "signal"

Lot == <<Shown, fRequired, doneFiles, required, Requiring, WantedFiles, Reported, Signals>>

InLots == [GL!GrabNext]_(GL!grabVars)

LEMMA LotStutters ==
    ASSUME UNCHANGED Lot
    PROVE  InLots
BY DEF Lot, Shown, Requiring, WantedFiles, Reported, Signals, InLots, GL!grabVars, GL!fileVars,
   GL!lotVars, GL!wantVars, SegsOf

LEMMA WantedSame ==
    ASSUME \A s \in Segments : Met(s)' <=> Met(s)
    PROVE  WantedFiles' = WantedFiles
<1>1. \A f \in Files : IsWanted(f)' <=> IsWanted(f)
  BY DEF IsWanted, Met, InQueue, IsCur, Listed, Range, SegsOf
<1> QED  BY <1>1 DEF WantedFiles

\* A goroutine that is not about to report, nor signalling, before and after.
Elsewhere(t) == {pc[t], pc'[t]} \cap {"report", "signal"} = {}

LEMMA ReportsSame ==
    ASSUME \A t \in Threads : Elsewhere(t) \/ (pc'[t] = pc[t] /\ cur'[t] = cur[t])
    PROVE  UNCHANGED <<Reported, Signals>>
<1>1. Reporting' = Reporting /\ \A t \in Reporting : cur'[t] = cur[t]
  BY DEF Reporting, Elsewhere
<1>2. Signals' <=> Signals
  BY DEF Signals, Elsewhere
<1>3. Reported' = Reported
  BY <1>1 DEF Reported
<1>4. Signals' = Signals
  BY <1>2 DEF Signals
<1> QED  BY <1>3, <1>4

\* A file begins, ends and is reported.
LEMMA WorkingInLots ==
    ASSUME OrderlyInv, StepInv, NEW s \in Segments, s = cur["dispatcher"],
           FileWorkingSet(FileOf[s]), WantedFiles' = WantedFiles, UNCHANGED mainVars
    PROVE  InLots
<1> /\ SharedOK /\ ThreadOK /\ FilesInStep
  BY DEF OrderlyInv, UntouchedInv, TypeInv, TypeOK, StepInv
<1> DEFINE f == FileOf[s]
<1>1. /\ f \in Files /\ fState[f] = "Pending" /\ fState' = [fState EXCEPT ![f] = "Working"]
      /\ UNCHANGED <<fRequired, doneFiles, required, Requiring>>
      /\ pc' = [pc EXCEPT !["dispatcher"] = "grabberRead"] /\ pc["dispatcher"] = "fileSet"
      /\ UNCHANGED cur
  BY GrabberAssumption DEF FileWorkingSet, SetFile, Goto, At, FilesInStep, grabVars, mainVars,
     Requiring, thisFile
<1>2. UNCHANGED <<Reported, Signals>>
  BY <1>1, ReportsSame DEF Elsewhere, ThreadOK, Threads
<1>3. f \in WantedFiles
  BY <1>1, WantedMet DEF WantedFiles, SegsOf, Met, IsCur, Threads
<1>4. Shown[f] = "Pending" /\ Shown' = [Shown EXCEPT ![f] = "Working"]
  BY <1>1 DEF Shown, SharedOK
<1>5. GL!FileWorking(f)
  BY <1>1, <1>2, <1>3, <1>4 DEF GL!FileWorking, GL!lotVars, GL!wantVars, Shown, Requiring,
     WantedFiles, Reported, Signals, SegsOf
<1> QED  BY <1>1, <1>5 DEF InLots, GL!GrabNext

LEMMA DoneInLots ==
    ASSUME OrderlyInv, StepInv, NEW t \in Threads, NEW s \in Segments, s = cur[t],
           FileDone(t, FileOf[s]), WantedFiles' = WantedFiles, UNCHANGED mainVars
    PROVE  InLots
<1> /\ SharedOK /\ ThreadOK /\ FilesInStep /\ FilesListed
  BY DEF OrderlyInv, UntouchedInv, TypeInv, TypeOK, LotInv, Books, StepInv
<1> DEFINE f == FileOf[s]
<1>1. /\ f \in Files /\ fState' = [fState EXCEPT ![f] = "Done"]
      /\ UNCHANGED <<fRequired, doneFiles, required, Requiring>>
      /\ pc' = [pc EXCEPT ![t] = "report"] /\ pc[t] = "file" /\ UNCHANGED cur
  BY GrabberAssumption DEF FileDone, SetFile, Goto, At, grabVars, mainVars, Requiring, thisFile
<1>2. fState[f] = "Working"
  BY <1>1, CurInStep DEF FilesListed, Late
<1>3. Signals' = Signals
  <2>1. Signals' <=> Signals
    BY <1>1 DEF Signals, ThreadOK
  <2> QED  BY <2>1 DEF Signals
<1>4. Reported' = Reported \cup {f}
  <2>1. Reporting' = Reporting \cup {t}
    BY <1>1 DEF Reporting, ThreadOK
  <2> QED  BY <1>1, <2>1 DEF Reported
<1>5. Shown[f] = "Working" /\ Shown' = [Shown EXCEPT ![f] = "Done"]
  BY <1>1, <1>2 DEF Shown, SharedOK
<1>6. GL!FileDone(f)
  BY <1>1, <1>3, <1>4, <1>5 DEF GL!FileDone, GL!lotVars, GL!wantVars, Shown, Requiring,
     WantedFiles, Reported, Signals, SegsOf
<1> QED  BY <1>1, <1>6 DEF InLots, GL!GrabNext

LEMMA ReportInLots ==
    ASSUME OrderlyInv, NEW t \in Threads, NEW s \in Segments, s = cur[t],
           ReportFile(t, FileOf[s]), WantedFiles' = WantedFiles, UNCHANGED mainVars
    PROVE  InLots
<1> /\ SharedOK /\ ThreadOK /\ CurOK /\ FilesListed
  BY DEF OrderlyInv, UntouchedInv, TypeInv, TypeOK, LotInv, Books
<1> DEFINE f == FileOf[s]
<1>1. /\ f \in Files /\ Shown' = Shown /\ doneFiles' = Append(doneFiles, f)
      /\ UNCHANGED <<fState, fRequired, required, Requiring>> /\ pc[t] = "report" /\ ~Signals
      /\ \A u \in Threads : u # t => pc'[u] = pc[u] /\ cur'[u] = cur[u]
      /\ pc'[t] # "report" /\ (pc'[t] = "signal" <=> isPostProcessable')
  BY GrabberAssumption DEF ReportFile, SetCounters, At, DoneMxFree, AfterDone, Goto, Finish,
     mainVars, fileVars, Requiring, thisFile, Shown, Signals, ThreadOK
<1>2. Signals' = (Len(doneFiles') >= required')
  <2>1. Signals' <=> isPostProcessable'
    BY <1>1 DEF Signals
  <2>2. Signals' \in BOOLEAN /\ (Len(doneFiles') >= required') \in BOOLEAN
    BY DEF Signals
  <2>3. Signals' <=> (Len(doneFiles') >= required')
    BY <2>1 DEF isPostProcessable
  <2> QED  BY <2>2, <2>3
<1>3. f \in Reported /\ Reported' = Reported \ {f}
  <2>1. Reporting' = Reporting \ {t} /\ t \in Reporting
    BY <1>1 DEF Reporting
  <2>2. ASSUME NEW u \in Reporting, u # t PROVE FileOf[cur[u]] # f /\ cur'[u] = cur[u]
    <3>1. u \in Threads /\ pc[u] = "report" /\ cur[u] \in Segments
      BY <2>2, CurSegment DEF Reporting
    <3>2. \A v \in Threads : pc[v] \in {"file", "report"}
      BY <1>1, <2>2, <3>1 DEF Threads
    <3> QED  BY <1>1, <2>2, <3>1, <3>2 DEF FilesListed, Threads
  <2> QED  BY <2>1, <2>2 DEF Reported
<1>4. GL!ReportFile(f)
  BY <1>1, <1>2, <1>3 DEF GL!ReportFile, GL!fileVars, GL!wantVars, GL!isPostProcessable, Shown,
     Requiring, WantedFiles, Reported, Signals, SegsOf
<1> QED  BY <1>1, <1>4 DEF InLots, GL!GrabNext

LEMMA OthersInLots ==
    ASSUME OrderlyInv, WorkOK, StepInv, Dispatcher \/ Responder \/ Network
    PROVE  InLots
<1> /\ SharedOK /\ ThreadOK /\ CurOK /\ DoneInTime /\ FilesCounted
  BY DEF OrderlyInv, UntouchedInv, TypeInv, TypeOK, LotInv, Books
<1>1. WantedFiles' = WantedFiles /\ UNCHANGED mainVars /\ UNCHANGED Requiring
  BY OthersMeetNone, WantedSame DEF Dispatcher, Responder, Network, mainVars, Requiring,
     thisFile
<1>2. CASE \E s \in Segments : s = cur["dispatcher"] /\ FileWorkingSet(FileOf[s])
  BY <1>1, <1>2, WorkingInLots
<1>3. CASE \E t \in Threads, s \in Segments : s = cur[t] /\ FileDone(t, FileOf[s])
  BY <1>1, <1>3, DoneInLots
<1>4. CASE \E t \in Threads, s \in Segments : s = cur[t] /\ ReportFile(t, FileOf[s])
  BY <1>1, <1>4, ReportInLots
<1>5. ASSUME ~\E s \in Segments : s = cur["dispatcher"] /\ FileWorkingSet(FileOf[s]),
             ~\E t \in Threads, s \in Segments : s = cur[t] /\ FileDone(t, FileOf[s]),
             ~\E t \in Threads, s \in Segments : s = cur[t] /\ ReportFile(t, FileOf[s])
      PROVE  InLots
  <2> USE DEF Threads, At, segVars, fileVars, grabVars, netVars
  <2>1. UNCHANGED <<fState, fRequired, doneFiles, required>>
    BY <1>5 DEF Dispatcher, Responder, Network, Dequeue, ExitDispatcher, SegFailed, Dispatch,
       SegmentWorkingRead, FileWorkingRead, GrabberWorkingRead, GrabberWorkingSet,
       SegmentWorkingSet, CannotCreate, GiveUp, Skip, Choose, Grab, Done, DoneCheck, DoneWrite,
       SegmentDone, ExitResponder, Requeue, Grabbed, Failed, ServerDies, Reconnect, Reads,
       SetSegment, SetHistory, SetGrabber, SetQueue
  <2>2. \A t \in Threads : Elsewhere(t) \/ (pc'[t] = pc[t] /\ cur'[t] = cur[t])
    <3>1. CASE Quiet
      BY <3>1 DEF Quiet, Late, Elsewhere
    <3>2. CASE SegFailed
      BY <3>2 DEF SegFailed, Finish, Elsewhere, ThreadOK
    <3>3. ASSUME NEW t \in Threads, NEW s \in Segments, s = cur[t], Bookkeeping(t, s)
          PROVE  \A u \in Threads : Elsewhere(u) \/ (pc'[u] = pc[u] /\ cur'[u] = cur[u])
      BY <1>5, <3>3 DEF Bookkeeping, DoneWrite, SegmentDone, AfterDone, Goto, Finish, Elsewhere,
         ThreadOK
    <3> QED  BY <3>1, <3>2, <3>3, OthersMove
  <2>3. UNCHANGED <<Reported, Signals>>
    BY <2>2, ReportsSame
  <2>4. Shown' = Shown
    BY <2>1 DEF Shown
  <2> QED  BY <1>1, <2>1, <2>3, <2>4, LotStutters DEF Lot
<1> QED  BY <1>2, <1>3, <1>4, <1>5

\* The caller resumes, requires and enqueues files, resets the counters and receives.
LEMMA ResumedInLots ==
    ASSUME OrderlyInv, StepInv, ResumedFile, WantedFiles' = WantedFiles, UNCHANGED thrVars
    PROVE  InLots
<1> /\ SharedOK /\ TypeInv /\ Lots /\ CallerInStep
  BY DEF OrderlyInv, UntouchedInv, TypeInv, TypeOK, LotInv, StepInv
<1>0. PICK f \in Files : f = thisFile
  BY InGrabFile DEF ResumedFile
<1>1. /\ mpc = "resumeSegs" /\ fState[f] = "Resuming" /\ Op \in Grabs
      /\ fState' = [fState EXCEPT ![f] = "Pending"]
      /\ fRequired' = [fRequired EXCEPT ![f] = TRUE]
      /\ UNCHANGED <<doneFiles, required, pc, cur, mfiles>>
  BY <1>0, InGrabFile DEF ResumedFile, CallerInStep, Resumed, Step, Visit, grabVars, thrVars
<1>2. UNCHANGED <<Reported, Signals>>
  BY <1>1, ReportsSame
<1>3. Shown[f] = "Paused" /\ Shown' = [Shown EXCEPT ![f] = "Pending"]
  BY <1>1 DEF Shown, SharedOK
<1>4. Requiring = {} /\ Requiring' = IF fRequired[f] THEN {} ELSE {f}
  <2>1. thisFile' = thisFile
    BY <1>1 DEF thisFile
  <2>2. mpc' = "require" <=> ~fRequired[f]
    BY <1>0, <1>1 DEF ResumedFile, Resumed, Step, Visit, Grabs
  <2> QED  BY <1>0, <1>1, <2>1, <2>2 DEF Requiring
<1>5. GL!ResumeFile(f)
  BY <1>1, <1>2, <1>3, <1>4 DEF GL!ResumeFile, GL!lotVars, GL!wantVars, Shown, Requiring,
     WantedFiles, Reported, Signals, SegsOf
<1> QED  BY <1>5 DEF InLots, GL!GrabNext

LEMMA CountersInLots ==
    ASSUME OrderlyInv, RequireFile \/ ResetGrabbed, WantedFiles' = WantedFiles,
           UNCHANGED thrVars
    PROVE  InLots
<1> /\ SharedOK /\ TypeInv /\ Lots
  BY DEF OrderlyInv, UntouchedInv, TypeInv, TypeOK, LotInv
<1>1. /\ UNCHANGED <<fState, fRequired, pc, cur>> /\ Shown' = Shown /\ ~Signals
      /\ thisFile \in Files
  BY InGrabFile DEF RequireFile, ResetGrabbed, SetCounters, Reads, fileVars, thrVars, DoneMxFree,
     Shown, Signals
<1>2. UNCHANGED <<Reported, Signals>>
  BY <1>1, ReportsSame
<1>3. CASE RequireFile
  <2>1. /\ Requiring = {thisFile} /\ Requiring' = {}
        /\ doneFiles' = doneFiles /\ required' = required + 1
    BY <1>3 DEF RequireFile, SetCounters, Resumed, Step, Visit, Requiring
  <2>2. GL!RequireFile(thisFile)
    BY <1>1, <1>2, <2>1 DEF GL!RequireFile, GL!fileVars, GL!wantVars, Shown, Requiring,
       WantedFiles, Reported, Signals, SegsOf
  <2> QED  BY <1>1, <2>2 DEF InLots, GL!GrabNext
<1>4. CASE ResetGrabbed
  <2>1. /\ Requiring = {} /\ Requiring' = {}
        /\ IF isPostProcessable THEN required' = 0 /\ doneFiles' = <<>>
                                ELSE UNCHANGED <<required, doneFiles>>
    BY <1>4 DEF ResetGrabbed, SetCounters, Reads, grabVars, Step, Requiring
  <2>2. GL!ResetGrabbed
    BY <1>1, <1>2, <2>1 DEF GL!ResetGrabbed, GL!isPostProcessable, isPostProcessable,
       GL!fileVars, GL!lotVars, GL!wantVars, Shown, Requiring, WantedFiles, Reported, Signals,
       SegsOf
  <2> QED  BY <2>2 DEF InLots, GL!GrabNext
<1> QED  BY <1>3, <1>4

LEMMA EnqueuesInLots ==
    ASSUME OrderlyInv, StepInv, EnqueueSegment, UNCHANGED thrVars
    PROVE  InLots
<1> /\ SharedOK /\ TypeInv /\ Lots /\ CallerInStep
  BY DEF OrderlyInv, UntouchedInv, TypeInv, TypeOK, LotInv, StepInv
<1> DEFINE s == Head(msegs)
           f == thisFile
<1>1. /\ mpc = "enqueue" /\ mpc' = "enqueue" /\ InLot /\ msegs # <<>> /\ f \in Files
      /\ s \in Segments /\ s \in Listed(msegs) /\ queue' = Append(queue, s)
      /\ UNCHANGED <<segState, fState, fRequired, doneFiles, required, pc, cur>>
      /\ fState[f] \in Begun
  BY InGrabFile DEF EnqueueSegment, SetQueue, NextSegment, segVars, fileVars, grabVars, thrVars,
     CallerInStep
<1>2. FileOf[s] = f
  BY <1>1 DEF InLot
<1>3. \A x \in Segments : Met(x)' <=> Met(x) \/ x = s
  BY <1>1, QueueMore DEF Met, IsCur
<1>4. WantedFiles' = WantedFiles \cup {f}
  <2>1. \A g \in Files : IsWanted(g) <=> \E x \in SegsOf(g) : Met(x)
    BY WantedMet
  <2>2. \A g \in Files : IsWanted(g)' <=> \E x \in SegsOf(g) : Met(x)'
    BY DEF IsWanted, Met, InQueue, IsCur, Listed, Range, SegsOf
  <2>3. \A g \in Files : IsWanted(g)' <=> IsWanted(g) \/ g = f
    BY <1>1, <1>2, <1>3, <2>1, <2>2 DEF SegsOf
  <2> QED  BY <1>1, <2>3 DEF WantedFiles
<1>5. UNCHANGED <<Shown, Requiring, Reported, Signals>> /\ Requiring = {}
  BY <1>1, ReportsSame DEF Shown, Requiring
<1>6. CASE f \in WantedFiles
  BY <1>1, <1>4, <1>5, <1>6, LotStutters DEF Lot
<1>7. CASE f \notin WantedFiles
  <2>1. Cardinality(SegsOf(f)) # 0
    <3>1. IsFiniteSet(SegsOf(f)) /\ s \in SegsOf(f)
      BY <1>1, <1>2, SegmentsFinite, FS_Subset DEF SegsOf
    <3> QED  BY <3>1, FS_EmptySet
  <2>2. Shown[f] # "Paused"
    BY <1>1 DEF Shown, Begun
  <2>3. GL!EnqueueFile(f)
    BY <1>1, <1>4, <1>5, <1>7, <2>1, <2>2 DEF GL!EnqueueFile, GL!fileVars, GL!lotVars, Shown,
       Requiring, WantedFiles, Reported, Signals, SegsOf
  <2> QED  BY <1>1, <2>3 DEF InLots, GL!GrabNext
<1> QED  BY <1>6, <1>7

LEMMA SignalInLots ==
    ASSUME OrderlyInv, NEW t \in Threads, PostProcessable(t), WantedFiles' = WantedFiles
    PROVE  InLots
<1> /\ SharedOK /\ ThreadOK /\ OneSignal
  BY DEF OrderlyInv, UntouchedInv, TypeInv, TypeOK, LotInv, Books
<1>1. /\ UNCHANGED <<fState, fRequired, doneFiles, required>> /\ Shown' = Shown
      /\ pc[t] = "signal" /\ pc'[t] \in {"segFailed", "idle"} /\ mpc = "idle" /\ mpc' = "idle"
      /\ \A u \in Threads : u # t => pc'[u] = pc[u] /\ cur'[u] = cur[u]
  BY DEF PostProcessable, Calling, Return, Reads, AfterDone, Goto, Finish, At, fileVars, grabVars,
     Shown, ThreadOK
<1>2. Signals /\ Signals' = FALSE
  BY <1>1 DEF Signals, OneSignal, Threads
<1>3. Reported' = Reported
  <2>1. Reporting' = Reporting /\ t \notin Reporting
    BY <1>1 DEF Reporting
  <2> QED  BY <1>1, <2>1 DEF Reported, Reporting
<1>4. Requiring' = Requiring
  BY <1>1 DEF Requiring
<1>5. GL!PostProcessable
  BY <1>1, <1>2, <1>3, <1>4 DEF GL!PostProcessable, GL!fileVars, GL!lotVars, GL!wantVars, Shown,
     Requiring, WantedFiles, Reported, Signals, SegsOf
<1> QED  BY <1>5 DEF InLots, GL!GrabNext

LEMMA CallerInLots ==
    ASSUME OrderlyInv, StepInv, Caller
    PROVE  InLots
<1> /\ SharedOK /\ ThreadOK /\ CallerOK /\ InCall /\ Lots /\ TypeInv /\ CallerInStep
  BY DEF OrderlyInv, UntouchedInv, TypeInv, TypeOK, LotInv, StepInv
<1>1. ~EnqueueSegment => WantedFiles' = WantedFiles
  BY CallerMeetsNone, WantedSame
<1>2. ASSUME ~EnqueueSegment, UNCHANGED <<fRequired, doneFiles, required, Shown, pc, cur>>,
             mpc # "require" /\ mpc' # "require"
      PROVE  InLots
  <2>1. UNCHANGED <<Reported, Signals>>
    BY <1>2, ReportsSame
  <2> QED  BY <1>1, <1>2, <2>1, LotStutters DEF Lot, Requiring
<1> USE DEF Reads, fileVars, grabVars, thrVars
<1>3. CASE CallerAlone /\ UNCHANGED thrVars
  <2>1. CASE ResumedFile \/ RequireFile \/ ResetGrabbed
    <3>1. ~EnqueueSegment
      BY <2>1 DEF ResumedFile, RequireFile, ResetGrabbed, EnqueueSegment
    <3> QED  BY <1>1, <1>3, <2>1, <3>1, ResumedInLots, CountersInLots
  <2>2. CASE EnqueueSegment
    BY <1>3, <2>2, EnqueuesInLots
  <2>3. CASE ResumingFile
    <3>1. fState' = [fState EXCEPT ![thisFile] = "Resuming"] /\ fState[thisFile] = "Paused"
      BY <2>3 DEF ResumingFile, SetFile, CallerInStep
    <3>2. Shown' = Shown
      BY <3>1 DEF Shown, SharedOK
    <3> QED  BY <1>2, <1>3, <2>3, <3>2 DEF ResumingFile, SetFile, Visit, EnqueueSegment
  <2>4. CASE \/ CallGrabAll \/ CallGrabFile \/ CallPause \/ CallResume \/ LockGrabber
             \/ GrabNext \/ PauseNext \/ ResumeNext \/ ResumeFile \/ SegmentResumeRead
             \/ SegmentResumeSet \/ ResumeGrabs \/ GrabFileState \/ Enqueued \/ ShutDown
    <3>1. UNCHANGED <<fState, fRequired, doneFiles, required, pc, cur>>
      BY <1>3, <2>4 DEF CallGrabAll, CallGrabFile, CallPause, CallResume, LockGrabber,
         GrabNext, PauseNext, ResumeNext, ResumeFile, SegmentResumeRead, SegmentResumeSet,
         ResumeGrabs, GrabFileState, Enqueued, ShutDown, SetGrabber, SetSegment
    <3>2. Shown' = Shown
      BY <3>1 DEF Shown
    <3>3. CASE EnqueueSegment
      BY <2>2, <3>3
    <3>4. mpc # "require" /\ mpc' # "require"
      BY <2>4 DEF CallGrabAll, CallGrabFile, CallPause, CallResume, LockGrabber,
         GrabNext, PauseNext, ResumeNext, ResumeFile, SegmentResumeRead, SegmentResumeSet,
         ResumeGrabs, GrabFileState, Enqueued, ShutDown, Calling, Enter, Return, Step, Visit,
         NextFile, NextSegment, Resumed
    <3> QED  BY <1>2, <3>1, <3>2, <3>3, <3>4
  <2>5. ~PausingFile /\ ~PauseSegment /\ ~PausedFile
    BY LotNotPaused
  <2> QED  BY <1>3, <2>1, <2>2, <2>3, <2>4, <2>5 DEF CallerAlone
<1>4. ASSUME NEW t \in Threads, PostProcessable(t) PROVE InLots
  <2>1. ~EnqueueSegment
    BY <1>4 DEF PostProcessable, Calling, EnqueueSegment
  <2> QED  BY <1>1, <1>4, <2>1, SignalInLots
<1>5. CASE (CallShutdown \/ ShutdownStrategy) /\ UNCHANGED thrVars
  <2>1. UNCHANGED fState /\ ~EnqueueSegment /\ mpc # "require" /\ mpc' # "require"
    BY <1>5 DEF CallShutdown, ShutdownStrategy, Calling, Step, EnqueueSegment
  <2>2. Shown' = Shown
    BY <2>1 DEF Shown
  <2> QED  BY <1>2, <1>5, <2>1, <2>2 DEF CallShutdown, ShutdownStrategy
<1> QED  BY <1>3, <1>4, <1>5 DEF Caller

LEMMA NextInLots ==
    ASSUME OrderlyInv, WorkOK, StepInv, [Next]_vars
    PROVE  InLots
<1>1. CASE UNCHANGED vars
  <2>1. UNCHANGED <<segState, fState, fRequired, doneFiles, required, queue, pc, cur, mpc, mfiles>>
    BY <1>1 DEF vars, segVars, fileVars, grabVars, thrVars, mainVars
  <2>2. UNCHANGED <<Reported, Signals>> /\ WantedFiles' = WantedFiles
    BY <2>1, ReportsSame, WantedSame DEF Met, InQueue, IsCur
  <2>3. UNCHANGED <<Shown, Requiring>>
    BY <2>1 DEF Shown, Requiring, thisFile
  <2> QED  BY <2>1, <2>2, <2>3, LotStutters DEF Lot
<1> QED  BY <1>1, OthersInLots, CallerInLots DEF Next

LEMMA InitInLots ==
    ASSUME Init
    PROVE  GL!GrabInit
<1>1. Reported = {} /\ Signals = FALSE /\ Requiring = {}
  BY DEF Init, Reported, Reporting, Signals, Requiring, Threads
<1>2. WantedFiles = {}
  <2>1. \A s \in Segments : ~Met(s)
    BY GrabberAssumption DEF Init, Met, InQueue, IsCur, Listed, Threads
  <2> QED  BY <2>1, WantedMet DEF WantedFiles, SegsOf
<1>3. /\ Shown = [f \in Files |-> IF fRequired[f] THEN "Pending" ELSE "Paused"]
      /\ fRequired \in [Files -> BOOLEAN]
      /\ required = Cardinality({f \in Files : fRequired[f]}) /\ doneFiles = <<>>
  <2>1. {f \in Files : fRequired[f]} = InitRequired
    BY GrabberAssumption DEF Init
  <2>2. fRequired \in [Files -> BOOLEAN]
    BY DEF Init
  <2>3. \A f \in Files : Shown[f] = IF fRequired[f] THEN "Pending" ELSE "Paused"
    BY DEF Init, Shown
  <2>4. Shown = [f \in Files |-> IF fRequired[f] THEN "Pending" ELSE "Paused"]
    BY <2>3 DEF Shown
  <2> QED  BY <2>1, <2>2, <2>4 DEF Init
<1>4. [f \in Files |-> Cardinality(SegsOf(f))] \in [Files -> Nat]
  BY SegmentsFinite, FS_Subset, FS_CardinalityType DEF SegsOf
<1>5. /\ (IF mpc = "require" THEN {thisFile} ELSE {}) = {}
      /\ {f \in Files : IsWanted(f)} = {}
      /\ {FileOf[cur[t]] : t \in Reporting} = {}
  BY <1>1, <1>2 DEF Requiring, WantedFiles, Reported
<1>6. (\E t \in Threads : pc[t] = "signal") = FALSE
  BY <1>1 DEF Signals
<1>7. [f \in Files |-> IF fState[f] = "Resuming" THEN "Paused" ELSE fState[f]]
         = [f \in Files |-> IF fRequired[f] THEN "Pending" ELSE "Paused"]
  BY <1>3 DEF Shown
<1>8. \A S : GL!Cardinality(S) = Cardinality(S)
  BY DEF GL!Cardinality, Cardinality, GL!IsFiniteSet, IsFiniteSet
<1> QED  BY <1>3, <1>4, <1>5, <1>6, <1>7, <1>8 DEF GL!GrabInit

\* Whatever segments, servers, retries and goroutines do in between, files are resumed,
\* required, enqueued, worked on, done, reported and signalled as in GrabLots, each enqueued
\* and done once, so that what is proved of GrabLots, for any number of lots, holds of Grabber.
\* The caller waits for its lots, and grabs nothing while the Grabber is paused: a segment
\* that is grabbed then is dropped by the dispatcher.
THEOREM ImplementsGrabLots ==
    ASSUME LotAtATime, NotWhilePaused
    PROVE  Spec => IsGrabLots
<1>1. Init => OrderlyInv /\ WorkOK /\ StepInv /\ GL!GrabInit
  BY InitOrderly, InitWork, InitStep, InitInLots
<1>2. OrderlyInv /\ WorkOK /\ StepInv /\ [Next]_vars => (OrderlyInv /\ WorkOK /\ StepInv)'
  BY NextOrderly, NextWork, NextStep
<1>3. OrderlyInv /\ WorkOK /\ StepInv /\ [Next]_vars => [GL!GrabNext]_(GL!grabVars)
  BY NextInLots DEF InLots
<1> QED  BY <1>1, <1>2, <1>3, PTL DEF Spec, Safety, IsGrabLots, GL!GrabSpec
=============================================================================
