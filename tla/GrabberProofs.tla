---------------------------- MODULE GrabberProofs ----------------------------
(***************************************************************************)
(* Proofs about Grabber, for every NZB, every Strategy and every sequence   *)
(* of calls: type correctness, and the safety properties that hold whatever *)
(* the caller does.                                                         *)
(***************************************************************************)
EXTENDS Grabber, RetryPolicyProofs, SequenceTheorems, FiniteSetTheorems

\* Where the caller is inside a loop over files.
FilePC == {"pausing", "pauseSegs", "resume", "resuming", "resumeSegs", "resumeSeg",
           "require", "stillPending", "reset", "grab", "enqueue"}

\* The caller only looks at a current call, file or segment that there is.
InCall ==
    /\ mpc # "idle" => calls # <<>>
    /\ mpc \in FilePC => mfiles # <<>>
    /\ mpc = "resumeSeg" => msegs # <<>>

\* The type invariant is inductive with the caller's place in its loops.
TypeInv == TypeOK /\ InCall

LEMMA SeqFacts ==
    ASSUME NEW S, NEW q \in Seq(S)
    PROVE  /\ q # <<>> => Head(q) \in S /\ Tail(q) \in Seq(S)
           /\ \A x \in S : Append(q, x) \in Seq(S)
BY HeadTailProperties

LEMMA InitTypeInv == Init => TypeInv
<1> SUFFICES ASSUME Init PROVE TypeInv
  OBVIOUS
<1>1. Cardinality(InitRequired) \in Nat
  BY GrabberAssumption, FS_Subset, FS_CardinalityType
<1>2. NewHistory \in Histories /\ calls \in Seq(Calls)
  BY HistoryTypes, GrabberAssumption DEF Init
<1>3. SharedOK
  BY <1>1, <1>2, GrabberAssumption DEF Init, SharedOK, States
<1>4. ThreadOK
  BY DEF Init, ThreadOK, DispatcherPC
<1>5. CallerOK /\ InCall
  BY <1>2 DEF Init, CallerOK, MainPC, InCall, FilePC
<1> QED  BY <1>3, <1>4, <1>5 DEF TypeInv, TypeOK, Init

-----------------------------------------------------------------------------
\* What the helpers do to the types.

SegStates == States \ {"Resuming"}

LEMMA SharedSteps ==
    ASSUME SharedOK
    PROVE  /\ Reads => SharedOK'
           /\ \A x : \A st \in SegStates : SetSegment(x, st) => SharedOK'
           /\ \A x : \A h \in Histories :
                 SetHistory(x, h) /\ asked' \in [Requests -> Nat] => SharedOK'
           /\ \A x : \A st \in States : SetFile(x, st) => SharedOK'
           /\ \A st \in {"Pending", "Working", "Paused"} : SetGrabber(st) => SharedOK'
           /\ \A q \in Seq(Files), n \in Nat : SetCounters(q, n) => SharedOK'
           /\ \A q \in Seq(Segments) : SetQueue(q) => SharedOK'
<1> USE DEF SharedOK, segVars, fileVars, grabVars, netVars
<1>1. Reads => SharedOK'
  BY DEF Reads
<1>2. \A x : \A st \in SegStates : SetSegment(x, st) => SharedOK'
  BY DEF SetSegment, SegStates
<1>3. \A x : \A h \in Histories :
          SetHistory(x, h) /\ asked' \in [Requests -> Nat] => SharedOK'
  BY DEF SetHistory
<1>4. \A x : \A st \in States : SetFile(x, st) => SharedOK'
  BY DEF SetFile
<1>5. \A st \in {"Pending", "Working", "Paused"} : SetGrabber(st) => SharedOK'
  BY DEF SetGrabber
<1>6. \A q \in Seq(Files), n \in Nat : SetCounters(q, n) => SharedOK'
  BY DEF SetCounters
<1>7. \A q \in Seq(Segments) : SetQueue(q) => SharedOK'
  BY DEF SetQueue
<1> QED  BY <1>1, <1>2, <1>3, <1>4, <1>5, <1>6, <1>7

LEMMA ThreadSteps ==
    ASSUME ThreadOK, NEW t \in Threads
    PROVE  /\ \A l \in DispatcherPC \cup ResponderPC : Goto(t, l) => ThreadOK'
           /\ \A l \in DispatcherPC \cup ResponderPC, s \in Segments : Begin(t, l, s) => ThreadOK'
           /\ Finish(t) => ThreadOK'
           /\ AfterDone(t) => ThreadOK'
BY DEF ThreadOK, Goto, Begin, Finish, AfterDone, DispatcherPC, ResponderPC

LEMMA AskedSteps ==
    ASSUME NEW a \in [Requests -> Nat], NEW r
    PROVE  /\ [a EXCEPT ![r] = @ + 1] \in [Requests -> Nat]
           /\ a[r] > 0 => [a EXCEPT ![r] = @ - 1] \in [Requests -> Nat]
<1>1. CASE r \in Requests
  <2>1. a[r] \in Nat
    BY <1>1
  <2>2. a[r] + 1 \in Nat /\ (a[r] > 0 => a[r] - 1 \in Nat)
    BY <2>1
  <2> QED  BY <2>2
<1>2. CASE r \notin Requests
  BY <1>2
<1> QED  BY <1>1, <1>2

\* Segment.Done and what it calls, by either goroutine.
LEMMA DoneType ==
    ASSUME SharedOK, ThreadOK, NEW t \in Threads, NEW s \in Segments, Done(t, s)
    PROVE  SharedOK' /\ ThreadOK'
<1> USE DEF DispatcherPC, DonePC, States, SegStates
<1>1. FileOf[s] \in Files
  BY GrabberAssumption
<1>2. CASE DoneCheck(t, s)
  BY <1>2, SharedSteps, ThreadSteps DEF DoneCheck
<1>3. CASE DoneWrite(t, s)
  <2>1. SharedOK'
    BY <1>3 DEF DoneWrite, SharedOK, fileVars, grabVars, netVars
  <2> QED  BY <1>3, <2>1, ThreadSteps DEF DoneWrite
<1>4. CASE SegmentDone(t, FileOf[s])
  <2>1. SharedOK'
    BY <1>1, <1>4 DEF SegmentDone, SharedOK, segVars, grabVars, netVars
  <2> QED  BY <1>4, <2>1, ThreadSteps DEF SegmentDone
<1>5. CASE FileDone(t, FileOf[s])
  BY <1>5, SharedSteps, ThreadSteps DEF FileDone
<1>6. CASE ReportFile(t, FileOf[s])
  <2>1. Append(doneFiles, FileOf[s]) \in Seq(Files) /\ required \in Nat
    BY <1>1, SeqFacts DEF SharedOK
  <2> QED  BY <1>6, <2>1, SharedSteps, ThreadSteps DEF ReportFile
<1> QED  BY <1>2, <1>3, <1>4, <1>5, <1>6 DEF Done

LEMMA DispatcherType ==
    ASSUME TypeInv, Dispatcher
    PROVE  SharedOK' /\ ThreadOK'
<1> SharedOK /\ ThreadOK
  BY DEF TypeInv, TypeOK
<1> USE DEF Threads, DispatcherPC, DonePC, States, SegStates
<1>1. CASE Dequeue
  <2>1. Head(queue) \in Segments /\ Tail(queue) \in Seq(Segments)
    BY <1>1, SeqFacts DEF Dequeue, SharedOK
  <2> QED  BY <1>1, <2>1, SharedSteps, ThreadSteps DEF Dequeue
<1>2. CASE ExitDispatcher
  BY <1>2, SharedSteps, ThreadSteps DEF ExitDispatcher
<1>3. CASE SegFailed
  <2>1. SharedOK'
    BY <1>3 DEF SegFailed, SharedOK, segVars, fileVars, netVars
  <2> QED  BY <1>3, <2>1, ThreadSteps DEF SegFailed
<1>4. ASSUME NEW s \in Segments, Dispatch(s) PROVE SharedOK' /\ ThreadOK'
  <2>1. CASE SegmentWorkingRead(s)
    BY <2>1, SharedSteps, ThreadSteps DEF SegmentWorkingRead
  <2>2. CASE FileWorkingRead(FileOf[s])
    BY <2>2, SharedSteps, ThreadSteps DEF FileWorkingRead
  <2>3. CASE FileWorkingSet(FileOf[s])
    BY <2>3, SharedSteps, ThreadSteps DEF FileWorkingSet
  <2>4. CASE GrabberWorkingRead
    BY <2>4, SharedSteps, ThreadSteps DEF GrabberWorkingRead
  <2>5. CASE GrabberWorkingSet
    BY <2>5, SharedSteps, ThreadSteps DEF GrabberWorkingSet
  <2>6. CASE SegmentWorkingSet(s)
    BY <2>6, SharedSteps, ThreadSteps DEF SegmentWorkingSet
  <2>7. CASE CannotCreate(s) \/ GiveUp(s)
    BY <2>7, SharedSteps, ThreadSteps DEF CannotCreate, GiveUp
  <2>8. CASE Skip(s)
    <3>1. hist[s] \in Histories /\ ~NoMoreServers(hist[s]) /\ asked \in [Requests -> Nat]
      BY <2>8 DEF Skip, SharedOK
    <3>2. FailServer(hist[s], SelectServer(hist[s])) \in Histories
      BY <3>1, SelectServerSpec, HistoryTypes
    <3> QED  BY <2>8, <3>1, <3>2, SharedSteps, ThreadSteps DEF Skip
  <2>9. CASE Choose(s)
    <3>1. hist[s] \in Histories /\ ~NoMoreServers(hist[s])
      BY <2>9 DEF Choose, SharedOK
    <3>2. GroupSeq[s] \in Seq(Groups) /\ ~NoMoreGroups(hist[s], GroupSeq[s])
      BY <2>9, GrabberAssumption DEF Choose, Useless
    <3>3. req' \in Servers \X Groups
      BY <2>9, <3>1, <3>2, SelectServerSpec, SelectGroupSpec DEF Choose
    <3>4. SharedOK'
      BY <2>9, SharedSteps DEF Choose
    <3> QED  BY <2>9, <3>3, <3>4 DEF Choose, ThreadOK
  <2>10. CASE Grab(s)
    <3>1. asked' \in [Requests -> Nat]
      BY <2>10, AskedSteps DEF Grab, SharedOK
    <3>2. SharedOK'
      BY <2>10, <3>1 DEF Grab, SharedOK, segVars, fileVars, grabVars
    <3> QED  BY <2>10, <3>2, ThreadSteps DEF Grab
  <2> QED  BY <1>4, <2>1, <2>2, <2>3, <2>4, <2>5, <2>6, <2>7, <2>8, <2>9, <2>10 DEF Dispatch
<1> QED  BY <1>1, <1>2, <1>3, <1>4, DoneType DEF Dispatcher

-----------------------------------------------------------------------------
LEMMA ResponderType ==
    ASSUME TypeInv, Responder
    PROVE  SharedOK' /\ ThreadOK'
<1> SharedOK /\ ThreadOK
  BY DEF TypeInv, TypeOK
<1> USE DEF Threads, ResponderPC, DonePC
<1>1. CASE ExitResponder
  BY <1>1, SharedSteps, ThreadSteps DEF ExitResponder
<1>2. ASSUME NEW s \in Segments, Requeue(s) PROVE SharedOK' /\ ThreadOK'
  <2>1. Append(queue, s) \in Seq(Segments)
    BY SeqFacts DEF SharedOK
  <2> QED  BY <1>2, <2>1, SharedSteps, ThreadSteps DEF Requeue
<1>3. ASSUME NEW r \in Requests, Grabbed(r) PROVE SharedOK' /\ ThreadOK'
  <2>1. asked' \in [Requests -> Nat]
    BY <1>3, AskedSteps DEF Grabbed, SharedOK
  <2>2. SharedOK'
    BY <1>3, <2>1 DEF Grabbed, SharedOK, segVars, fileVars, grabVars
  <2>3. r[1] \in Segments
    BY DEF Requests
  <2> QED  BY <1>3, <2>2, <2>3, ThreadSteps DEF Grabbed
<1>4. ASSUME NEW r \in Requests, NEW err \in Errors, Failed(r, err)
      PROVE  SharedOK' /\ ThreadOK'
  <2>1. asked' \in [Requests -> Nat]
    BY <1>4, AskedSteps DEF Failed, SharedOK
  <2>2. r[1] \in Segments /\ r[2] \in Servers /\ r[3] \in Groups
    BY DEF Requests
  <2>3. HandleError(hist[r[1]], err, r[2], r[3]) \in Histories
    BY <2>2, HandleErrorType DEF SharedOK
  <2>4. SharedOK'
    BY <1>4, <2>1, <2>3, SharedSteps DEF Failed
  <2> QED  BY <1>4, <2>2, <2>4, ThreadSteps DEF Failed
<1> QED  BY <1>1, <1>2, <1>3, <1>4, DoneType DEF Responder

LEMMA NetworkType ==
    ASSUME SharedOK, Network
    PROVE  SharedOK'
<1>1. ASSUME NEW r \in Requests, ServerDies(r) PROVE SharedOK'
  <2>1. asked' \in [Requests -> Nat]
    BY <1>1, AskedSteps DEF ServerDies, SharedOK
  <2>2. r[1] \in Segments
    BY DEF Requests
  <2> QED  BY <1>1, <2>1, <2>2 DEF ServerDies, SharedOK, segVars, fileVars, grabVars
<1>2. ASSUME NEW srv \in Servers, Reconnect(srv) PROVE SharedOK'
  BY <1>2 DEF Reconnect, SharedOK, segVars, fileVars, grabVars
<1> QED  BY <1>1, <1>2 DEF Network

-----------------------------------------------------------------------------
\* The caller's steps in its loops.

LEMMA CallerSteps ==
    ASSUME CallerOK, InCall
    PROVE  /\ \A l \in MainPC \ FilePC : mpc # "idle" /\ Step(l) => CallerOK' /\ InCall'
           /\ \A l \in FilePC \ {"resumeSeg"} :
                 mpc # "idle" /\ mfiles # <<>> /\ Step(l) => CallerOK' /\ InCall'
           /\ \A l \in FilePC \ {"resumeSeg"} :
                 mpc \in FilePC /\ Visit(l) => CallerOK' /\ InCall'
           /\ \A l \in FilePC \ {"resumeSeg"} :
                 mpc \in FilePC /\ msegs # <<>> /\ NextSegment(l) => CallerOK' /\ InCall'
           /\ mpc # "idle" /\ mfiles # <<>> /\ NextFile => CallerOK' /\ InCall'
           /\ \A fs \in Seq(Files) :
                 /\ \A l \in MainPC \ FilePC :
                       calls # <<>> /\ Enter(l, fs) => CallerOK' /\ InCall'
                 /\ calls # <<>> /\ fs # <<>> /\ Enter("reset", fs) => CallerOK' /\ InCall'
           /\ calls # <<>> /\ Return => CallerOK' /\ InCall'
<1> USE DEF CallerOK, InCall, MainPC, FilePC
<1>1. mfiles # <<>> => thisFile \in Files /\ Tail(mfiles) \in Seq(Files)
  BY SeqFacts DEF thisFile
<1>2. msegs # <<>> => Tail(msegs) \in Seq(Segments)
  BY SeqFacts
<1>3. calls # <<>> => Tail(calls) \in Seq(Calls)
  BY SeqFacts
<1>4. \A f \in Files : SegSeq[f] \in Seq(Segments)
  BY GrabberAssumption
<1>5. \A l \in MainPC \ FilePC : mpc # "idle" /\ Step(l) => CallerOK' /\ InCall'
  BY DEF Step
<1>6. \A l \in FilePC \ {"resumeSeg"} :
         mpc # "idle" /\ mfiles # <<>> /\ Step(l) => CallerOK' /\ InCall'
  BY DEF Step
<1>7. \A l \in FilePC \ {"resumeSeg"} :
         mpc \in FilePC /\ Visit(l) => CallerOK' /\ InCall'
  BY <1>1, <1>4 DEF Visit
<1>8. \A l \in FilePC \ {"resumeSeg"} :
         mpc \in FilePC /\ msegs # <<>> /\ NextSegment(l) => CallerOK' /\ InCall'
  BY <1>2 DEF NextSegment
<1>9. mpc # "idle" /\ mfiles # <<>> /\ NextFile => CallerOK' /\ InCall'
  BY <1>1 DEF NextFile
<1>10. \A fs \in Seq(Files) :
         /\ \A l \in MainPC \ FilePC : calls # <<>> /\ Enter(l, fs) => CallerOK' /\ InCall'
         /\ calls # <<>> /\ fs # <<>> /\ Enter("reset", fs) => CallerOK' /\ InCall'
  BY DEF Enter
<1>11. calls # <<>> /\ Return => CallerOK' /\ InCall'
  BY <1>3 DEF Return
<1> QED  BY <1>5, <1>6, <1>7, <1>8, <1>9, <1>10, <1>11

\* What is at hand in the middle of a call.
LEMMA AtHand ==
    ASSUME CallerOK, InCall
    PROVE  /\ mpc \in FilePC => thisFile \in Files
           /\ mpc = "resumeSeg" \/ msegs # <<>> => Head(msegs) \in Segments
           /\ mfiles # <<>> => thisFile \in Files
           /\ calls # <<>> /\ Op = "GrabFile" => Head(calls)[2] \in Files
<1>1. calls # <<>> => Head(calls) \in Calls
  BY SeqFacts DEF CallerOK
<1>2. calls # <<>> /\ Op = "GrabFile" => Head(calls)[2] \in Files
  BY <1>1 DEF Calls, Ops, Op
<1> QED  BY <1>2, SeqFacts DEF CallerOK, InCall, thisFile, FilePC

LEMMA CallerAloneType ==
    ASSUME TypeInv, CallerAlone
    PROVE  SharedOK' /\ CallerOK' /\ InCall'
<1> SharedOK /\ CallerOK /\ InCall
  BY DEF TypeInv, TypeOK
<1> USE DEF MainPC, FilePC
<1>1. CASE CallGrabAll
  <2>1. FileSeq \in Seq(Files)
    BY GrabberAssumption
  <2> QED  BY <1>1, <2>1, SharedSteps, CallerSteps DEF CallGrabAll, Calling
<1>2. CASE CallGrabFile
  <2>1. <<Head(calls)[2]>> \in Seq(Files)
    BY <1>2, AtHand DEF CallGrabFile, Calling
  <2> QED  BY <1>2, <2>1, SharedSteps, CallerSteps DEF CallGrabFile, Calling
<1>3. CASE CallPause \/ CallResume
  <2>1. FileSeq \in Seq(Files)
    BY GrabberAssumption
  <2> QED  BY <1>3, <2>1, SharedSteps, CallerSteps DEF CallPause, CallResume, Calling
<1>4. CASE LockGrabber \/ ShutDown
  BY <1>4, SharedSteps, CallerSteps DEF LockGrabber, ShutDown, InCall
<1>5. CASE GrabNext
  BY <1>5, SharedSteps, CallerSteps DEF GrabNext, InCall
<1>6. CASE PauseNext
  <2>1. SharedOK'
    BY <1>6, SharedSteps DEF PauseNext
  <2> QED  BY <1>6, <2>1, CallerSteps DEF PauseNext, InCall
<1>7. CASE PausingFile
  BY <1>7, SharedSteps, CallerSteps DEF PausingFile, States
<1>8. CASE PauseSegment
  <2>1. Head(msegs) \in Segments
    BY <1>8, AtHand DEF PauseSegment
  <2>2. segState[Head(msegs)] \in SegStates
    BY <2>1 DEF SharedOK, SegStates
  <2>3. \E st \in SegStates : SetSegment(Head(msegs), st)
    BY <1>8, <2>2 DEF PauseSegment, SegStates, States
  <2> QED  BY <1>8, <2>3, SharedSteps, CallerSteps DEF PauseSegment
<1>9. CASE PausedFile
  BY <1>9, SharedSteps, CallerSteps DEF PausedFile, States, InCall
<1>10. CASE ResumeNext
  <2>1. SharedOK'
    BY <1>10, SharedSteps DEF ResumeNext
  <2> QED  BY <1>10, <2>1, CallerSteps DEF ResumeNext, InCall
<1>11. CASE ResumeFile
  BY <1>11, SharedSteps, CallerSteps DEF ResumeFile, Resumed, InCall
<1>12. CASE ResumingFile
  BY <1>12, SharedSteps, CallerSteps DEF ResumingFile, States
<1>13. CASE SegmentResumeRead
  <2>1. SharedOK'
    BY <1>13, SharedSteps DEF SegmentResumeRead
  <2>2. CASE Step("resumeSeg")
    <3>1. mpc = "resumeSegs" /\ msegs # <<>> /\ mfiles # <<>> /\ calls # <<>>
      BY <1>13 DEF SegmentResumeRead, InCall
    <3>2. mpc' = "resumeSeg" /\ UNCHANGED <<calls, mfiles, msegs>>
      BY <2>2 DEF Step
    <3> QED  BY <2>1, <3>1, <3>2 DEF CallerOK, InCall
  <2> QED  BY <1>13, <2>1, <2>2, CallerSteps DEF SegmentResumeRead
<1>14. CASE SegmentResumeSet
  BY <1>14, SharedSteps, CallerSteps DEF SegmentResumeSet, SegStates, States, InCall
<1>15. CASE ResumedFile
  <2>1. thisFile \in Files
    BY <1>15, AtHand DEF ResumedFile
  <2>2. SharedOK'
    BY <1>15, <2>1 DEF ResumedFile, SharedOK, States, segVars, grabVars, netVars
  <2> QED  BY <1>15, <2>2, CallerSteps DEF ResumedFile, Resumed, InCall
<1>16. CASE RequireFile
  <2>1. SharedOK'
    BY <1>16, SharedSteps DEF RequireFile, SharedOK
  <2> QED  BY <1>16, <2>1, CallerSteps DEF RequireFile, Resumed, InCall
<1>17. CASE ResumeGrabs
  BY <1>17, SharedSteps, CallerSteps DEF ResumeGrabs, InCall
<1>18. CASE ResetGrabbed
  <2>1. SharedOK'
    <3>1. <<>> \in Seq(Files) /\ 0 \in Nat
      OBVIOUS
    <3> QED  BY <1>18, <3>1, SharedSteps DEF ResetGrabbed
  <2> QED  BY <1>18, <2>1, CallerSteps DEF ResetGrabbed, InCall
<1>19. CASE GrabFileState
  BY <1>19, SharedSteps, CallerSteps DEF GrabFileState, InCall
<1>20. CASE EnqueueSegment
  <2>1. Append(queue, Head(msegs)) \in Seq(Segments)
    BY <1>20, AtHand, SeqFacts DEF EnqueueSegment, SharedOK
  <2> QED  BY <1>20, <2>1, SharedSteps, CallerSteps DEF EnqueueSegment
<1>21. CASE Enqueued
  BY <1>21, SharedSteps, CallerSteps DEF Enqueued, InCall
<1> QED
  BY <1>1, <1>2, <1>3, <1>4, <1>5, <1>6, <1>7, <1>8, <1>9, <1>10, <1>11, <1>12, <1>13,
     <1>14, <1>15, <1>16, <1>17, <1>18, <1>19, <1>20, <1>21 DEF CallerAlone

LEMMA CallerType ==
    ASSUME TypeInv, Caller
    PROVE  TypeInv'
<1> SharedOK /\ ThreadOK /\ CallerOK /\ InCall
  BY DEF TypeInv, TypeOK
<1> USE DEF TypeInv, TypeOK, dieVars
<1>1. CASE CallerAlone /\ UNCHANGED <<thrVars, dieVars>>
  <2>1. ThreadOK'
    BY <1>1 DEF ThreadOK, thrVars
  <2> QED  BY <1>1, <2>1, CallerAloneType
<1>2. ASSUME NEW t \in Threads, PostProcessable(t), UNCHANGED dieVars PROVE TypeInv'
  <2>1. SharedOK' /\ ThreadOK'
    BY <1>2, SharedSteps, ThreadSteps DEF PostProcessable
  <2>2. CallerOK' /\ InCall'
    BY <1>2, CallerSteps DEF PostProcessable, Calling
  <2> QED  BY <1>2, <2>1, <2>2
<1>3. CASE CallShutdown /\ UNCHANGED thrVars
  <2>1. SharedOK' /\ ThreadOK'
    BY <1>3, SharedSteps DEF CallShutdown, ThreadOK, thrVars
  <2>2. CallerOK' /\ InCall'
    BY <1>3 DEF CallShutdown, Calling, Step, CallerOK, InCall, MainPC, FilePC
  <2> QED  BY <1>3, <2>1, <2>2 DEF CallShutdown
<1>4. CASE ShutdownStrategy /\ UNCHANGED thrVars
  <2>1. SharedOK' /\ ThreadOK'
    BY <1>4 DEF ShutdownStrategy, SharedOK, ThreadOK, segVars, fileVars, grabVars, thrVars
  <2>2. CallerOK' /\ InCall'
    BY <1>4, CallerSteps DEF ShutdownStrategy, MainPC, FilePC
  <2> QED  BY <1>4, <2>1, <2>2 DEF ShutdownStrategy
<1> QED  BY <1>1, <1>2, <1>3, <1>4 DEF Caller

-----------------------------------------------------------------------------
LEMMA NextTypeInv ==
    ASSUME TypeInv, [Next]_vars
    PROVE  TypeInv'
<1> SharedOK /\ ThreadOK /\ CallerOK /\ InCall
  BY DEF TypeInv, TypeOK
<1> USE DEF TypeInv, TypeOK
<1>1. UNCHANGED mainVars => CallerOK' /\ InCall'
  BY DEF mainVars, CallerOK, InCall
<1>2. CASE Dispatcher
  BY <1>1, <1>2, DispatcherType DEF Dispatcher, dieVars
<1>3. CASE Responder
  BY <1>1, <1>3, ResponderType DEF Responder, dieVars
<1>4. CASE Network
  BY <1>1, <1>4, NetworkType DEF Network, ThreadOK, thrVars, dieVars
<1>5. CASE Caller
  BY <1>5, CallerType
<1>6. CASE UNCHANGED vars
  BY <1>6 DEF vars, segVars, fileVars, grabVars, netVars, thrVars, mainVars, dieVars,
              SharedOK, ThreadOK, CallerOK, InCall
<1> QED  BY <1>2, <1>3, <1>4, <1>5, <1>6 DEF Next

\* Every variable of the Grabber keeps its type, for every NZB and every
\* sequence of calls: the caller is never at a file, a segment or a call that
\* is not there.
THEOREM TypeCorrect == Spec => []TypeOK
<1>1. TypeInv => TypeOK
  BY DEF TypeInv
<1> QED  BY <1>1, InitTypeInv, NextTypeInv, PTL DEF Spec, Safety

-----------------------------------------------------------------------------
\* doneMx: while FileDone waits for its signal to be received, nobody changes
\* what it tested.

Signalling(t) == pc[t] = "signal"

\* A step that changes neither the counters nor, but for the better, who signals.
Silent == /\ UNCHANGED <<doneFiles, required>>
          /\ \A t \in Threads : Signalling(t)' => Signalling(t)

LEMMA DoneSilent ==
    ASSUME ThreadOK, NEW t \in Threads, NEW s \in Segments, Done(t, s)
    PROVE  \/ Silent
           \/ DoneMxFree /\ ((\E u \in Threads : Signalling(u)') => isPostProcessable')
<1> USE DEF ThreadOK, Silent, Signalling, AfterDone, Goto, Finish
<1>1. CASE DoneCheck(t, s)
  BY <1>1 DEF DoneCheck, Reads, grabVars
<1>2. CASE DoneWrite(t, s)
  BY <1>2 DEF DoneWrite, grabVars
<1>3. CASE SegmentDone(t, FileOf[s])
  BY <1>3 DEF SegmentDone, grabVars
<1>4. CASE FileDone(t, FileOf[s])
  BY <1>4 DEF FileDone, SetFile, grabVars
<1>5. CASE ReportFile(t, FileOf[s])
  <2>1. DoneMxFree
    BY <1>5 DEF ReportFile
  <2>2. isPostProcessable' \/ \A u \in Threads : ~Signalling(u)'
    BY <1>5, <2>1 DEF ReportFile, DoneMxFree
  <2> QED  BY <2>1, <2>2
<1> QED  BY <1>1, <1>2, <1>3, <1>4, <1>5 DEF Done

LEMMA DispatchSilent ==
    ASSUME ThreadOK, NEW s \in Segments, Dispatch(s)
    PROVE  Silent
<1> USE DEF ThreadOK, Silent, Signalling, Goto, Finish, Reads, grabVars, Threads
<1>1. CASE SegmentWorkingRead(s) \/ FileWorkingRead(FileOf[s]) \/ FileWorkingSet(FileOf[s])
  BY <1>1 DEF SegmentWorkingRead, FileWorkingRead, FileWorkingSet, SetFile
<1>2. CASE GrabberWorkingRead \/ GrabberWorkingSet \/ SegmentWorkingSet(s)
  BY <1>2 DEF GrabberWorkingRead, GrabberWorkingSet, SegmentWorkingSet, SetGrabber, SetSegment
<1>3. CASE CannotCreate(s) \/ GiveUp(s) \/ Skip(s)
  BY <1>3 DEF CannotCreate, GiveUp, Skip, SetHistory
<1>4. CASE Choose(s) \/ Grab(s)
  BY <1>4 DEF Choose, Grab
<1> QED  BY <1>1, <1>2, <1>3, <1>4 DEF Dispatch

LEMMA CallerSilent ==
    ASSUME ThreadOK, Caller
    PROVE  Silent \/ (DoneMxFree /\ \A t \in Threads : ~Signalling(t)')
<1> USE DEF Silent, Signalling, Reads, grabVars, thrVars
<1>1. CASE ShutdownStrategy \/ CallShutdown \/ \E t \in Threads : PostProcessable(t)
  BY <1>1 DEF Caller, ShutdownStrategy, CallShutdown, PostProcessable, AfterDone, Goto,
              Finish, ThreadOK
<1>2. CASE (RequireFile \/ ResetGrabbed) /\ UNCHANGED thrVars
  BY <1>2 DEF DoneMxFree, RequireFile, ResetGrabbed
<1>3. CASE CallerAlone /\ UNCHANGED thrVars /\ ~(RequireFile \/ ResetGrabbed)
  BY <1>3 DEF CallerAlone, CallGrabAll, CallGrabFile, CallPause, CallResume, LockGrabber,
       GrabNext, PauseNext, PausingFile, PauseSegment, PausedFile, ResumeNext, ResumeFile,
       ResumingFile, SegmentResumeRead, SegmentResumeSet, ResumedFile, ResumeGrabs,
       GrabFileState, EnqueueSegment, Enqueued, ShutDown, SetGrabber, SetFile, SetSegment,
       SetQueue
<1> QED  BY <1>1, <1>2, <1>3 DEF Caller

LEMMA SignalStep ==
    ASSUME TypeInv, SignalTruthful, [Next]_vars
    PROVE  SignalTruthful'
<1> ThreadOK
  BY DEF TypeInv, TypeOK
<1>1. ASSUME Silent PROVE SignalTruthful'
  BY <1>1 DEF Silent, SignalTruthful, Signalling, isPostProcessable
<1>2. CASE Dispatcher
  <2>1. CASE Dequeue \/ ExitDispatcher \/ SegFailed
    <3>1. Silent
      BY <2>1 DEF Silent, Signalling, Dequeue, ExitDispatcher, SegFailed, SetQueue, Reads,
                  Begin, Goto, Finish, ThreadOK, Threads, grabVars
    <3> QED  BY <3>1, <1>1
  <2>2. ASSUME NEW s \in Segments, Dispatch(s) PROVE SignalTruthful'
    BY <1>1, <2>2, DispatchSilent
  <2>3. ASSUME NEW s \in Segments, Done("dispatcher", s) PROVE SignalTruthful'
    BY <1>1, <2>3, DoneSilent DEF SignalTruthful, Signalling, Threads
  <2> QED  BY <1>2, <2>1, <2>2, <2>3 DEF Dispatcher
<1>3. CASE Responder
  <2>1. CASE ExitResponder \/ \E s \in Segments : Requeue(s)
    <3>1. Silent
      BY <2>1 DEF Silent, Signalling, ExitResponder, Requeue, SetQueue, Reads,
                  Goto, Finish, ThreadOK, Threads, grabVars
    <3> QED  BY <3>1, <1>1
  <2>2. ASSUME NEW s \in Segments, Done("responder", s) PROVE SignalTruthful'
    BY <1>1, <2>2, DoneSilent DEF SignalTruthful, Signalling, Threads
  <2>3. ASSUME NEW r \in Requests, Grabbed(r) \/ \E err \in Errors : Failed(r, err)
        PROVE  SignalTruthful'
    <3>1. Silent
      BY <2>3 DEF Silent, Signalling, Grabbed, Failed, SetHistory,
                  Begin, ThreadOK, Threads, grabVars
    <3> QED  BY <3>1, <1>1
  <2> QED  BY <1>3, <2>1, <2>2, <2>3 DEF Responder
<1>4. CASE Network
  <2>1. Silent
    BY <1>4 DEF Silent, Signalling, Network, ServerDies, Reconnect, grabVars, thrVars
  <2> QED  BY <2>1, <1>1
<1>5. CASE Caller
  BY <1>1, <1>5, CallerSilent DEF SignalTruthful, Signalling
<1>6. CASE UNCHANGED vars
  <2>1. Silent
    BY <1>6 DEF vars, Silent, Signalling, grabVars, thrVars
  <2> QED  BY <2>1, <1>1
<1> QED  BY <1>2, <1>3, <1>4, <1>5, <1>6 DEF Next

\* The signal that PostProcessable() receives is never out of date: the files
\* counted when FileDone decided to send it are still counted when it is
\* received, however late, whatever the caller grabs and resumes meanwhile.
THEOREM SignalIsTruthful == Spec => []SignalTruthful
<1>1. Init => SignalTruthful
  BY DEF Init, SignalTruthful
<1>2. TypeInv /\ SignalTruthful /\ [Next]_vars => (TypeInv /\ SignalTruthful)'
  BY NextTypeInv, SignalStep
<1> QED  BY <1>1, <1>2, InitTypeInv, PTL DEF Spec, Safety

-----------------------------------------------------------------------------
\* Shutdown's order.

\* The caller is past waiting for enqueueT only when the dispatcher is gone.
EnqueueGone == mpc = "waitGrab" => pc["dispatcher"] = "exited"

LEMMA DispatcherGone ==
    ASSUME pc["dispatcher"] = "exited"
    PROVE  ~Dispatcher
BY DEF Dispatcher, Dequeue, ExitDispatcher, SegFailed, Dispatch, SegmentWorkingRead,
       FileWorkingRead, FileWorkingSet, GrabberWorkingRead, GrabberWorkingSet,
       SegmentWorkingSet, CannotCreate, GiveUp, Skip, Choose, Grab, Done, DoneCheck,
       DoneWrite, SegmentDone, FileDone, ReportFile, At

\* Only the dispatcher makes requests.
LEMMA OthersDoNotAsk ==
    ASSUME SharedOK, Responder \/ Network \/ Caller \/ UNCHANGED vars
    PROVE  \A r \in Requests : asked'[r] <= asked[r]
<1> USE DEF SharedOK, Reads, netVars
<1>1. CASE Responder
  <2>1. ASSUME NEW s \in Segments, Done("responder", s) PROVE UNCHANGED asked
    BY <2>1 DEF Done, DoneCheck, DoneWrite, SegmentDone, FileDone, ReportFile, SetFile,
                SetCounters
  <2>2. ASSUME NEW r \in Requests, Grabbed(r) \/ \E err \in Errors : Failed(r, err)
        PROVE  \A q \in Requests : asked'[q] <= asked[q]
    <3>1. asked' = [asked EXCEPT ![r] = @ - 1]
      BY <2>2 DEF Grabbed, Failed
    <3> QED  BY <3>1
  <2>3. ASSUME ExitResponder \/ \E s \in Segments : Requeue(s) PROVE UNCHANGED asked
    BY <2>3 DEF ExitResponder, Requeue, SetQueue
  <2>4. UNCHANGED asked \/ \A q \in Requests : asked'[q] <= asked[q]
    BY <1>1, <2>1, <2>2, <2>3 DEF Responder, Threads
  <2> QED  BY <2>4
<1>2. CASE Network
  BY <1>2 DEF Network, ServerDies, Reconnect
<1>3. CASE Caller
  <2>1. UNCHANGED asked
    BY <1>3 DEF Caller, CallerAlone, CallGrabAll, CallGrabFile, CallPause, CallResume,
       LockGrabber, GrabNext, PauseNext, PausingFile, PauseSegment, PausedFile, ResumeNext,
       ResumeFile, ResumingFile, SegmentResumeRead, SegmentResumeSet, ResumedFile,
       RequireFile, ResumeGrabs, ResetGrabbed, GrabFileState, EnqueueSegment, Enqueued,
       ShutDown, PostProcessable, CallShutdown, ShutdownStrategy, SetGrabber, SetFile,
       SetSegment, SetQueue, SetCounters
  <2> QED  BY <2>1
<1>4. CASE UNCHANGED vars
  BY <1>4 DEF vars
<1> QED  BY <1>1, <1>2, <1>3, <1>4

\* Nobody but the dispatcher, and the receive that lets it go, moves it.
LEMMA OnlyOwnPlace ==
    ASSUME ThreadOK, Responder \/ Network \/ Caller \/ UNCHANGED vars,
           pc["dispatcher"] = "exited"
    PROVE  pc'["dispatcher"] = "exited"
<1> USE DEF ThreadOK, Threads, Goto, Begin, Finish, AfterDone, At, thrVars
<1>1. CASE Responder
  <2>1. ASSUME NEW s \in Segments, Done("responder", s) PROVE pc'["dispatcher"] = "exited"
    BY <2>1 DEF Done, DoneCheck, DoneWrite, SegmentDone, FileDone, ReportFile
  <2>2. ASSUME NEW r \in Requests, Grabbed(r) \/ \E err \in Errors : Failed(r, err)
        PROVE  pc'["dispatcher"] = "exited"
    BY <2>2 DEF Grabbed, Failed
  <2>3. ASSUME ExitResponder \/ \E s \in Segments : Requeue(s)
        PROVE  pc'["dispatcher"] = "exited"
    BY <2>3 DEF ExitResponder, Requeue
  <2> QED  BY <1>1, <2>1, <2>2, <2>3 DEF Responder
<1>2. CASE Network \/ UNCHANGED vars
  BY <1>2 DEF Network, vars
<1>3. CASE Caller
  BY <1>3 DEF Caller, PostProcessable
<1> QED  BY <1>1, <1>2, <1>3

LEMMA WaitsForDispatcher ==
    ASSUME [Next]_vars, mpc # "waitGrab"
    PROVE  mpc' # "waitGrab" \/ (At("dispatcher", "exited") /\ UNCHANGED pc)
<1>1. CASE Dispatcher \/ Responder \/ Network \/ UNCHANGED vars
  BY <1>1 DEF Dispatcher, Responder, Network, vars, mainVars
<1>2. CASE ShutdownStrategy /\ UNCHANGED thrVars
  BY <1>2 DEF ShutdownStrategy, EnqueueStopped, thrVars
<1>3. CASE CallShutdown \/ \E t \in Threads : PostProcessable(t)
  BY <1>3 DEF CallShutdown, PostProcessable, Return, Step
<1>4. CASE CallerAlone
  BY <1>4 DEF CallerAlone, CallGrabAll, CallGrabFile, CallPause, CallResume,
     LockGrabber, GrabNext, PauseNext, PausingFile, PauseSegment, PausedFile, ResumeNext,
     ResumeFile, ResumingFile, SegmentResumeRead, SegmentResumeSet, ResumedFile,
     RequireFile, ResumeGrabs, ResetGrabbed, GrabFileState, EnqueueSegment, Enqueued,
     ShutDown, Resumed, Step, Visit, NextSegment, NextFile, Enter, Return
<1> QED  BY <1>1, <1>2, <1>3, <1>4 DEF Next, Caller

\* No request is made of a server once Shutdown has shut the Strategy down: the
\* answer could not come, and the segment would wait for it for ever.
THEOREM NoneAskedAfterShutdown == Spec => NoRequestAfterShutdown
<1> DEFINE Inv == TypeInv /\ EnqueueGone
           Quiet == mpc = "waitGrab" => \A r \in Requests : asked'[r] <= asked[r]
<1>1. Init => Inv
  BY InitTypeInv DEF Init, EnqueueGone
<1>2. Inv /\ [Next]_vars => Inv' /\ Quiet
  <2> SUFFICES ASSUME Inv, [Next]_vars PROVE Inv' /\ Quiet
    OBVIOUS
  <2> SharedOK /\ ThreadOK
    BY DEF TypeInv, TypeOK
  <2>1. TypeInv'
    BY NextTypeInv
  <2>2. CASE mpc = "waitGrab"
    <3>1. ~Dispatcher
      BY <2>2, DispatcherGone DEF EnqueueGone
    <3>2. Quiet
      BY <3>1, OthersDoNotAsk DEF Next
    <3>3. pc'["dispatcher"] = "exited" \/ mpc' # "waitGrab"
      BY <2>2, <3>1, OnlyOwnPlace DEF EnqueueGone, Next
    <3> QED  BY <2>1, <3>2, <3>3 DEF EnqueueGone
  <2>3. CASE mpc # "waitGrab"
    <3>1. mpc' # "waitGrab" \/ (At("dispatcher", "exited") /\ UNCHANGED pc)
      BY <2>3, WaitsForDispatcher
    <3> QED  BY <2>1, <2>3, <3>1 DEF EnqueueGone, At
  <2> QED  BY <2>2, <2>3
<1> QED  BY <1>1, <1>2, PTL DEF Spec, Safety, NoRequestAfterShutdown

-----------------------------------------------------------------------------
(***************************************************************************)
(* A par2 or filtered file is left alone until it is asked for, and by      *)
(* whom: UnrequiredUntouched and OnlyAskedFor.                              *)
(***************************************************************************)

\* No segment of f is queued, requested or with a goroutine.
Idle(f) == \A s \in SegsOf(f) : ~InWork(s)

\* What is inductive of UnrequiredUntouched: a file that is not required is
\* moreover paused, or the caller is in the middle of resuming it ...
Untouched ==
    \A f \in Files : ~fRequired[f] =>
        /\ Idle(f) /\ fDone[f] = 0
        /\ \A s \in SegsOf(f) : segState[s] # "Working"
        /\ fState[f] \in {"Paused", "Resuming"}
        /\ fState[f] = "Resuming" => mpc \in {"resumeSegs", "resumeSeg"} /\ thisFile = f

\* ... and the caller's own test of a file's state or of required still holds
\* of the file at hand when it acts on it, a step or a loop later.
ThisRequired ==
    /\ mpc \in {"enqueue", "require", "stillPending", "pausing", "pauseSegs"}
          => fRequired[thisFile]
    /\ mpc = "enqueue" => \A i \in DOMAIN msegs : FileOf[msegs[i]] = thisFile

UntouchedInv == TypeInv /\ Untouched /\ ThisRequired

\* A step that has nothing to do with f.
LeavesAlone(f) ==
    /\ UNCHANGED fRequired
    /\ fDone'[f] = fDone[f] /\ fState'[f] = fState[f]
    /\ \A s \in SegsOf(f) : segState'[s] = segState[s]
    /\ Idle(f)'

LEMMA ListedFacts ==
    ASSUME NEW S, NEW q \in Seq(S)
    PROVE  /\ q # <<>> => Head(q) \in Listed(q) /\ Listed(Tail(q)) \subseteq Listed(q)
           /\ \A x \in S : Listed(Append(q, x)) = Listed(q) \cup {x}
<1>1. ASSUME q # <<>> PROVE Head(q) \in Listed(q) /\ Listed(Tail(q)) \subseteq Listed(q)
  BY <1>1 DEF Listed
<1>2. ASSUME NEW x \in S PROVE Listed(Append(q, x)) = Listed(q) \cup {x}
  <2>1. /\ Len(Append(q, x)) = Len(q) + 1
        /\ \A i \in 1 .. Len(q) : Append(q, x)[i] = q[i]
        /\ Append(q, x)[Len(q) + 1] = x
    BY AppendProperties
  <2>2. /\ DOMAIN q = 1 .. Len(q) /\ Len(q) \in Nat
        /\ DOMAIN Append(q, x) = 1 .. Len(q) + 1
    BY <2>1
  <2> QED  BY <2>1, <2>2 DEF Listed
<1> QED  BY <1>1, <1>2

\* When a segment that is not in work comes to be.
LEMMA WorkFacts ==
    ASSUME SharedOK, ThreadOK, NEW x \in Segments, ~InWork(x)
    PROVE  /\ queue' = queue /\ cur' = cur /\ asked' = asked => ~InWork(x)'
           /\ \A t \in Threads : queue' = queue /\ asked' = asked
                 /\ cur' = [cur EXCEPT ![t] = NoSegment] => ~InWork(x)'
           /\ cur' = cur /\ asked' = asked =>
                 \A s \in Segments \ {x} : queue' = Append(queue, s) => ~InWork(x)'
<1> USE DEF InWork, SharedOK, ThreadOK
<1>1. x # NoSegment
  BY GrabberAssumption
<1>2. \A s \in Segments : Listed(Append(queue, s)) = Listed(queue) \cup {s}
  BY ListedFacts
<1>3. queue' = queue /\ cur' = cur /\ asked' = asked => ~InWork(x)'
  OBVIOUS
<1>4. \A t \in Threads : queue' = queue /\ asked' = asked
         /\ cur' = [cur EXCEPT ![t] = NoSegment] => ~InWork(x)'
  BY <1>1
<1>5. cur' = cur /\ asked' = asked =>
         \A s \in Segments \ {x} : queue' = Append(queue, s) => ~InWork(x)'
  BY <1>2
<1> QED  BY <1>3, <1>4, <1>5

-----------------------------------------------------------------------------
\* The goroutines and the servers leave alone a file none of whose segments is
\* in work.

LEMMA DoneLeavesAlone ==
    ASSUME SharedOK, ThreadOK, NEW f \in Files, Idle(f),
           NEW t \in Threads, NEW s \in Segments, s = cur[t], Done(t, s)
    PROVE  LeavesAlone(f)
<1>1. FileOf[s] # f /\ s \notin SegsOf(f)
  BY DEF Idle, InWork, SegsOf
<1>2. \A x \in SegsOf(f) : x \in Segments /\ ~InWork(x)
  BY DEF Idle, SegsOf
<1>3. /\ UNCHANGED <<queue, asked>>
      /\ UNCHANGED cur \/ cur' = [cur EXCEPT ![t] = NoSegment]
  BY DEF Done, DoneCheck, DoneWrite, SegmentDone, FileDone, ReportFile, Reads, SetFile,
         SetCounters, AfterDone, Goto, Finish, netVars
<1>4. Idle(f)'
  <2>1. \A x \in SegsOf(f) : ~InWork(x)'
    BY <1>2, <1>3, WorkFacts
  <2> QED  BY <2>1 DEF Idle, SegsOf
<1>5. /\ UNCHANGED fRequired
      /\ fDone'[f] = fDone[f] /\ fState'[f] = fState[f]
      /\ \A x \in SegsOf(f) : segState'[x] = segState[x]
  <2> USE <1>1 DEF SharedOK, SegsOf, segVars, fileVars
  <2>1. CASE DoneCheck(t, s)
    BY <2>1 DEF DoneCheck, Reads
  <2>2. CASE DoneWrite(t, s)
    BY <2>2 DEF DoneWrite
  <2>3. CASE SegmentDone(t, FileOf[s])
    BY <2>3 DEF SegmentDone
  <2>4. CASE FileDone(t, FileOf[s])
    BY <2>4 DEF FileDone, SetFile
  <2>5. CASE ReportFile(t, FileOf[s])
    BY <2>5 DEF ReportFile, SetCounters
  <2> QED  BY <2>1, <2>2, <2>3, <2>4, <2>5 DEF Done
<1> QED  BY <1>4, <1>5 DEF LeavesAlone

LEMMA DispatchLeavesAlone ==
    ASSUME SharedOK, ThreadOK, NEW f \in Files, Idle(f),
           NEW s \in Segments, s = cur["dispatcher"], Dispatch(s)
    PROVE  LeavesAlone(f)
<1>1. FileOf[s] # f /\ s \notin SegsOf(f)
  BY DEF Idle, InWork, SegsOf, Threads
<1>2. \A x \in SegsOf(f) : x \in Segments /\ ~InWork(x)
  BY DEF Idle, SegsOf
<1>3. Idle(f)'
  <2>1. CASE Grab(s)
    <3>1. ASSUME NEW x \in SegsOf(f) PROVE ~InWork(x)'
      <4>1. \A r \in Requests : r[1] = x => asked'[r] = asked[r]
        BY <1>1, <2>1, <3>1 DEF Grab, SharedOK
      <4>2. x # NoSegment
        BY <1>2, <3>1, GrabberAssumption
      <4> QED  BY <1>2, <2>1, <3>1, <4>1, <4>2 DEF Grab, Finish, InWork, ThreadOK
    <3> QED  BY <3>1 DEF Idle, SegsOf
  <2>2. CASE ~Grab(s)
    <3>1. /\ UNCHANGED <<queue, asked>>
          /\ UNCHANGED cur \/ cur' = [cur EXCEPT !["dispatcher"] = NoSegment]
      <4> USE DEF Reads, Goto, Finish, netVars
      <4>1. CASE SegmentWorkingRead(s)
        BY <4>1 DEF SegmentWorkingRead
      <4>2. CASE FileWorkingRead(FileOf[s]) \/ FileWorkingSet(FileOf[s])
        BY <4>2 DEF FileWorkingRead, FileWorkingSet, SetFile
      <4>3. CASE GrabberWorkingRead \/ GrabberWorkingSet
        BY <4>3 DEF GrabberWorkingRead, GrabberWorkingSet, SetGrabber
      <4>4. CASE SegmentWorkingSet(s)
        BY <4>4 DEF SegmentWorkingSet, SetSegment
      <4>5. CASE CannotCreate(s) \/ GiveUp(s) \/ Skip(s) \/ Choose(s)
        BY <4>5 DEF CannotCreate, GiveUp, Skip, SetHistory, Choose
      <4> QED  BY <2>2, <4>1, <4>2, <4>3, <4>4, <4>5 DEF Dispatch
    <3>2. \A x \in SegsOf(f) : ~InWork(x)'
      BY <1>2, <3>1, WorkFacts DEF Threads
    <3> QED  BY <3>2 DEF Idle, SegsOf
  <2> QED  BY <2>1, <2>2
<1>4. /\ UNCHANGED fRequired
      /\ fDone'[f] = fDone[f] /\ fState'[f] = fState[f]
      /\ \A x \in SegsOf(f) : segState'[x] = segState[x]
  <2> USE <1>1 DEF SharedOK, SegsOf, segVars, fileVars, Reads
  <2>1. CASE SegmentWorkingRead(s) \/ FileWorkingRead(FileOf[s])
    BY <2>1 DEF SegmentWorkingRead, FileWorkingRead
  <2>2. CASE FileWorkingSet(FileOf[s])
    BY <2>2 DEF FileWorkingSet, SetFile
  <2>3. CASE GrabberWorkingRead \/ GrabberWorkingSet
    BY <2>3 DEF GrabberWorkingRead, GrabberWorkingSet, SetGrabber
  <2>4. CASE SegmentWorkingSet(s)
    BY <2>4 DEF SegmentWorkingSet, SetSegment
  <2>5. CASE CannotCreate(s) \/ GiveUp(s) \/ Skip(s) \/ Choose(s) \/ Grab(s)
    BY <2>5 DEF CannotCreate, GiveUp, Skip, SetHistory, Choose, Grab
  <2> QED  BY <2>1, <2>2, <2>3, <2>4, <2>5 DEF Dispatch
<1> QED  BY <1>3, <1>4 DEF LeavesAlone

LEMMA OthersLeaveAlone ==
    ASSUME SharedOK, ThreadOK, NEW f \in Files, Idle(f),
           Dispatcher \/ Responder \/ Network
    PROVE  LeavesAlone(f)
<1>1. \A x \in SegsOf(f) : x \in Segments /\ x # NoSegment /\ ~InWork(x)
  BY GrabberAssumption DEF Idle, SegsOf
<1> USE DEF segVars, fileVars, grabVars, netVars, Threads, SharedOK, ThreadOK
<1>2. CASE Dequeue
  <2>1. Head(queue) \in Listed(queue) /\ Listed(Tail(queue)) \subseteq Listed(queue)
    BY <1>2, ListedFacts DEF Dequeue
  <2>2. Idle(f)'
    BY <1>1, <1>2, <2>1 DEF Dequeue, Idle, InWork, SegsOf, SetQueue, Begin
  <2> QED  BY <1>2, <2>2 DEF Dequeue, SetQueue, LeavesAlone
<1>3. CASE ExitDispatcher \/ ExitResponder
  BY <1>1, <1>3, WorkFacts DEF ExitDispatcher, ExitResponder, Reads, Goto, LeavesAlone, Idle, SegsOf
<1>4. CASE SegFailed
  BY <1>1, <1>4, WorkFacts DEF SegFailed, Finish, LeavesAlone, Idle, SegsOf
<1>5. ASSUME NEW s \in Segments, s = cur["responder"], Requeue(s) PROVE LeavesAlone(f)
  <2>1. s \notin SegsOf(f)
    BY <1>1, <1>5 DEF InWork
  <2>2. \A x \in Segments : x \in Listed(queue') => x \in Listed(queue) \/ x = s
    <3>1. Listed(Append(queue, s)) = Listed(queue) \cup {s}
      BY ListedFacts
    <3>2. queue' = Append(queue, s) \/ queue' = queue
      BY <1>5 DEF Requeue, SetQueue, Reads
    <3> QED  BY <3>1, <3>2
  <2>3. Idle(f)'
    BY <1>1, <1>5, <2>1, <2>2 DEF Requeue, Idle, InWork, SegsOf, SetQueue, Reads, Finish
  <2> QED  BY <1>5, <2>3 DEF Requeue, SetQueue, Reads, LeavesAlone
<1>6. ASSUME NEW r \in Requests, Grabbed(r) \/ \E err \in Errors : Failed(r, err)
      PROVE  LeavesAlone(f)
  <2>1. /\ asked[r] > 0 /\ asked' = [asked EXCEPT ![r] = @ - 1]
        /\ cur' = [cur EXCEPT !["responder"] = r[1]] /\ UNCHANGED queue
        /\ UNCHANGED <<segState, fileVars>>
    BY <1>6 DEF Grabbed, Failed, SetHistory, Begin
  <2>2. \A q \in Requests : asked'[q] > 0 => asked[q] > 0
    BY <2>1
  <2>3. Idle(f)'
    BY <1>1, <2>1, <2>2 DEF Idle, InWork, SegsOf
  <2> QED  BY <2>1, <2>3 DEF LeavesAlone
<1>7. CASE Network
  <2>1. \A q \in Requests : asked'[q] > 0 => asked[q] > 0
    BY <1>7 DEF Network, ServerDies, Reconnect
  <2>2. UNCHANGED <<queue, cur, segState, fileVars>>
    BY <1>7 DEF Network, ServerDies, Reconnect, thrVars
  <2>3. Idle(f)'
    BY <1>1, <2>1, <2>2 DEF Idle, InWork, SegsOf
  <2> QED  BY <2>2, <2>3 DEF LeavesAlone
<1> QED
  BY <1>2, <1>3, <1>4, <1>5, <1>6, <1>7, DispatchLeavesAlone, DoneLeavesAlone
     DEF Dispatcher, Responder

LEMMA OthersKeepRequired ==
    ASSUME Dispatcher \/ Responder \/ Network
    PROVE  UNCHANGED fRequired
<1> USE DEF Reads, SetFile, SetSegment, SetGrabber, SetHistory, SetCounters, SetQueue, fileVars
<1>1. ASSUME NEW t \in Threads, NEW s \in Segments, Done(t, s) PROVE UNCHANGED fRequired
  BY <1>1 DEF Done, DoneCheck, DoneWrite, SegmentDone, FileDone, ReportFile
<1>2. ASSUME NEW s \in Segments, Dispatch(s) PROVE UNCHANGED fRequired
  BY <1>2 DEF Dispatch, SegmentWorkingRead, FileWorkingRead, FileWorkingSet,
              GrabberWorkingRead, GrabberWorkingSet, SegmentWorkingSet, CannotCreate,
              GiveUp, Skip, Choose, Grab
<1>3. CASE Dispatcher
  BY <1>1, <1>2, <1>3 DEF Dispatcher, Dequeue, ExitDispatcher, SegFailed, Threads
<1>4. CASE Responder
  BY <1>1, <1>4 DEF Responder, ExitResponder, Requeue, Grabbed, Failed, Threads
<1>5. CASE Network
  BY <1>5 DEF Network, ServerDies, Reconnect
<1> QED  BY <1>3, <1>4, <1>5

-----------------------------------------------------------------------------
\* The caller.

LEMMA SameWork ==
    ASSUME UNCHANGED <<queue, cur, asked>>
    PROVE  \A x : InWork(x)' <=> InWork(x)
BY DEF InWork

\* What every step that leaves queue, cur, asked, fDone and fRequired as they
\* are has to see to.
LEMMA CallerKeeps ==
    ASSUME SharedOK, Untouched,
           UNCHANGED <<queue, cur, asked, fDone, fRequired>>,
           \A s \in Segments : segState'[s] = "Working" => segState[s] = "Working",
           \A f \in Files : ~fRequired[f] =>
               /\ fState'[f] \in {"Paused", "Resuming"}
               /\ fState'[f] = "Resuming" =>
                      mpc' \in {"resumeSegs", "resumeSeg"} /\ thisFile' = f
    PROVE  Untouched'
<1>1. \A f \in Files : Idle(f) => Idle(f)'
  BY SameWork DEF Idle, SegsOf
<1> QED  BY <1>1 DEF Untouched, SegsOf

LEMMA SegSeqFacts ==
    ASSUME NEW f \in Files
    PROVE  \A i \in DOMAIN SegSeq[f] : FileOf[SegSeq[f][i]] = f
BY GrabberAssumption DEF Listed

\* Calls, and steps that only look at the state.
LEMMA LookingUntouched ==
    ASSUME UntouchedInv, UNCHANGED <<thrVars, dieVars>>,
           \/ CallGrabAll \/ CallGrabFile \/ CallPause \/ CallResume \/ LockGrabber
           \/ GrabNext \/ PauseNext \/ ResumeNext \/ ResumeFile \/ SegmentResumeRead
           \/ ResumeGrabs \/ ResetGrabbed \/ GrabFileState \/ Enqueued \/ ShutDown
           \/ RequireFile
    PROVE  Untouched' /\ ThisRequired'
<1> SharedOK /\ CallerOK /\ InCall
  BY DEF UntouchedInv, TypeInv, TypeOK
<1> USE DEF UntouchedInv, thrVars
<1>1. UNCHANGED <<queue, cur, asked, fDone, fRequired, fState, segState>>
  BY DEF CallGrabAll, CallGrabFile, CallPause, CallResume, LockGrabber, GrabNext, PauseNext,
         ResumeNext, ResumeFile, SegmentResumeRead, ResumeGrabs, ResetGrabbed, GrabFileState,
         Enqueued, ShutDown, RequireFile, Reads, SetCounters, SetGrabber,
         segVars, fileVars, netVars
<1>2. \/ mpc \notin {"resumeSegs", "resumeSeg"}
      \/ mpc' \in {"resumeSegs", "resumeSeg"} /\ UNCHANGED mfiles
  BY DEF CallGrabAll, CallGrabFile, CallPause, CallResume, Calling, LockGrabber, GrabNext,
         PauseNext, ResumeNext, ResumeFile, SegmentResumeRead, ResumeGrabs, ResetGrabbed,
         GrabFileState, Enqueued, ShutDown, RequireFile, Step, NextSegment
<1>3. Untouched'
  <2>1. \A f \in Files : ~fRequired[f] =>
            /\ fState'[f] \in {"Paused", "Resuming"}
            /\ fState'[f] = "Resuming" =>
                   mpc' \in {"resumeSegs", "resumeSeg"} /\ thisFile' = f
    BY <1>1, <1>2 DEF Untouched, thisFile
  <2> QED  BY <1>1, <2>1, CallerKeeps
<1>4. mpc \in FilePC \/ mfiles # <<>> => thisFile \in Files
  BY AtHand
<1>5. ~(mpc \in {"resumeSegs", "resumeSeg"}) /\ thisFile \in Files
         /\ fState[thisFile] # "Paused" => fRequired[thisFile]
  BY DEF Untouched
<1>6. thisFile \in Files => \A i \in DOMAIN SegSeq[thisFile] :
                                FileOf[SegSeq[thisFile][i]] = thisFile
  BY SegSeqFacts
<1>7. ThisRequired'
  <2> USE DEF ThisRequired, Step, Visit, NextFile, Enter, Return, FilePC, thisFile
  <2>1. CASE CallGrabAll \/ CallGrabFile \/ CallPause \/ CallResume \/ LockGrabber
    BY <2>1 DEF CallGrabAll, CallGrabFile, CallPause, CallResume, LockGrabber
  <2>2. CASE GrabNext \/ Enqueued \/ ShutDown \/ ResetGrabbed \/ ResumeGrabs
    BY <2>2 DEF GrabNext, Enqueued, ShutDown, ResetGrabbed, ResumeGrabs
  <2>3. CASE PauseNext
    BY <1>1, <1>4, <1>5, <2>3 DEF PauseNext
  <2>4. CASE ResumeNext \/ SegmentResumeRead
    BY <2>4 DEF ResumeNext, SegmentResumeRead, NextSegment
  <2>5. CASE ResumeFile
    BY <1>1, <1>4, <1>5, <1>6, <2>5 DEF ResumeFile, Resumed
  <2>6. CASE RequireFile
    BY <1>1, <1>4, <1>6, <2>6 DEF RequireFile, Resumed
  <2>7. CASE GrabFileState
    BY <1>1, <1>4, <1>5, <1>6, <2>7 DEF GrabFileState
  <2> QED  BY <2>1, <2>2, <2>3, <2>4, <2>5, <2>6, <2>7
<1> QED  BY <1>3, <1>7

\* Pausing and resuming a file and its segments.
LEMMA PausingUntouched ==
    ASSUME UntouchedInv, UNCHANGED <<thrVars, dieVars>>,
           \/ PausingFile \/ PauseSegment \/ PausedFile
           \/ ResumingFile \/ SegmentResumeSet
    PROVE  Untouched' /\ ThisRequired'
<1> SharedOK /\ CallerOK /\ InCall
  BY DEF UntouchedInv, TypeInv, TypeOK
<1> USE DEF UntouchedInv, thrVars
<1>1. UNCHANGED <<queue, cur, asked, fDone, fRequired>>
  BY DEF PausingFile, PauseSegment, PausedFile, ResumingFile, SegmentResumeSet,
         SetFile, SetSegment, segVars, fileVars, netVars
<1>2. thisFile \in Files
  BY AtHand DEF PausingFile, PauseSegment, PausedFile, ResumingFile, SegmentResumeSet, FilePC
<1>3. \A s \in Segments : segState'[s] = "Working" => segState[s] = "Working"
  <2> USE DEF SharedOK, segVars
  <2>1. CASE PauseSegment
    BY <2>1 DEF PauseSegment, SetSegment
  <2>2. CASE SegmentResumeSet
    BY <2>2 DEF SegmentResumeSet, SetSegment
  <2>3. CASE PausingFile \/ PausedFile \/ ResumingFile
    BY <2>3 DEF PausingFile, PausedFile, ResumingFile, SetFile
  <2> QED  BY <2>1, <2>2, <2>3
<1>4. \A f \in Files : ~fRequired[f] =>
          /\ fState'[f] \in {"Paused", "Resuming"}
          /\ fState'[f] = "Resuming" =>
                 mpc' \in {"resumeSegs", "resumeSeg"} /\ thisFile' = f
  <2> USE <1>2 DEF SharedOK, fileVars, thisFile, Untouched
  <2>1. CASE PauseSegment \/ PausedFile \/ PausingFile
    BY <2>1 DEF PauseSegment, PausedFile, PausingFile, SetSegment, SetFile, ThisRequired
  <2>2. CASE ResumingFile
    BY <2>2 DEF ResumingFile, SetFile, Visit
  <2>3. CASE SegmentResumeSet
    BY <2>3 DEF SegmentResumeSet, SetSegment, NextSegment
  <2> QED  BY <2>1, <2>2, <2>3
<1>5. Untouched'
  BY <1>1, <1>3, <1>4, CallerKeeps
<1>6. ThisRequired'
  <2> USE <1>1 DEF ThisRequired, Visit, NextSegment, NextFile, thisFile
  <2>1. CASE PausingFile \/ PauseSegment
    BY <2>1 DEF PausingFile, PauseSegment
  <2>2. CASE PausedFile \/ ResumingFile \/ SegmentResumeSet
    BY <2>2 DEF PausedFile, ResumingFile, SegmentResumeSet
  <2> QED  BY <2>1, <2>2
<1> QED  BY <1>5, <1>6

\* The file at hand becomes required, and its segments are enqueued.
LEMMA RequiringUntouched ==
    ASSUME UntouchedInv, UNCHANGED <<thrVars, dieVars>>, ResumedFile \/ EnqueueSegment
    PROVE  Untouched' /\ ThisRequired'
<1> SharedOK /\ ThreadOK /\ CallerOK /\ InCall
  BY DEF UntouchedInv, TypeInv, TypeOK
<1> USE DEF UntouchedInv, thrVars
<1>1. thisFile \in Files
  BY AtHand DEF ResumedFile, EnqueueSegment, FilePC
<1>2. CASE ResumedFile
  <2>1. /\ UNCHANGED <<queue, cur, asked, fDone, segState, mfiles>>
        /\ fRequired' = [fRequired EXCEPT ![thisFile] = TRUE]
        /\ fState' = [fState EXCEPT ![thisFile] = "Pending"]
    BY <1>2 DEF ResumedFile, Resumed, Step, Visit, segVars, netVars
  <2>2. \A f \in Files : Idle(f) => Idle(f)'
    BY <2>1, SameWork DEF Idle, SegsOf
  <2>3. Untouched'
    BY <1>1, <1>2, <2>1, <2>2 DEF Untouched, SegsOf, SharedOK, ResumedFile, thisFile
  <2>4. fRequired'[thisFile]
    BY <1>1, <2>1 DEF SharedOK
  <2>5. mpc' = "enqueue" => msegs' = SegSeq[thisFile]
    BY <1>2 DEF ResumedFile, Resumed, Step, Visit
  <2>6. ThisRequired'
    BY <1>1, <2>1, <2>4, <2>5, SegSeqFacts DEF ThisRequired, thisFile
  <2> QED  BY <2>3, <2>6
<1>3. CASE EnqueueSegment
  <2>1. /\ UNCHANGED <<cur, asked, fDone, segState, fState, fRequired, mfiles>>
        /\ queue' = Append(queue, Head(msegs))
        /\ mpc = "enqueue" /\ msegs # <<>> /\ msegs' = Tail(msegs) /\ mpc' = "enqueue"
    BY <1>3 DEF EnqueueSegment, SetQueue, NextSegment, segVars, fileVars, netVars
  <2>2. Head(msegs) \in Segments /\ FileOf[Head(msegs)] = thisFile /\ fRequired[thisFile]
    BY <2>1, AtHand DEF ThisRequired, CallerOK
  <2>3. \A f \in Files : Idle(f) /\ ~fRequired[f] => Idle(f)'
    BY <2>1, <2>2, WorkFacts DEF Idle, SegsOf
  <2>4. Untouched'
    BY <2>1, <2>3 DEF Untouched, SegsOf, thisFile
  <2>5. \A i \in DOMAIN Tail(msegs) : i + 1 \in DOMAIN msegs /\ Tail(msegs)[i] = msegs[i + 1]
    BY <2>1 DEF CallerOK
  <2>6. ThisRequired'
    BY <2>1, <2>2, <2>5 DEF ThisRequired, thisFile
  <2> QED  BY <2>4, <2>6
<1> QED  BY <1>2, <1>3

-----------------------------------------------------------------------------
LEMMA NextUntouched ==
    ASSUME UntouchedInv, [Next]_vars
    PROVE  UntouchedInv'
<1> SharedOK /\ ThreadOK
  BY DEF UntouchedInv, TypeInv, TypeOK
<1>1. TypeInv'
  BY NextTypeInv DEF UntouchedInv
<1>2. CASE Dispatcher \/ Responder \/ Network
  <2>1. \A f \in Files : Idle(f) => LeavesAlone(f)
    BY <1>2, OthersLeaveAlone
  <2>2. UNCHANGED mainVars
    BY <1>2 DEF Dispatcher, Responder, Network
  <2>3. UNCHANGED fRequired
    BY <1>2, OthersKeepRequired
  <2>4. Untouched'
    BY <2>1, <2>2, <2>3 DEF UntouchedInv, Untouched, LeavesAlone, SegsOf, mainVars, thisFile
  <2>5. ThisRequired'
    BY <2>2, <2>3 DEF UntouchedInv, ThisRequired, mainVars, thisFile
  <2> QED  BY <1>1, <2>4, <2>5 DEF UntouchedInv
<1>3. CASE CallerAlone /\ UNCHANGED <<thrVars, dieVars>>
  <2>1. Untouched' /\ ThisRequired'
    BY <1>3, LookingUntouched, PausingUntouched, RequiringUntouched DEF CallerAlone
  <2> QED  BY <1>1, <2>1 DEF UntouchedInv
<1>4. CASE (CallShutdown \/ ShutdownStrategy) /\ UNCHANGED thrVars
  <2>1. UNCHANGED <<queue, cur, asked, fDone, fRequired, fState, segState, mfiles>>
        /\ mpc \in {"idle", "waitEnqueue"} /\ mpc' \in {"waitEnqueue", "waitGrab"}
    BY <1>4 DEF CallShutdown, ShutdownStrategy, Calling, Step, Reads, segVars, fileVars,
                netVars, thrVars
  <2>2. Untouched'
    BY <2>1, CallerKeeps DEF UntouchedInv, Untouched, thisFile
  <2> QED  BY <1>1, <2>1, <2>2 DEF UntouchedInv, ThisRequired
<1>5. ASSUME NEW t \in Threads, PostProcessable(t) PROVE UntouchedInv'
  <2>1. /\ UNCHANGED <<queue, asked, fDone, fRequired, fState, segState, mfiles>>
        /\ mpc = "idle" /\ mpc' = "idle"
        /\ UNCHANGED cur \/ cur' = [cur EXCEPT ![t] = NoSegment]
    BY <1>5 DEF PostProcessable, Calling, Return, Reads, segVars, fileVars, netVars,
                AfterDone, Goto, Finish
  <2>2. \A f \in Files : Idle(f) => Idle(f)'
    <3>1. \A x \in Segments : ~InWork(x) => ~InWork(x)'
      BY <2>1, WorkFacts
    <3> QED  BY <3>1 DEF Idle, SegsOf
  <2>3. Untouched'
    BY <2>1, <2>2 DEF UntouchedInv, Untouched, SegsOf, thisFile
  <2> QED  BY <1>1, <2>1, <2>3 DEF UntouchedInv, ThisRequired
<1>6. CASE UNCHANGED vars
  <2>1. UNCHANGED <<queue, cur, asked, fDone, fRequired, fState, segState, mpc, mfiles, msegs>>
    BY <1>6 DEF vars, segVars, fileVars, netVars, thrVars, mainVars
  <2>2. Untouched'
    BY <2>1, CallerKeeps DEF UntouchedInv, Untouched, thisFile
  <2> QED  BY <1>1, <2>1, <2>2 DEF UntouchedInv, ThisRequired, thisFile
<1> QED  BY <1>2, <1>3, <1>4, <1>5, <1>6 DEF Next, Caller

LEMMA InitUntouched ==
    ASSUME Init
    PROVE  UntouchedInv
<1>1. \A s \in Segments : ~InWork(s)
  <2>1. Listed(queue) = {}
    BY DEF Init, Listed
  <2>2. \A t \in Threads : cur[t] = NoSegment
    BY DEF Init
  <2>3. \A r \in Requests : asked[r] = 0
    BY DEF Init
  <2> QED  BY <2>1, <2>2, <2>3, GrabberAssumption DEF InWork
<1>2. \A f \in Files : ~fRequired[f] =>
          /\ fDone[f] = 0 /\ fState[f] = "Paused"
          /\ \A s \in SegsOf(f) : segState[s] = "Paused"
  BY DEF Init, SegsOf
<1>3. Untouched /\ ThisRequired
  BY <1>1, <1>2 DEF Init, Untouched, ThisRequired, Idle, SegsOf
<1> QED  BY <1>3, InitTypeInv DEF UntouchedInv

\* No part of a par2 or filtered file is queued, requested or counted before
\* the caller asks for the file.
THEOREM UnrequiredAlone == Spec => []UnrequiredUntouched
<1>1. Init => UntouchedInv
  BY InitUntouched
<1>2. UntouchedInv /\ [Next]_vars => UntouchedInv'
  BY NextUntouched
<1>3. UntouchedInv => UnrequiredUntouched
  BY DEF UntouchedInv, Untouched, UnrequiredUntouched, Idle
<1> QED  BY <1>1, <1>2, <1>3, PTL DEF Spec, Safety

-----------------------------------------------------------------------------
\* Who makes a file required.

NotPaused(f) == fState[f] \notin {"Pausing", "Paused", "Resuming"}

\* In File.Resume the caller is with the file its GrabFile names, or with one
\* that was required already; before it, in GrabFile, it is with the former or
\* with one that the goroutines may finish but not pause.
AskingInv ==
    /\ mpc # "idle" /\ Op = "GrabFile" => mfiles \in {<<>>, <<Head(calls)[2]>>}
    /\ mpc \in {"reset", "grab"} => Op = "GrabFile" \/ NotPaused(thisFile)
    /\ mpc \in {"resume", "resuming", "resumeSegs", "resumeSeg"} =>
          Op = "GrabFile" \/ fRequired[thisFile]

\* The goroutines neither pause nor resume a file.
LEMMA OthersDoNotPause ==
    ASSUME SharedOK, Dispatcher \/ Responder \/ Network
    PROVE  \A f \in Files : NotPaused(f) => NotPaused(f)'
<1> USE DEF SharedOK, NotPaused, fileVars
<1>1. ASSUME NEW t \in Threads, NEW s \in Segments, Done(t, s)
      PROVE  UNCHANGED fState \/ \E f \in Files : SetFile(f, "Done")
  BY <1>1, GrabberAssumption
     DEF Done, DoneCheck, DoneWrite, SegmentDone, FileDone, ReportFile, Reads, SetCounters
<1>2. ASSUME NEW s \in Segments, Dispatch(s)
      PROVE  UNCHANGED fState \/ \E f \in Files : SetFile(f, "Working")
  BY <1>2, GrabberAssumption
     DEF Dispatch, SegmentWorkingRead, FileWorkingRead, FileWorkingSet, GrabberWorkingRead,
         GrabberWorkingSet, SegmentWorkingSet, CannotCreate, GiveUp, Skip, Choose, Grab,
         Reads, SetSegment, SetGrabber, SetHistory
<1>3. UNCHANGED fState \/ \E f \in Files : SetFile(f, "Done") \/ SetFile(f, "Working")
  <2>1. CASE Dispatcher
    BY <1>1, <1>2, <2>1 DEF Dispatcher, Dequeue, ExitDispatcher, SegFailed, SetQueue, Reads,
                            Threads
  <2>2. CASE Responder
    BY <1>1, <2>2 DEF Responder, ExitResponder, Requeue, Grabbed, Failed, SetQueue,
                      SetHistory, Reads, Threads
  <2>3. CASE Network
    BY <2>3 DEF Network, ServerDies, Reconnect
  <2> QED  BY <2>1, <2>2, <2>3
<1> QED  BY <1>3 DEF SetFile

\* A caller's step towards File.Resume.
LEMMA CallerAsks ==
    ASSUME TypeInv, AskingInv, CallerAlone
    PROVE  AskingInv'
<1> SharedOK /\ CallerOK /\ InCall
  BY DEF TypeInv, TypeOK
<1> USE DEF AskingInv, Op, thisFile, fileVars, Reads
<1>1. /\ mpc \in FilePC => mfiles # <<>> /\ thisFile \in Files
      /\ mpc # "idle" => calls # <<>>
  BY AtHand DEF InCall
<1>2. mpc # "idle" /\ mfiles # <<>> /\ NextFile => AskingInv'
  <2>1. Op = "GrabFile" /\ mpc # "idle" /\ mfiles # <<>> => Tail(mfiles) = <<>>
    <3>1. \A x : Tail(<<x>>) = <<>>
      OBVIOUS
    <3> QED  BY <3>1
  <2> QED  BY <2>1 DEF NextFile
<1>3. CASE CallGrabAll \/ CallGrabFile \/ CallPause \/ CallResume
  BY <1>3 DEF CallGrabAll, CallGrabFile, CallPause, CallResume, Calling, Enter, Return
<1>4. CASE LockGrabber \/ ShutDown
  BY <1>4 DEF LockGrabber, ShutDown, Step, Return
<1>5. CASE GrabNext
  BY <1>5, <1>2 DEF GrabNext, Step, Return, NotPaused
<1>6. CASE PauseNext
  BY <1>6, <1>2 DEF PauseNext, Step, Return
<1>7. CASE PausingFile \/ PauseSegment \/ PausedFile
  BY <1>1, <1>7, <1>2 DEF PausingFile, PauseSegment, PausedFile, Visit, NextSegment, FilePC
<1>8. CASE ResumeNext
  BY <1>8, <1>2 DEF ResumeNext, Step, Return
<1>9. CASE ResumeFile
  BY <1>9 DEF ResumeFile, Resumed, Step, Visit
<1>10. CASE ResumingFile \/ SegmentResumeRead \/ SegmentResumeSet
  BY <1>10 DEF ResumingFile, SegmentResumeRead, SegmentResumeSet, Step, Visit, NextSegment,
              SetFile, SetSegment
<1>11. CASE ResumedFile \/ RequireFile
  BY <1>11 DEF ResumedFile, RequireFile, Resumed, Step, Visit
<1>12. CASE ResumeGrabs
  BY <1>1, <1>12, <1>2 DEF ResumeGrabs, Step, NotPaused, FilePC
<1>13. CASE ResetGrabbed
  BY <1>13 DEF ResetGrabbed, SetCounters, Step, NotPaused
<1>14. CASE GrabFileState
  BY <1>1, <1>14, <1>2 DEF GrabFileState, Step, Visit, NotPaused, FilePC
<1>15. CASE EnqueueSegment \/ Enqueued
  BY <1>1, <1>15, <1>2 DEF EnqueueSegment, Enqueued, NextSegment, FilePC
<1> QED
  BY <1>3, <1>4, <1>5, <1>6, <1>7, <1>8, <1>9, <1>10, <1>11, <1>12, <1>13, <1>14, <1>15
     DEF CallerAlone

\* Only the end of File.Resume touches required.
LEMMA ResumedRequires ==
    ASSUME TypeInv, AskingInv, [Next]_vars
    PROVE  \A f \in Files : fRequired'[f] # fRequired[f] =>
               calls # <<>> /\ Head(calls) = <<"GrabFile", f>>
<1> SharedOK /\ CallerOK /\ InCall
  BY DEF TypeInv, TypeOK
<1>1. CASE Dispatcher \/ Responder \/ Network \/ UNCHANGED vars
  BY <1>1, OthersKeepRequired DEF vars, fileVars
<1>2. CASE ResumedFile
  <2>1. thisFile \in Files /\ calls # <<>> /\ Head(calls) \in Calls
    BY <1>2, AtHand, SeqFacts DEF ResumedFile, FilePC, InCall, CallerOK
  <2>2. \A f \in Files : fRequired'[f] # fRequired[f] => f = thisFile /\ ~fRequired[f]
    BY <1>2, <2>1 DEF ResumedFile, SharedOK
  <2>3. ~fRequired[thisFile] => Op = "GrabFile" /\ thisFile = Head(calls)[2]
    BY <1>2, <2>1 DEF ResumedFile, AskingInv, InCall, FilePC, thisFile
  <2>4. Op = "GrabFile" => Head(calls) = <<"GrabFile", Head(calls)[2]>>
    BY <2>1 DEF Op, Calls, Ops
  <2> QED  BY <2>1, <2>2, <2>3, <2>4
<1>3. CASE Caller /\ ~ResumedFile
  <2>1. UNCHANGED fRequired
    BY <1>3 DEF Caller, CallerAlone, CallGrabAll, CallGrabFile, CallPause, CallResume,
       LockGrabber, GrabNext, PauseNext, PausingFile, PauseSegment, PausedFile, ResumeNext,
       ResumeFile, ResumingFile, SegmentResumeRead, SegmentResumeSet, RequireFile,
       ResumeGrabs, ResetGrabbed, GrabFileState, EnqueueSegment, Enqueued, ShutDown,
       PostProcessable, CallShutdown, ShutdownStrategy, Reads, SetGrabber, SetFile,
       SetSegment, SetQueue, SetCounters, fileVars
  <2> QED  BY <2>1
<1> QED  BY <1>1, <1>2, <1>3 DEF Next

LEMMA NextAsking ==
    ASSUME TypeInv, AskingInv, [Next]_vars
    PROVE  AskingInv'
<1> SharedOK /\ CallerOK /\ InCall
  BY DEF TypeInv, TypeOK
<1>1. CASE Dispatcher \/ Responder \/ Network
  <2>1. UNCHANGED <<mpc, calls, mfiles, fRequired>>
    BY <1>1, OthersKeepRequired DEF Dispatcher, Responder, Network, mainVars
  <2>2. mpc \in FilePC => thisFile \in Files
    BY AtHand
  <2>3. \A f \in Files : NotPaused(f) => NotPaused(f)'
    BY <1>1, OthersDoNotPause
  <2> QED  BY <2>1, <2>2, <2>3 DEF AskingInv, Op, thisFile, FilePC, NotPaused
<1>2. CASE CallerAlone
  BY <1>2, CallerAsks
<1>3. ASSUME NEW t \in Threads, PostProcessable(t) PROVE AskingInv'
  BY <1>3 DEF PostProcessable, Return, AskingInv
<1>4. CASE CallShutdown \/ ShutdownStrategy
  BY <1>4 DEF CallShutdown, ShutdownStrategy, Calling, Step, AskingInv, Op
<1>5. CASE UNCHANGED vars
  BY <1>5 DEF vars, mainVars, fileVars, AskingInv, Op, thisFile, NotPaused
<1> QED  BY <1>1, <1>2, <1>3, <1>4, <1>5 DEF Next, Caller

\* GrabAll and Resume add nothing to what is downloaded: a par2 or filtered
\* file becomes required only by the call of GrabFile that names it.
THEOREM RequiredOnlyByGrabFile == Spec => OnlyAskedFor
<1> DEFINE Inv == TypeInv /\ AskingInv
           Only == \A f \in Files : fRequired'[f] # fRequired[f] =>
                       calls # <<>> /\ Head(calls) = <<"GrabFile", f>>
<1>1. Init => Inv
  BY InitTypeInv DEF Init, AskingInv
<1>2. Inv /\ [Next]_vars => Inv' /\ Only
  BY NextTypeInv, NextAsking, ResumedRequires
<1> QED  BY <1>1, <1>2, PTL DEF Spec, Safety, OnlyAskedFor

-----------------------------------------------------------------------------
(***************************************************************************)
(* No completion is missed, CompletionCounted, though a segment may be      *)
(* reported done twice.                                                     *)
(***************************************************************************)

\* A goroutine has written Done to s and is about to count it.
Counting(s) == \E t \in Threads : pc[t] = "count" /\ cur[t] = s

\* The segments of f that are done and whose SegmentDone has run.
Counted(f) == {s \in SegsOf(f) : segState[s] = "Done" /\ ~Counting(s)}

LEMMA SegsFinite ==
    ASSUME NEW f \in Files
    PROVE  IsFiniteSet(SegsOf(f))
<1>1. SegSeq[f] \in Seq(Segments) /\ Listed(SegSeq[f]) = SegsOf(f)
  BY GrabberAssumption DEF SegsOf
<1>2. SegSeq[f] \in [1 .. Len(SegSeq[f]) -> SegsOf(f)]
  BY <1>1 DEF Listed
<1>3. SegSeq[f] \in Surjection(1 .. Len(SegSeq[f]), SegsOf(f))
  BY <1>1, <1>2 DEF Surjection, Listed
<1> QED  BY <1>1, <1>3, FS_Surjection, FS_Interval

\* A step after which no segment is newly done and counted.
NoneCounted == \A s \in Segments :
    segState'[s] = "Done" /\ ~Counting(s)' => segState[s] = "Done" /\ ~Counting(s)

\* Such a step keeps the count if it only raises File.done.
LEMMA KeepsCount ==
    ASSUME SharedOK, SharedOK', CompletionCounted, NoneCounted,
           \A f \in Files : fDone'[f] >= fDone[f]
    PROVE  CompletionCounted'
<1> SUFFICES ASSUME NEW f \in Files PROVE fDone'[f] >= Cardinality(Counted(f)')
  BY DEF CompletionCounted, Counted, Counting, SegsOf
<1>1. Counted(f)' \subseteq Counted(f) /\ Counted(f) \subseteq SegsOf(f)
  BY DEF NoneCounted, Counted, SegsOf
<1>2. IsFiniteSet(Counted(f)) /\ IsFiniteSet(Counted(f)')
  BY <1>1, SegsFinite, FS_Subset
<1>3. /\ Cardinality(Counted(f)') <= Cardinality(Counted(f))
      /\ Cardinality(Counted(f)') \in Nat /\ Cardinality(Counted(f)) \in Nat
  BY <1>1, <1>2, FS_Subset, FS_CardinalityType
<1>4. fDone[f] >= Cardinality(Counted(f))
  BY DEF CompletionCounted, Counted, Counting
<1> QED  BY <1>3, <1>4 DEF SharedOK

LEMMA OneMore ==
    ASSUME NEW S, NEW x, IsFiniteSet(S)
    PROVE  /\ IsFiniteSet(S \cup {x})
           /\ Cardinality(S \cup {x}) <= Cardinality(S) + 1
<1>1. Cardinality(S) \in Nat
  BY FS_CardinalityType
<1>2. IsFiniteSet(S \cup {x})
  BY FS_AddElement
<1>3. CASE x \in S
  <2>1. S \cup {x} = S
    BY <1>3
  <2>2. Cardinality(S \cup {x}) = Cardinality(S)
    BY <2>1, Zenon
  <2> QED  BY <1>1, <1>2, <2>2
<1>4. CASE x \notin S
  <2>1. Cardinality(S \cup {x}) = Cardinality(S) + 1
    BY <1>4, FS_AddElement, Zenon
  <2> QED  BY <1>1, <1>2, <2>1
<1> QED  BY <1>3, <1>4

LEMMA SegmentDoneCounts ==
    ASSUME SharedOK, ThreadOK, CompletionCounted,
           NEW t \in Threads, NEW s \in Segments, s = cur[t], SegmentDone(t, FileOf[s])
    PROVE  CompletionCounted'
<1> DEFINE f == FileOf[s]
<1>1. /\ f \in Files /\ pc[t] = "count"
      /\ fDone' = [fDone EXCEPT ![f] = @ + 1]
      /\ UNCHANGED segState
      /\ \A u \in Threads \ {t} : pc'[u] = pc[u] /\ cur'[u] = cur[u]
  BY GrabberAssumption DEF SegmentDone, AfterDone, Goto, Finish, At, segVars, ThreadOK
<1>2. \A x \in Segments \ {s} : Counting(x)' <=> Counting(x)
  <2>1. ~(pc'[t] = "count")
    BY DEF SegmentDone, AfterDone, Goto, Finish, ThreadOK
  <2> QED  BY <1>1, <2>1 DEF Counting
<1> SUFFICES ASSUME NEW g \in Files PROVE fDone'[g] >= Cardinality(Counted(g)')
  BY DEF CompletionCounted, Counted, Counting, SegsOf
<1>3. fDone[g] >= Cardinality(Counted(g)) /\ fDone[g] \in Nat
  BY DEF CompletionCounted, Counted, Counting, SharedOK
<1>4. IsFiniteSet(Counted(g)) /\ Cardinality(Counted(g)) \in Nat
  <2>1. Counted(g) \subseteq SegsOf(g)
    BY DEF Counted
  <2> QED  BY <2>1, SegsFinite, FS_Subset, FS_CardinalityType
<1>5. CASE g = f
  <2>1. Counted(g)' \subseteq Counted(g) \cup {s}
    BY <1>1, <1>2 DEF Counted, SegsOf
  <2>2. /\ IsFiniteSet(Counted(g) \cup {s})
        /\ Cardinality(Counted(g) \cup {s}) <= Cardinality(Counted(g)) + 1
    BY <1>4, OneMore
  <2>3. /\ Cardinality(Counted(g)') <= Cardinality(Counted(g) \cup {s})
        /\ Cardinality(Counted(g)') \in Nat
        /\ Cardinality(Counted(g) \cup {s}) \in Nat
    BY <2>1, <2>2, FS_Subset, FS_CardinalityType
  <2>4. fDone'[g] = fDone[g] + 1
    BY <1>1, <1>5 DEF SharedOK
  <2> HIDE DEF f
  <2> QED  BY <1>3, <1>4, <2>2, <2>3, <2>4
<1>6. CASE g # f
  <2>1. Counted(g)' = Counted(g)
    BY <1>1, <1>2, <1>6 DEF Counted, SegsOf
  <2>2. fDone'[g] = fDone[g]
    BY <1>1, <1>6 DEF SharedOK
  <2> QED  BY <1>3, <2>1, <2>2
<1> QED  BY <1>5, <1>6

-----------------------------------------------------------------------------
\* Every other step counts none: only Segment.Done makes a segment done, and
\* leaves it to be counted.

LEMMA DoneCountsNone ==
    ASSUME SharedOK, ThreadOK, NEW t \in Threads, NEW s \in Segments, s = cur[t],
           Done(t, s), ~SegmentDone(t, FileOf[s])
    PROVE  NoneCounted /\ UNCHANGED fDone
<1> USE DEF NoneCounted, Counting, ThreadOK, SharedOK, AfterDone, Goto, Finish, At,
            segVars, fileVars
<1>1. CASE DoneCheck(t, s)
  BY <1>1 DEF DoneCheck, Reads
<1>2. CASE DoneWrite(t, s)
  BY <1>2 DEF DoneWrite
<1>3. CASE FileDone(t, FileOf[s])
  BY <1>3 DEF FileDone, SetFile
<1>4. CASE ReportFile(t, FileOf[s])
  BY <1>4 DEF ReportFile, SetCounters
<1> QED  BY <1>1, <1>2, <1>3, <1>4 DEF Done

LEMMA DispatchCountsNone ==
    ASSUME SharedOK, ThreadOK, NEW s \in Segments, Dispatch(s)
    PROVE  NoneCounted /\ UNCHANGED fDone
<1> USE DEF NoneCounted, Counting, ThreadOK, SharedOK, Threads, Goto, Finish, At, Reads,
            segVars, fileVars
<1>1. CASE SegmentWorkingRead(s) \/ FileWorkingRead(FileOf[s]) \/ FileWorkingSet(FileOf[s])
  BY <1>1 DEF SegmentWorkingRead, FileWorkingRead, FileWorkingSet, SetFile
<1>2. CASE GrabberWorkingRead \/ GrabberWorkingSet
  BY <1>2 DEF GrabberWorkingRead, GrabberWorkingSet, SetGrabber
<1>3. CASE SegmentWorkingSet(s)
  BY <1>3 DEF SegmentWorkingSet, SetSegment
<1>4. CASE CannotCreate(s) \/ GiveUp(s) \/ Skip(s)
  BY <1>4 DEF CannotCreate, GiveUp, Skip, SetHistory
<1>5. CASE Choose(s) \/ Grab(s)
  BY <1>5 DEF Choose, Grab
<1> QED  BY <1>1, <1>2, <1>3, <1>4, <1>5 DEF Dispatch

LEMMA CallerCountsNone ==
    ASSUME SharedOK, ThreadOK, CallerOK, InCall, Caller
    PROVE  NoneCounted /\ UNCHANGED fDone
<1> USE DEF NoneCounted, Counting, SharedOK, Reads, segVars, fileVars, thrVars
<1>1. CASE PauseSegment /\ UNCHANGED thrVars
  BY <1>1, AtHand DEF PauseSegment, SetSegment
<1>2. CASE SegmentResumeSet /\ UNCHANGED thrVars
  BY <1>2 DEF SegmentResumeSet, SetSegment
<1>3. ASSUME NEW t \in Threads, PostProcessable(t) PROVE NoneCounted /\ UNCHANGED fDone
  BY <1>3 DEF PostProcessable, AfterDone, Goto, Finish, ThreadOK, At
<1>4. CASE (CallShutdown \/ ShutdownStrategy) /\ UNCHANGED thrVars
  BY <1>4 DEF CallShutdown, ShutdownStrategy
<1>5. CASE CallerAlone /\ UNCHANGED thrVars /\ ~PauseSegment /\ ~SegmentResumeSet
  <2>1. UNCHANGED <<segState, fDone>>
    BY <1>5 DEF CallerAlone, CallGrabAll, CallGrabFile, CallPause, CallResume, LockGrabber,
       GrabNext, PauseNext, PausingFile, PausedFile, ResumeNext, ResumeFile, ResumingFile,
       SegmentResumeRead, ResumedFile, RequireFile, ResumeGrabs, ResetGrabbed,
       GrabFileState, EnqueueSegment, Enqueued, ShutDown, SetGrabber, SetFile, SetQueue,
       SetCounters
  <2> QED  BY <1>5, <2>1
<1> QED  BY <1>1, <1>2, <1>3, <1>4, <1>5 DEF Caller

LEMMA NextCounted ==
    ASSUME TypeInv, CompletionCounted, [Next]_vars
    PROVE  CompletionCounted'
<1> SharedOK /\ ThreadOK /\ CallerOK /\ InCall /\ SharedOK'
  BY NextTypeInv DEF TypeInv, TypeOK
<1>1. ASSUME NoneCounted, UNCHANGED fDone PROVE CompletionCounted'
  <2>1. \A f \in Files : fDone'[f] >= fDone[f]
    BY <1>1 DEF SharedOK
  <2> QED  BY <1>1, <2>1, KeepsCount
<1>2. ASSUME NEW t \in Threads, NEW s \in Segments, s = cur[t], Done(t, s)
      PROVE  CompletionCounted'
  BY <1>1, <1>2, SegmentDoneCounts, DoneCountsNone
<1>3. CASE Dequeue \/ ExitDispatcher \/ SegFailed \/ ExitResponder
  <2>1. NoneCounted /\ UNCHANGED fDone
    BY <1>3 DEF Dequeue, ExitDispatcher, SegFailed, ExitResponder, SetQueue, Reads, Begin,
       Goto, Finish, At, NoneCounted, Counting, ThreadOK, Threads, segVars, fileVars
  <2> QED  BY <1>1, <2>1
<1>4. ASSUME NEW s \in Segments, Requeue(s) PROVE CompletionCounted'
  <2>1. NoneCounted /\ UNCHANGED fDone
    BY <1>4 DEF Requeue, SetQueue, Reads, Finish, At, NoneCounted, Counting, ThreadOK,
       Threads, segVars, fileVars
  <2> QED  BY <1>1, <2>1
<1>5. ASSUME NEW r \in Requests, Grabbed(r) \/ \E err \in Errors : Failed(r, err)
      PROVE  CompletionCounted'
  <2>1. NoneCounted /\ UNCHANGED fDone
    BY <1>5 DEF Grabbed, Failed, SetHistory, Begin, At, NoneCounted, Counting, ThreadOK,
       Threads, segVars, fileVars
  <2> QED  BY <1>1, <2>1
<1>6. CASE Network \/ UNCHANGED vars
  <2>1. NoneCounted /\ UNCHANGED fDone
    BY <1>6 DEF Network, ServerDies, Reconnect, vars, NoneCounted, Counting, segVars,
       fileVars, thrVars
  <2> QED  BY <1>1, <2>1
<1>7. CASE Caller
  BY <1>1, <1>7, CallerCountsNone
<1>8. CASE Dispatcher
  BY <1>1, <1>2, <1>3, <1>8, DispatchCountsNone DEF Dispatcher, Threads
<1>9. CASE Responder
  BY <1>2, <1>3, <1>4, <1>5, <1>9 DEF Responder, Threads
<1> QED  BY <1>6, <1>7, <1>8, <1>9 DEF Next

\* File.done never falls behind the segments that are done, so that a file
\* whose last segment is done is reported: no interleaving of dispatcher,
\* responder and caller loses a SegmentDone.
THEOREM NoneMissed == Spec => []CompletionCounted
<1>1. Init => CompletionCounted
  <2> SUFFICES ASSUME Init, NEW f \in Files
               PROVE  fDone[f] >= Cardinality(Counted(f))
    BY DEF CompletionCounted, Counted, Counting, SegsOf
  <2>1. Counted(f) = {}
    BY DEF Init, Counted, SegsOf
  <2> QED  BY <2>1, FS_EmptySet DEF Init
<1>2. TypeInv /\ CompletionCounted /\ [Next]_vars => (TypeInv /\ CompletionCounted)'
  BY NextTypeInv, NextCounted
<1> QED  BY <1>1, <1>2, InitTypeInv, PTL DEF Spec, Safety
=============================================================================
