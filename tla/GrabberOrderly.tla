---------------------------- MODULE GrabberOrderly ----------------------------
(***************************************************************************)
(* What the Grabber promises a caller that grabs one lot of files at a time *)
(* and waits for it on PostProcessable() before it asks for more, as        *)
(* cmd/grabby does for its first lot.                                       *)
(***************************************************************************)
EXTENDS Grabber

\* Where a segment is on its way: queued, with a goroutine, or requested.
Places(s) ==
    ({"queue"} \X {i \in DOMAIN queue : queue[i] = s})
    \cup ({"thread"} \X {t \in Threads : cur[t] = s})
    \cup ({"asked"} \X UNION {{r} \X (1 .. asked[r]) : r \in {s} \X Servers \X Groups})

\* No two requests, nor a request and the dispatcher's truncation of the output
\* file, are ever at work on the same segment: its writer is not replaced or
\* closed while an article is being written to it.
ExclusiveOutput == \A s \in Segments : \A p, q \in Places(s) : p = q

\* A segment that is working is on its way, and so will be done or tried
\* again: no error path and no return of dispatch forgets it, unless its
\* request died with a session or enqueue chose to see that enqueueT is dying.
NoneForgotten ==
    \A s \in Segments : segState[s] = "Working" /\ s \notin lost /\ ~enqDying => Places(s) # {}

DoneSegs(f) == {s \in SegsOf(f) : segState[s] = "Done"}

\* Nothing is counted twice or missed: File.done is the number of its segments that
\* are done, and Health's that of the segments that failed.
CountsExact ==
    /\ \A f \in Files :
        fDone[f] = Cardinality({s \in DoneSegs(f) :
                        \A t \in Threads : ~(pc[t] = "count" /\ cur[t] = s)})
    /\ failedSegments = Cardinality({s \in segErr : ~(cur["dispatcher"] = s)})

Reporting == {t \in Threads : pc[t] = "report"}

\* required - len(doneFiles) is the number of files asked for and not done:
\* resetGrabbedFiles forgets as many of one as of the other. And GrabbedFiles()
\* lists files that are done, none twice, so that the signal means that all are.
CountersAgree ==
    /\ required + (IF mpc = "require" THEN 1 ELSE 0)
         = Len(doneFiles) + Cardinality(Reporting)
           + Cardinality({f \in Files : fRequired[f] /\ fState[f] # "Done"})
    /\ \A i \in DOMAIN doneFiles : fState[doneFiles[i]] = "Done"
    /\ IsInjective(doneFiles)

-----------------------------------------------------------------------------
\* Where Failover has a segment.  It is asked for once dispatch has settled on
\* a server: that server may die before it takes the request.
Chosen(s) == IF pc["dispatcher"] = "grab" /\ cur["dispatcher"] = s THEN {req} ELSE {}

AskedOf(s) ==
    Chosen(s) \cup {a \in Servers \X Groups : asked[<<s, a[1], a[2]>>] > 0}

Stage(s) ==
    CASE segState[s] = "Done" /\ s \notin segErr                     -> "done"
      [] segState[s] = "Done" /\ s \in segErr /\ NoMoreServers(hist[s]) -> "failed"
      [] segState[s] = "Done" /\ s \in segErr /\ ~NoMoreServers(hist[s]) -> "broken"
      [] segState[s] # "Done" /\ cur["responder"] = s
           /\ pc["responder"] \in {"check", "write"}                 -> "done"
      [] segState[s] # "Done" /\ AskedOf(s) # {}                        -> "asked"
      [] s \in lost                                                  -> "lost"
      [] OTHER                                                       -> "queued"

AskedFor(s) == IF Stage(s) = "asked" THEN CHOOSE a \in AskedOf(s) : TRUE ELSE <<>>

FO == INSTANCE Failover WITH stage <- [s \in Segments |-> Stage(s)],
                             asked <- [s \in Segments |-> AskedFor(s)]

\* Each segment goes through the failover loop that Failover describes, with
\* all its servers, groups and retries, whatever the others are doing.
IsFailover == FO!Safety

\* The Grabber without its segments, as RepairCycle uses it.
IsWanted(f) == \E s \in SegsOf(f) :
    segState[s] \in {"Working", "Done"} \/ s \in Range(queue) \/ \E t \in Threads : cur[t] = s

GL == INSTANCE GrabLots WITH
    fState     <- [f \in Files |-> IF fState[f] = "Resuming" THEN "Paused" ELSE fState[f]],
    segments   <- [f \in Files |-> Cardinality(SegsOf(f))],
    requiring  <- IF mpc = "require" THEN {thisFile} ELSE {},
    wanted     <- {f \in Files : IsWanted(f)},
    again      <- [f \in Files |-> 0],
    reporting  <- {FileOf[cur[t]] : t \in Reporting},
    signalling <- \E t \in Threads : pc[t] = "signal"

\* Whatever its segments, servers and goroutines do, files are enqueued, worked
\* on and done once, counted and signalled as in GrabLots, over all the lots.
IsGrabLots == GL!GrabSpec

\* Every call of the caller returns: the files it waits for are done, and
\* Shutdown finds every goroutine.  Unless a request was lost with its session, or
\* Strategy.Shutdown, which Shutdown calls once the dispatcher has ended, never returns.
CallerReturns ==
    \/ <>(calls = <<>> \/ lost # {})
    \/ <>[](mpc = "waitEnqueue" /\ EnqueueStopped)

\* A segment becomes done once: each time it does its file counts one more.
DoneOnce == \A f \in Files : fDone[f] <= Cardinality(SegsOf(f))
=============================================================================
