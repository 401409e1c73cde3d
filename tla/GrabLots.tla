------------------------------- MODULE GrabLots -------------------------------
(***************************************************************************)
(* What a caller that grabs lots of files, and waits for each lot on        *)
(* PostProcessable() before it asks for more, needs to know of the Grabber: *)
(* its files and its counters, without segments, servers and goroutines.    *)
(***************************************************************************)
EXTENDS Naturals, Sequences, FiniteSets

CONSTANT Files  \* the files of the NZB

ASSUME FilesAssumption == IsFiniteSet(Files)

VARIABLES
    fState,     \* File.state; a file that is being resumed is still paused
    fRequired,  \* File.required
    required,   \* Grabber.required
    doneFiles,  \* Grabber.doneFiles
    segments,   \* how many segments each file has
    requiring,  \* the file whose FileRequired is still to run
    wanted,     \* the files that GrabFile has enqueued
    again,      \* the segments of each that GrabFile has enqueued once more
    reporting,  \* the files that are done and whose FileDone is still to run
    signalling  \* FileDone is sending on pp, with doneMx held

fileVars == <<fState, fRequired>>
lotVars  == <<required, doneFiles>>
wantVars == <<segments, wanted, again>>
grabVars == <<fileVars, lotVars, requiring, wantVars, reporting, signalling>>

GrabTypeOK ==
    /\ fState \in [Files -> {"Pending", "Paused", "Working", "Done"}]
    /\ fRequired \in [Files -> BOOLEAN]
    /\ required \in Nat /\ doneFiles \in Seq(Files)
    /\ segments \in [Files -> Nat] /\ again \in [Files -> Nat]
    /\ requiring \subseteq Files /\ wanted \subseteq Files /\ reporting \subseteq Files
    /\ signalling \in BOOLEAN

\* The required files are pending, the others paused, and nothing is asked for.
GrabInit ==
    /\ fRequired \in [Files -> BOOLEAN] /\ segments \in [Files -> Nat]
    /\ fState = [f \in Files |-> IF fRequired[f] THEN "Pending" ELSE "Paused"]
    /\ required = Cardinality({f \in Files : fRequired[f]}) /\ doneFiles = <<>>
    /\ requiring = {} /\ wanted = {} /\ again = [f \in Files |-> 0]
    /\ reporting = {} /\ signalling = FALSE

isPostProcessable == Len(doneFiles) >= required

-----------------------------------------------------------------------------
\* GrabFile, which one caller at a time makes: the counters start again once what they count is complete ...
ResetGrabbed ==
    /\ requiring = {} /\ ~signalling
    /\ IF isPostProcessable THEN required' = 0 /\ doneFiles' = <<>> ELSE UNCHANGED lotVars
    /\ UNCHANGED <<fileVars, requiring, wantVars, reporting, signalling>>

\* A mutant: it stays as File.Resume leaves it for its segments.
ResumeHalf(f) ==
    /\ requiring = {} /\ fState[f] = "Paused"
    /\ fState' = [fState EXCEPT ![f] = "Resuming"]
    /\ fRequired' = [fRequired EXCEPT ![f] = TRUE]
    /\ requiring' = IF fRequired[f] THEN {} ELSE {f}
    /\ UNCHANGED <<lotVars, wantVars, reporting, signalling>>

\* ... a paused file is resumed, and required if it was not ...
ResumeFile(f) ==
    /\ requiring = {} /\ fState[f] = "Paused"
    /\ fState' = [fState EXCEPT ![f] = "Pending"]
    /\ fRequired' = [fRequired EXCEPT ![f] = TRUE]
    /\ requiring' = IF fRequired[f] THEN {} ELSE {f}
    /\ UNCHANGED <<lotVars, wantVars, reporting, signalling>>

\* (FileRequired)
RequireFile(f) ==
    /\ f \in requiring /\ ~signalling
    /\ required' = required + 1
    /\ requiring' = requiring \ {f}
    /\ UNCHANGED <<fileVars, doneFiles, wantVars, reporting, signalling>>

\* ... and its segments are enqueued, even if they were before.
EnqueueFile(f) ==
    /\ fState[f] # "Paused" /\ requiring = {}
    /\ wanted' = IF segments[f] = 0 THEN wanted ELSE wanted \cup {f}
    /\ again' = IF f \in wanted THEN [again EXCEPT ![f] = @ + segments[f]] ELSE again
    /\ UNCHANGED <<fileVars, lotVars, segments, requiring, reporting, signalling>>

\* The dispatcher takes its first segment.
FileWorking(f) ==
    /\ f \in wanted /\ fState[f] = "Pending"
    /\ fState' = [fState EXCEPT ![f] = "Working"]
    /\ UNCHANGED <<fRequired, lotVars, requiring, wantVars, reporting, signalling>>

\* SegmentDone of its last segment calls File.Done ...
FileDone(f) ==
    /\ fState[f] = "Working"
    /\ fState' = [fState EXCEPT ![f] = "Done"]
    /\ reporting' = reporting \cup {f}
    /\ UNCHANGED <<fRequired, lotVars, requiring, wantVars, signalling>>

\* ... which a segment that was enqueued again may make it call again, while no
\* other segment of the file is being counted.
FileDoneAgain(f) ==
    /\ fState[f] = "Done" /\ again[f] > 0 /\ f \notin reporting
    /\ again' = [again EXCEPT ![f] = @ - 1]
    /\ reporting' = reporting \cup {f}
    /\ UNCHANGED <<fileVars, lotVars, segments, requiring, wanted, signalling>>

\* Mutants: each file is signalled; the last file of a lot is not noticed.
ReportAlways(f) ==
    /\ f \in reporting /\ ~signalling
    /\ reporting' = reporting \ {f}
    /\ doneFiles' = Append(doneFiles, f)
    /\ signalling' = TRUE
    /\ UNCHANGED <<fileVars, required, requiring, wantVars>>

ReportLate(f) ==
    /\ f \in reporting /\ ~signalling
    /\ reporting' = reporting \ {f}
    /\ doneFiles' = Append(doneFiles, f)
    /\ signalling' = (Len(doneFiles') > required)
    /\ UNCHANGED <<fileVars, required, requiring, wantVars>>

\* ... and that Grabber.FileDone, which signals when the lot is complete.
ReportFile(f) ==
    /\ f \in reporting /\ ~signalling
    /\ reporting' = reporting \ {f}
    /\ doneFiles' = Append(doneFiles, f)
    /\ UNCHANGED <<fileVars, required, requiring, wantVars>>
    /\ signalling' = isPostProcessable'

\* <-PostProcessable()
PostProcessable ==
    /\ signalling
    /\ signalling' = FALSE
    /\ UNCHANGED <<fileVars, lotVars, requiring, wantVars, reporting>>

-----------------------------------------------------------------------------
GrabNext ==
    \/ ResetGrabbed
    \/ PostProcessable
    \/ \E f \in Files :
        \/ ResumeFile(f) \/ RequireFile(f) \/ EnqueueFile(f)
        \/ FileWorking(f) \/ FileDone(f) \/ FileDoneAgain(f) \/ ReportFile(f)

\* When FileDone signals, all the files that are required are done, but for one whose
\* FileRequired waits for the signal to be received: the counters, which every lot
\* resets, agree with the states of the files, which no lot does.
AllRequiredDone ==
    signalling => \A f \in Files : fRequired[f] /\ f \notin requiring => fState[f] = "Done"

\* GrabFile is called for no file that is enqueued and not yet done.
GrabbedOnce == again = [f \in Files |-> 0]

GrabSpec == GrabInit /\ [][GrabNext]_grabVars
=============================================================================
