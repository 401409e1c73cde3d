------------------------------ MODULE RepairCycle ------------------------------
(***************************************************************************)
(* cmd/grabby: the NZB becomes files, all that are required are grabbed,    *)
(* and then files are assembled and repaired, with more par2 files grabbed  *)
(* when the repair needs them. The Grabber is GrabLots; the post-processor  *)
(* and the loop of main are here, and the par2 program, of which only what  *)
(* Par2Cmdline reads in its output is known.                                *)
(*                                                                          *)
(* A file of the NZB is what its subject says it is, with the recovery      *)
(* blocks its name promises, and what its first bytes will say.             *)
(***************************************************************************)
EXTENDS GrabLots, Functions

CONSTANTS
    Nzbs,           \* the NZBs that may be read: sequences of files
    MaxNeeded,      \* bound: the recovery blocks a repair may ask for
    MaxDamaged      \* bound: articles whose first bytes are damaged

Types == {"par2", "rar", "other"}

ASSUME NzbAssumption ==
    /\ MaxNeeded \in Nat /\ MaxDamaged \in Nat
    /\ \A z \in Nzbs : z \in Seq([type : Types, header : Types, segments : Nat, blocks : Nat])
    /\ \A z \in Nzbs : DOMAIN z \subseteq Files
    /\ \A z \in Nzbs : \A f \in DOMAIN z : z[f].blocks > 0 => z[f].type = "par2"

VARIABLES
    nzb,            \* the NZB, whose files go by their number in it
    fType,          \* File.filetype
    damaged,        \* damaged first bytes so far
    par2Files,      \* Grabber.par2Files
    pc,             \* where main is
    list, at,       \* the files its loop goes over, and the next of them
    shared,         \* the list is the array of par2Files
    file,           \* the file GrabFile is called for
    ppFiles,        \* PostProcessor.files
    repairer,       \* what Repairer() returned
    args,           \* the files Par2Cmdline passes to the par2 program
    started,        \* its command has been run
    repaired, blocksNeeded

typeVars   == <<fType, damaged, par2Files>>
callVars   == <<list, at, shared, file>>
repairVars == <<repairer, args, started, repaired, blocksNeeded>>
mainVars   == <<pc, callVars, ppFiles, repairVars>>
vars == <<grabVars, nzb, typeVars, mainVars>>

Places == {"read", "next", "reset", "grab", "require", "enqueue", "watch", "add",
           "repairer", "test", "assemble", "repair", "giveUp", "shutdown",
           "done", "fatal"}

TypeOK ==
    /\ GrabTypeOK
    /\ nzb \in Nzbs /\ fType \in [Files -> Types] /\ damaged \in 0 .. MaxDamaged
    /\ par2Files \in Seq(DOMAIN nzb) /\ list \in Seq(DOMAIN nzb) /\ at \in Nat
    /\ shared \in BOOLEAN /\ file \in Files \cup {0}
    /\ pc \in Places
    /\ ppFiles \in Seq([file : DOMAIN nzb, par2 : BOOLEAN, assembled : BOOLEAN])
    /\ repairer \in {"none", "noop", "par2"} /\ args \subseteq Files
    /\ started \in BOOLEAN /\ repaired \in BOOLEAN /\ blocksNeeded \in 0 .. MaxNeeded

Init ==
    /\ nzb \in Nzbs
    /\ fType = [f \in Files |-> "other"] /\ damaged = 0 /\ par2Files = <<>>
    /\ fState = [f \in Files |-> "Pending"] /\ fRequired = [f \in Files |-> FALSE]
    /\ segments = [f \in Files |-> 0] /\ required = 0 /\ doneFiles = <<>>
    /\ requiring = {} /\ wanted = {} /\ again = [f \in Files |-> 0]
    /\ reporting = {} /\ signalling = FALSE
    /\ pc = "read" /\ list = <<>> /\ at = 1 /\ shared = FALSE /\ file = 0
    /\ ppFiles = <<>>
    /\ repairer = "none" /\ args = {} /\ started = FALSE
    /\ repaired = FALSE /\ blocksNeeded = 0

Goto(place) == pc' = place

-----------------------------------------------------------------------------
\* The files of the NZB.

\* A mutant: the largest file comes first.
IsReversed(q) ==
    \A i, j \in DOMAIN q : i < j => nzb[q[i]].segments >= nzb[q[j]].segments

IsSorted(q) ==
    \A i, j \in DOMAIN q : i < j => nzb[q[i]].segments <= nzb[q[j]].segments

Times(f, q) == Cardinality({i \in DOMAIN q : q[i] = f})

\* What sort.Sort(BySegments(q)), which is not stable, may make of q.
Sorts(q) == {r \in [DOMAIN q -> Range(q)] :
                IsSorted(r) /\ \A f \in Range(q) : Times(f, r) = Times(f, q)}

\* NewFile calls FileIsPar2 for a par2 file, and pauses it; the others are required.
Par2Subjects == {f \in DOMAIN nzb : nzb[f].type = "par2"}

NewRequired == {f \in DOMAIN nzb : nzb[f].type # "par2"}

\* NewFile and FromNZB each list every par2 file.
Listings == {q \in [1 .. 2 * Cardinality(Par2Subjects) -> Par2Subjects] :
                IsSorted(q) /\ \A f \in Par2Subjects : Times(f, q) = 2}

\* FromNZB sorts the list, and resumes the first of it, which has the fewest segments.
\* GrabAll goes over all files.
FromNZB ==
    /\ pc = "read"
    /\ \E q \in Listings :
        /\ par2Files' = q
        /\ fRequired' = [f \in Files |-> f \in NewRequired \/ (q # <<>> /\ f = q[1])]
    /\ fState' = [f \in Files |-> IF fRequired'[f] THEN "Pending" ELSE "Paused"]
    /\ required' = Cardinality({f \in Files : fRequired'[f]})
    /\ fType' = [f \in Files |-> IF f \in DOMAIN nzb THEN nzb[f].type ELSE "other"]
    /\ segments' = [f \in Files |-> IF f \in DOMAIN nzb THEN nzb[f].segments ELSE 0]
    /\ list' = [f \in DOMAIN nzb |-> f]
    /\ Goto("next")
    /\ UNCHANGED <<nzb, damaged, doneFiles, requiring, wanted, again, reporting, signalling,
                   at, shared, file, ppFiles, repairVars>>

\* The NZB, or something else of the command line, cannot be used.
CannotStart ==
    /\ pc = "read" /\ Goto("fatal")
    /\ UNCHANGED <<grabVars, nzb, typeVars, callVars, ppFiles, repairVars>>

\* FileIsPar2 appends in place, and sorts what main is going over, or appends
\* to a copy.
FileIsPar2(f) ==
    /\ par2Files' \in Sorts(Append(par2Files, f))
    /\ \/ shared /\ list' = SubSeq(par2Files', 1, Len(list)) /\ UNCHANGED shared
       \/ shared' = FALSE /\ UNCHANGED list

SetFileType(f, type) ==
    /\ type # fType[f]
    /\ fType' = [fType EXCEPT ![f] = type]
    /\ IF type = "par2" THEN FileIsPar2(f) ELSE UNCHANGED <<par2Files, list, shared>>

\* The Sniffer has the first bytes of the first segment. They may be damaged: then
\* its article is rejected at its end, and grabbed again elsewhere.
Sniff(f) ==
    /\ pc \notin {"read", "done", "fatal"}
    /\ fState[f] = "Working" \/ (fState[f] = "Done" /\ again[f] > 0)
    /\ \/ SetFileType(f, nzb[f].header) /\ UNCHANGED damaged
       \/ SetFileType(f, "other") /\ damaged < MaxDamaged /\ damaged' = damaged + 1
    /\ UNCHANGED <<grabVars, nzb, pc, at, file, ppFiles, repairVars>>

-----------------------------------------------------------------------------
\* main grabs the files of a list: GrabAll's, of which it takes those that are
\* pending, or those that getMorePar2s chose.

Calls(place) ==
    Goto(place) /\ UNCHANGED <<nzb, typeVars, callVars, ppFiles, repairVars>>

NextFile ==
    /\ pc = "next" /\ at <= Len(list)
    /\ at' = at + 1 /\ file' = list[at]
    /\ Goto(IF repairer = "none" /\ fState[list[at]] # "Pending" THEN "next" ELSE "reset")
    /\ UNCHANGED <<grabVars, nzb, typeVars, list, shared, ppFiles, repairVars>>

AllAsked == pc = "next" /\ at > Len(list) /\ Calls("watch") /\ UNCHANGED grabVars

Reset == pc = "reset" /\ ResetGrabbed /\ Calls("grab")

Resume ==
    /\ pc = "grab" /\ ResumeFile(file)
    /\ Calls(IF fRequired[file] THEN "enqueue" ELSE "require")

Require == pc = "require" /\ RequireFile(file) /\ Calls("enqueue")

IsPending == pc = "grab" /\ fState[file] = "Pending" /\ Calls("enqueue") /\ UNCHANGED grabVars

\* The file is either done, or already working.
NothingToGrab ==
    pc = "grab" /\ fState[file] \in {"Working", "Done"} /\ Calls("next") /\ UNCHANGED grabVars

Enqueue == pc = "enqueue" /\ EnqueueFile(file) /\ Calls("next")

GrabFiles ==
    \/ NextFile
    \/ AllAsked
    \/ Reset
    \/ Resume
    \/ Require
    \/ IsPending
    \/ NothingToGrab
    \/ Enqueue

-----------------------------------------------------------------------------
\* watchGrabber
Watch == pc = "watch" /\ PostProcessable /\ Calls("add")

\* pp.AddFiles(g.GrabbedFiles()), which looks at files it has, but has none down.
AddFiles ==
    /\ pc = "add"
    /\ ppFiles' = ppFiles \o
            [i \in DOMAIN doneFiles |-> [file      |-> doneFiles[i],
                                         par2      |-> fType[doneFiles[i]] = "par2",
                                         assembled |-> FALSE]]
    /\ Goto(IF repairer = "none" THEN "repairer" ELSE "assemble")
    /\ UNCHANGED <<grabVars, nzb, typeVars, callVars, repairVars>>

\* Repairer(): for the files there are so far, if one of them is a par2 file.
Repairer ==
    /\ pc = "repairer"
    /\ IF \E i \in DOMAIN ppFiles : ppFiles[i].par2
       THEN /\ repairer' = "par2" /\ args' = {ppFiles[i].file : i \in DOMAIN ppFiles}
            /\ UNCHANGED repaired
       ELSE repairer' = "noop" /\ repaired' = TRUE /\ UNCHANGED args
    /\ Goto("test")
    /\ UNCHANGED <<grabVars, nzb, typeVars, callVars, ppFiles, started, blocksNeeded>>

\* The blocks of the first n files of par2Files, whether or not they were grabbed.
Blocks(n) == SumFunctionOnSet([i \in DOMAIN par2Files |-> nzb[par2Files[i]].blocks], 1 .. n)

Suffice(n) == Blocks(n) >= blocksNeeded

NeedsBlocks == pc = "test" /\ ~repaired /\ blocksNeeded > 0

\* getMorePar2s: as many of the first files as suffice, and no more ...
GetMorePar2s ==
    /\ NeedsBlocks
    /\ \E n \in DOMAIN par2Files :
        /\ Suffice(n) /\ \A k \in 1 .. n - 1 : ~Suffice(k)
        /\ list' = SubSeq(par2Files, 1, n)
    /\ at' = 1 /\ shared' = TRUE
    /\ Goto("next")
    /\ UNCHANGED <<grabVars, nzb, typeVars, file, ppFiles, repairVars>>

\* ... or there are not enough.
GiveUp ==
    NeedsBlocks /\ ~Suffice(Len(par2Files)) /\ Calls("giveUp") /\ UNCHANGED grabVars

TryAgain ==
    pc = "test" /\ ~repaired /\ blocksNeeded = 0 /\ Calls("assemble") /\ UNCHANGED grabVars

Repaired == pc = "test" /\ repaired /\ Calls("shutdown") /\ UNCHANGED grabVars

\* Assemble: the files that are not yet assembled, whose segments are then gone: it
\* fails for a file that is there twice, and may for others.
Assemble ==
    /\ pc = "assemble"
    /\ \/ Goto("fatal") /\ UNCHANGED ppFiles
       \/ /\ \A i, j \in DOMAIN ppFiles : i # j => ppFiles[i].file # ppFiles[j].file
          /\ ppFiles' = [i \in DOMAIN ppFiles |-> [ppFiles[i] EXCEPT !.assembled = TRUE]]
          /\ Goto("repair")
    /\ UNCHANGED <<grabVars, nzb, typeVars, callVars, repairVars>>

\* Repair: the program says that all is well, how many blocks it needs, or neither.
Repair ==
    /\ pc = "repair" /\ ~started
    /\ started' = TRUE
    /\ \/ Goto("test") /\ repaired' = TRUE /\ UNCHANGED blocksNeeded
       \/ Goto("test") /\ blocksNeeded' \in 0 .. MaxNeeded /\ UNCHANGED repaired
       \/ Goto("fatal") /\ UNCHANGED <<repaired, blocksNeeded>>
    /\ UNCHANGED <<grabVars, nzb, typeVars, callVars, ppFiles, repairer, args>>

\* An exec.Cmd runs once: the next Repair returns an error that is no ExitError.
RepairAgain == pc = "repair" /\ started /\ Calls("fatal") /\ UNCHANGED grabVars

\* g.Shutdown waits for the responder and the dispatcher, which may be in FileDone.
Shutdown ==
    /\ pc \in {"shutdown", "giveUp"} /\ reporting = {} /\ ~signalling
    /\ \/ pc = "shutdown" /\ Calls("done")
       \/ Calls("fatal")
    /\ UNCHANGED grabVars

PostProcess ==
    \/ AddFiles
    \/ Repairer
    \/ GetMorePar2s
    \/ GiveUp
    \/ TryAgain
    \/ Repaired
    \/ Assemble
    \/ Repair
    \/ RepairAgain
    \/ Shutdown

Main == FromNZB \/ CannotStart \/ GrabFiles \/ Watch \/ PostProcess

-----------------------------------------------------------------------------
Running == pc \notin {"read", "done", "fatal"}

Work(f) ==
    /\ Running
    /\ FileWorking(f) \/ FileDone(f) \/ ReportFile(f)
    /\ UNCHANGED <<nzb, typeVars, mainVars>>

WorkAgain(f) == Running /\ FileDoneAgain(f) /\ UNCHANGED <<nzb, typeVars, mainVars>>

Next ==
    \/ Main
    \/ \E f \in Files :
        \/ Work(f)
        \/ WorkAgain(f)
        \/ Sniff(f)

\* Main goes on, and the files that are enqueued are done some time, which is what
\* the Grabber promises while no request dies with its session.
Fairness == WF_vars(Main) /\ \A f \in Files : WF_vars(Work(f))

Safety == Init /\ [][Next]_vars

Spec == Safety /\ Fairness

-----------------------------------------------------------------------------
Added(f) == {i \in DOMAIN ppFiles : ppFiles[i].file = f}

\* What is repaired, and what the program leaves behind when it ends well, is
\* whole: each file that was required has been added, once although the
\* post-processor never notes what it has, and assembled - unless there is no
\* par2 file, in which case nothing is - and those of the first lot are named to
\* the par2 program.
ProcessesWhole ==
    pc \in {"repair", "done"} => \A f \in Files : fRequired[f] =>
        /\ Cardinality(Added(f)) = 1
        /\ repairer = "par2" => \A i \in Added(f) : ppFiles[i].assembled
        /\ repairer = "par2" /\ nzb[f].type # "par2" => f \in args

\* Of the files whose subject names par2, none is asked for while one with fewer
\* segments is left. It does not hold once the first bytes of such a file were damaged
\* and the Sniffer then lists it again: the sort, which is not stable, may move a file
\* that main has not asked for behind the place where main is.
SmallestFirst ==
    (\A f \in Par2Subjects : Times(f, par2Files) = 2) =>
        \A f, g \in Par2Subjects :
            fRequired[f] /\ segments[g] < segments[f] => fRequired[g]

\* The program ends, unless it waits for a file that has no segments, or for a lot
\* of which it has all the files, or has asked for a file while FileDone signals.
Ends == <>(\/ pc \in {"done", "fatal"}
           \/ pc = "watch" /\ \E f \in Files : fRequired[f] /\ segments[f] = 0
           \/ pc = "watch" /\ \A i \in DOMAIN list : Added(list[i]) # {}
           \/ pc \in {"reset", "require"} /\ signalling)
=============================================================================
