-------------------------- MODULE RepairCycleProofs --------------------------
(***************************************************************************)
(* Proof, for any NZB, that what the program repairs and ends with is       *)
(* whole, and that it asks for the smallest par2 files first.               *)
(*                                                                          *)
(* It rests on what GrabLots promises, which is proved before it: that the   *)
(* Grabber's signal means what it says, for any number of files and over     *)
(* any number of lots, since required and doneFiles, which begin again with  *)
(* each lot, always agree with the states of the files.                     *)
(*                                                                          *)
(* While main goes from one lot to the next, what is true of the counters,  *)
(* of the files and of the post-processor's list differs; the invariant is  *)
(* what always holds, and one of four stages.                               *)
(***************************************************************************)
EXTENDS RepairCycle, Integers, SequenceTheorems, FiniteSetTheorems, FunctionTheorems, TLAPS

-----------------------------------------------------------------------------
\* GrabLots: a signal means that the lot is done

\* The files that are required and not done.
Left == {f \in Files : fRequired[f] /\ fState[f] # "Done"}

\* What GrabFile and the goroutines leave a file in.
Orderly ==
    /\ \A f \in Files : fState[f] # "Paused" => fRequired[f]
    /\ \A f \in wanted : fState[f] # "Paused"
    /\ \A f \in requiring : fState[f] = "Pending" /\ f \notin wanted
    /\ requiring = {} \/ \E f \in Files : requiring = {f}
    /\ \A f \in reporting : fState[f] = "Done"

\* required - len(doneFiles) is the number of files that are required and not yet in
\* doneFiles, but for the one that is being required.
Balance ==
    required + Cardinality(requiring)
      = Len(doneFiles) + Cardinality(reporting) + Cardinality(Left)

\* AllRequiredDone follows, for a signal is only sent when len(doneFiles) has
\* reached required, and neither changes until it is received.
Inv == GrabTypeOK /\ Orderly /\ Balance /\ (signalling => isPostProcessable)

LEMMA Finite ==
    ASSUME NEW S \in SUBSET Files
    PROVE  IsFiniteSet(S) /\ Cardinality(S) \in Nat
BY FilesAssumption, FS_Subset, FS_CardinalityType

LEMMA InitInv == GrabInit => Inv
<1> SUFFICES ASSUME GrabInit PROVE Inv
  OBVIOUS
<1>1. {f \in Files : fRequired[f]} \in SUBSET Files
  OBVIOUS
<1>2. required \in Nat
  BY <1>1, Finite DEF GrabInit
<1>3. GrabTypeOK
  <2>1. fState \in [Files -> {"Pending", "Paused", "Working", "Done"}]
    BY DEF GrabInit
  <2>2. doneFiles \in Seq(Files)
    BY DEF GrabInit
  <2>3. again \in [Files -> Nat]
    BY DEF GrabInit
  <2> QED  BY <1>2, <2>1, <2>2, <2>3 DEF GrabInit, GrabTypeOK
<1>4. Orderly
  BY DEF GrabInit, Orderly
<1>5. Left = {f \in Files : fRequired[f]}
  BY DEF Left, GrabInit
<1>6. Balance
  BY <1>2, <1>5, FS_EmptySet DEF Balance, GrabInit
<1> QED  BY <1>3, <1>4, <1>6 DEF Inv, GrabInit

\* The signal is what it was, or is received.
LEMMA CallerInv ==
    ASSUME Inv, ResetGrabbed \/ PostProcessable
    PROVE  Inv'
<1> USE DEF fileVars, lotVars, wantVars
<1>1. GrabTypeOK' /\ Orderly'
  <2>1. (required' = required /\ doneFiles' = doneFiles) \/ (required' = 0 /\ doneFiles' = <<>>)
    BY DEF ResetGrabbed, PostProcessable
  <2>2. required' \in Nat /\ doneFiles' \in Seq(Files)
    <3>1. required \in Nat /\ doneFiles \in Seq(Files) /\ <<>> \in Seq(Files)
      BY DEF Inv, GrabTypeOK
    <3>2. CASE required' = required /\ doneFiles' = doneFiles
      BY <3>1, <3>2
    <3>3. CASE required' = 0 /\ doneFiles' = <<>>
      BY <3>1, <3>3
    <3> QED  BY <2>1, <3>2, <3>3
  <2>3. signalling' \in BOOLEAN
    BY DEF ResetGrabbed, PostProcessable, Inv, GrabTypeOK
  <2>4. UNCHANGED <<fState, fRequired, segments, again, requiring, wanted, reporting>>
    BY DEF ResetGrabbed, PostProcessable
  <2> QED  BY <2>2, <2>3, <2>4 DEF Inv, GrabTypeOK, Orderly
<1>2. Left' = Left
  BY DEF ResetGrabbed, PostProcessable, Left
<1>3. CASE PostProcessable \/ ~isPostProcessable
  <2>1. UNCHANGED <<required, requiring, doneFiles, reporting>> /\ (signalling' => signalling)
    BY <1>3 DEF ResetGrabbed, PostProcessable
  <2> QED  BY <1>1, <1>2, <2>1 DEF Inv, Balance, isPostProcessable
<1>4. CASE ResetGrabbed /\ isPostProcessable
  <2>1. requiring = {} /\ required \in Nat /\ Len(doneFiles) \in Nat /\ Left \in SUBSET Files
    BY <1>4 DEF ResetGrabbed, Inv, GrabTypeOK, Left
  <2>2. reporting \in SUBSET Files
    BY DEF Inv, GrabTypeOK
  <2>3. Cardinality(reporting) = 0 /\ Cardinality(Left) = 0 /\ Cardinality(requiring) = 0
    BY <2>1, <2>2, <1>4, Finite, FS_EmptySet DEF Inv, Balance, isPostProcessable
  <2>4. /\ required' = 0 /\ doneFiles' = <<>> /\ ~signalling'
        /\ UNCHANGED <<requiring, reporting>>
    BY <1>4 DEF ResetGrabbed
  <2> QED  BY <1>1, <1>2, <2>3, <2>4 DEF Inv, Balance
<1> QED  BY <1>3, <1>4

LEMMA ResumeInv ==
    ASSUME Inv, NEW f \in Files, ResumeFile(f)
    PROVE  Inv'
<1> USE DEF fileVars, lotVars, wantVars
<1>1. GrabTypeOK'
  BY DEF ResumeFile, Inv, GrabTypeOK
<1>2. Orderly'
  BY DEF ResumeFile, Inv, GrabTypeOK, Orderly
<1>3. Left \in SUBSET Files /\ requiring = {} /\ reporting \in SUBSET Files
  BY DEF Left, ResumeFile, Inv, GrabTypeOK
<1>4. CASE fRequired[f]
  <2>1. Left' = Left /\ requiring' = requiring
    BY <1>4 DEF ResumeFile, Left, Inv, GrabTypeOK
  <2> QED  BY <1>1, <1>2, <2>1 DEF ResumeFile, Inv, Balance, isPostProcessable
<1>5. CASE ~fRequired[f]
  <2>1. Left' = Left \cup {f} /\ f \notin Left /\ requiring' = requiring \cup {f}
    BY <1>3, <1>5 DEF ResumeFile, Left, Inv, GrabTypeOK
  <2>2. /\ Cardinality(Left') = Cardinality(Left) + 1
        /\ Cardinality(requiring') = Cardinality(requiring) + 1
    BY <1>3, <2>1, Finite, FS_AddElement, FS_EmptySet
  <2>3. Cardinality(requiring) \in Nat /\ Cardinality(reporting) \in Nat /\ Cardinality(Left) \in Nat
    BY <1>3, Finite
  <2> QED  BY <1>1, <1>2, <2>2, <2>3 DEF ResumeFile, Inv, GrabTypeOK, Balance, isPostProcessable
<1> QED  BY <1>4, <1>5

LEMMA RequireInv ==
    ASSUME Inv, NEW f \in Files, RequireFile(f)
    PROVE  Inv'
<1> USE DEF fileVars, lotVars, wantVars
<1>1. GrabTypeOK' /\ Orderly'
  BY DEF RequireFile, Inv, GrabTypeOK, Orderly
<1>2. Left' = Left /\ ~signalling'
  BY DEF RequireFile, Left
<1>3. requiring \in SUBSET Files /\ Left \in SUBSET Files /\ reporting \in SUBSET Files
  BY DEF Inv, GrabTypeOK, Left
<1>4. Cardinality(requiring') = Cardinality(requiring) - 1
  BY <1>3, Finite, FS_RemoveElement DEF RequireFile
<1>5. Cardinality(requiring) \in Nat /\ Cardinality(reporting) \in Nat /\ Cardinality(Left) \in Nat
  BY <1>3, Finite
<1>6. Balance'
  BY <1>2, <1>4, <1>5 DEF RequireFile, Inv, GrabTypeOK, Balance
<1> QED  BY <1>1, <1>2, <1>6 DEF Inv

\* Enqueueing a file, or beginning to work on it, counts nothing.
LEMMA UncountedInv ==
    ASSUME Inv, NEW f \in Files, EnqueueFile(f) \/ FileWorking(f)
    PROVE  Inv'
<1> USE DEF fileVars, lotVars, wantVars
<1>1. GrabTypeOK'
  BY DEF EnqueueFile, FileWorking, Inv, GrabTypeOK
<1>2. Orderly'
  BY DEF EnqueueFile, FileWorking, Inv, GrabTypeOK, Orderly
<1>3. Left' = Left
  BY DEF EnqueueFile, FileWorking, Left, Inv, GrabTypeOK
<1> QED
  BY <1>1, <1>2, <1>3 DEF EnqueueFile, FileWorking, Inv, Balance, isPostProcessable

LEMMA DoneInv ==
    ASSUME Inv, NEW f \in Files, FileDone(f)
    PROVE  Inv'
<1> USE DEF fileVars, lotVars, wantVars
<1>1. GrabTypeOK'
  BY DEF FileDone, Inv, GrabTypeOK
<1>2. Orderly'
  BY DEF FileDone, Inv, GrabTypeOK, Orderly
<1>3. Left' = Left \ {f} /\ f \in Left /\ reporting' = reporting \cup {f} /\ f \notin reporting
  BY DEF FileDone, Left, Inv, GrabTypeOK, Orderly
<1>4. requiring \in SUBSET Files /\ Left \in SUBSET Files /\ reporting \in SUBSET Files
  BY DEF Inv, GrabTypeOK, Left
<1>5. /\ Cardinality(Left') = Cardinality(Left) - 1
      /\ Cardinality(reporting') = Cardinality(reporting) + 1
  BY <1>3, <1>4, Finite, FS_AddElement, FS_RemoveElement
<1>6. Cardinality(requiring) \in Nat /\ Cardinality(reporting) \in Nat /\ Cardinality(Left) \in Nat
  BY <1>4, Finite
<1>7. Balance'
  BY <1>5, <1>6 DEF FileDone, Inv, GrabTypeOK, Balance
<1> QED  BY <1>1, <1>2, <1>7 DEF FileDone, Inv, isPostProcessable

LEMMA ReportInv ==
    ASSUME Inv, NEW f \in Files, ReportFile(f)
    PROVE  Inv'
<1> USE DEF fileVars, lotVars, wantVars
<1>1. doneFiles' = Append(doneFiles, f) /\ doneFiles \in Seq(Files)
  BY DEF ReportFile, Inv, GrabTypeOK
<1>2. doneFiles' \in Seq(Files) /\ Len(doneFiles') = Len(doneFiles) + 1 /\ Len(doneFiles) \in Nat
  BY <1>1
<1>3. signalling' = (Len(doneFiles') >= required')
  BY DEF ReportFile, isPostProcessable
<1>4. GrabTypeOK'
  BY <1>2, <1>3 DEF ReportFile, Inv, GrabTypeOK
<1>5. Orderly' /\ Left' = Left
  BY DEF ReportFile, Inv, Orderly, Left
<1>6. requiring \in SUBSET Files /\ Left \in SUBSET Files /\ reporting \in SUBSET Files
  BY DEF Inv, GrabTypeOK, Left
<1>7. Cardinality(reporting') = Cardinality(reporting) - 1
  BY <1>6, Finite, FS_RemoveElement DEF ReportFile
<1>8. Cardinality(requiring) \in Nat /\ Cardinality(reporting) \in Nat /\ Cardinality(Left) \in Nat
  BY <1>6, Finite
<1>9. Balance'
  BY <1>2, <1>5, <1>7, <1>8 DEF ReportFile, Inv, GrabTypeOK, Balance
<1> QED  BY <1>3, <1>4, <1>5, <1>9 DEF Inv, isPostProcessable

LEMMA NextInv ==
    ASSUME Inv, GrabbedOnce, [GrabNext]_grabVars
    PROVE  Inv'
<1>1. CASE UNCHANGED grabVars
  BY <1>1 DEF grabVars, fileVars, lotVars, wantVars, Inv, GrabTypeOK, Orderly, Balance, Left,
              isPostProcessable
<1>2. ASSUME NEW f \in Files PROVE ~FileDoneAgain(f)
  BY DEF GrabbedOnce, FileDoneAgain
<1> QED
  BY <1>1, <1>2, CallerInv, ResumeInv, RequireInv, UncountedInv, DoneInv, ReportInv DEF GrabNext

\* The signal leaves no required file behind.
LEMMA SignalledDone == Inv => AllRequiredDone
<1> SUFFICES ASSUME Inv, signalling, NEW f \in Files, fRequired[f], f \notin requiring,
                    fState[f] # "Done"
             PROVE  FALSE
  BY DEF AllRequiredDone
<1>1. requiring \in SUBSET Files /\ Left \in SUBSET Files /\ reporting \in SUBSET Files
  BY DEF Inv, GrabTypeOK, Left
<1>2. f \in Left /\ requiring \subseteq Left
  BY <1>1 DEF Left, Inv, Orderly
<1>3. Cardinality(requiring) <= Cardinality(Left \ {f})
  BY <1>1, <1>2, Finite, FS_Subset, FS_RemoveElement
<1>4. Cardinality(Left \ {f}) = Cardinality(Left) - 1
  BY <1>1, <1>2, Finite, FS_RemoveElement
<1>5. required \in Nat /\ Len(doneFiles) \in Nat
  BY DEF Inv, GrabTypeOK
<1> QED  BY <1>1, <1>3, <1>4, <1>5, Finite DEF Inv, Balance, isPostProcessable

-----------------------------------------------------------------------------
\* The file-level state of the Grabber keeps its type, and its counters agree with
\* the states of the files, for callers that grab no file twice before it is done.
THEOREM CountersInStep == GrabSpec /\ []GrabbedOnce => [](GrabTypeOK /\ Balance)
<1>1. Inv => GrabTypeOK /\ Balance
  BY DEF Inv
<1> QED  BY <1>1, InitInv, NextInv, PTL DEF GrabSpec

\* Whenever FileDone signals that the lot is complete, over any number of lots, each
\* required file is done, for such callers: what makes GrabbedFiles() all of them.
THEOREM SignalMeansDone == GrabSpec /\ []GrabbedOnce => []AllRequiredDone
<1> QED  BY SignalledDone, InitInv, NextInv, PTL DEF GrabSpec

-----------------------------------------------------------------------------
\* RepairCycle: what main does between the lots

\* What FromNZB finds.
Fresh ==
    /\ fRequired = [f \in Files |-> FALSE]
    /\ doneFiles = <<>> /\ requiring = {} /\ wanted = {} /\ again = [f \in Files |-> 0]
    /\ reporting = {} /\ ~signalling /\ at = 1 /\ ~shared /\ ppFiles = <<>>
    /\ repairer = "none" /\ ~started /\ ~repaired /\ blocksNeeded = 0

\* GrabFile has been called for file, and has not yet returned.
Asking == pc \in {"reset", "grab", "require", "enqueue"}

Kept ==
    /\ Orderly
    /\ \A f \in Files : fRequired[f] => f \in DOMAIN nzb /\ fState[f] # "Paused"
    /\ \A f \in DOMAIN nzb : nzb[f].type # "par2" => fRequired[f]
    /\ \A f \in Range(doneFiles) : fState[f] = "Done"
    /\ \A i \in DOMAIN ppFiles : fState[ppFiles[i].file] = "Done"
    /\ \A f \in Files : again[f] > 0 => f \in wanted
    /\ requiring = IF pc = "require" THEN {file} ELSE {}
    /\ at >= 1 /\ (Asking => file \in DOMAIN nzb)
    /\ signalling => isPostProcessable
    /\ shared => Len(list) <= Len(par2Files) /\ list = SubSeq(par2Files, 1, Len(list))
    /\ blocksNeeded > 0 => started

\* Each required file is in the post-processor's list, and only once.
AllOnce == \A f \in Files : fRequired[f] => \E i \in DOMAIN ppFiles : Added(f) = {i}

AllDone == \A f \in Files : fRequired[f] /\ f \notin requiring => fState[f] = "Done"

AllAssembled == \A i \in DOMAIN ppFiles : ppFiles[i].assembled

NoneTwice == \A i, j \in DOMAIN ppFiles : i # j => ppFiles[i].file # ppFiles[j].file

Named == \A f \in DOMAIN nzb : nzb[f].type # "par2" => f \in args

\* GrabAll's lot.
First ==
    /\ repairer = "none" /\ ~started /\ ~repaired /\ ~shared
    /\ pc \in {"next", "reset", "grab", "enqueue", "watch", "add", "repairer"}
    /\ list = [f \in DOMAIN nzb |-> f]
    /\ GrabbedOnce /\ Balance
    /\ Asking => file = at - 1 /\ fState[file] = "Pending" /\ file \notin wanted
    /\ \A f \in wanted : f < IF Asking THEN at - 1 ELSE at
    /\ \A i, j \in DOMAIN doneFiles : i # j => doneFiles[i] # doneFiles[j]
    /\ Range(doneFiles) \cap reporting = {}
    /\ \A f \in Files : fState[f] = "Done" => f \in reporting \cup Range(doneFiles)
    /\ IF pc = "repairer" THEN AllOnce ELSE ppFiles = <<>>
    /\ pc \in {"add", "repairer"} => isPostProcessable /\ ~signalling

\* No file is being grabbed.
Quiet ==
    /\ repairer # "none"
    /\ pc \in {"test", "assemble", "repair", "giveUp", "shutdown", "done", "next", "reset"}
    /\ isPostProcessable /\ ~signalling /\ reporting = {} /\ GrabbedOnce /\ AllDone
    /\ AllOnce
    /\ repairer = "par2" => Named /\ (pc = "repair" \/ repaired => AllAssembled)
    /\ ~repaired => repairer = "par2"
    /\ pc \in {"shutdown", "done"} => repaired
    /\ pc \in {"next", "reset"} =>
        /\ ~repaired /\ started
        /\ Len(list) >= 1 /\ at = IF pc = "next" THEN 1 ELSE 2

New == {f \in Files : fRequired[f] /\ Added(f) = {}}

\* A lot of getMorePar2s, whose counters have begun again.
More ==
    /\ repairer = "par2" /\ started /\ Named
    /\ pc \in {"next", "reset", "grab", "require", "enqueue", "watch", "add"}
    /\ required + Cardinality(requiring) = Cardinality(New)
    /\ IF pc = "add" THEN isPostProcessable
       ELSE isPostProcessable => signalling \/ (required = 0 /\ doneFiles = <<>>)
    /\ required = 0 => AllDone /\ reporting = {} /\ GrabbedOnce
    /\ pc = "enqueue" => required > 0
    /\ pc \in {"require", "enqueue"} => file \in Par2Subjects
    /\ \A f \in DOMAIN nzb : nzb[f].type # "par2" => fState[f] = "Done" /\ again[f] = 0

\* It has been added.
Last ==
    /\ repairer = "par2" /\ started /\ Named
    /\ pc \in {"assemble", "repair"}
    /\ NoneTwice => New = {}
    /\ pc = "repair" => NoneTwice /\ AllAssembled

RepairInv ==
    /\ TypeOK
    /\ pc = "read" => Fresh
    /\ pc \in {"read", "fatal"} \/ (Kept /\ (First \/ Quiet \/ More \/ Last))

ListedTwice == \A f \in Par2Subjects : Times(f, par2Files) = 2

\* The files of the list that GrabFile has been called for so far.
Asked == 1 .. (IF pc \in {"reset", "grab"} THEN at - 2 ELSE at - 1)

\* What main goes over is a part of a list that is sorted, unless a file with par2 in
\* its subject was listed anew, and the files before the place where main is are all
\* required.
InOrder ==
    (Asking \/ pc = "next") /\ repairer # "none" /\ ListedTwice =>
        /\ shared /\ at <= Len(list) + 1
        /\ Asking => at > 1 /\ file = list[at - 1]
        /\ \A i \in Asked : fRequired[list[i]]

Listed ==
    /\ IsSorted(par2Files)
    /\ \A f \in Par2Subjects : Times(f, par2Files) >= 2
    /\ \A f \in DOMAIN nzb : segments[f] = nzb[f].segments

Least == SmallestFirst /\ (pc \notin {"read", "fatal"} => Listed /\ InOrder)

-----------------------------------------------------------------------------
LEMMA SeqFacts ==
    ASSUME NEW S, NEW q \in Seq(S)
    PROVE  DOMAIN q = 1 .. Len(q) /\ Len(q) \in Nat /\ \A i \in DOMAIN q : q[i] \in S
OBVIOUS

LEMMA AppendFacts ==
    ASSUME NEW S, NEW q \in Seq(S), NEW e \in S
    PROVE  /\ DOMAIN Append(q, e) = DOMAIN q \cup {Len(q) + 1} /\ Len(q) + 1 \notin DOMAIN q
           /\ \A i \in DOMAIN q : Append(q, e)[i] = q[i]
           /\ Append(q, e)[Len(q) + 1] = e
           /\ Range(Append(q, e)) = Range(q) \cup {e}
<1>1. /\ DOMAIN Append(q, e) = DOMAIN q \cup {Len(q) + 1} /\ Len(q) + 1 \notin DOMAIN q
      /\ \A i \in DOMAIN q : Append(q, e)[i] = q[i]
      /\ Append(q, e)[Len(q) + 1] = e
  OBVIOUS
<1>2. Range(Append(q, e)) \subseteq Range(q) \cup {e}
  BY <1>1 DEF Range
<1>3. Range(q) \cup {e} \subseteq Range(Append(q, e))
  BY <1>1 DEF Range
<1> QED  BY <1>1, <1>2, <1>3

LEMMA NzbType ==
    ASSUME TypeOK
    PROVE  /\ DOMAIN nzb = 1 .. Len(nzb) /\ Len(nzb) \in Nat
           /\ DOMAIN nzb \subseteq Files
           /\ \A f \in DOMAIN nzb :
                nzb[f] \in [type : Types, header : Types, segments : Nat, blocks : Nat]
<1>1. nzb \in Seq([type : Types, header : Types, segments : Nat, blocks : Nat])
  BY NzbAssumption DEF TypeOK
<1>2. DOMAIN nzb \subseteq Files
  BY NzbAssumption DEF TypeOK
<1> HIDE DEF Types
<1> QED  BY <1>1, <1>2, SeqFacts

\* Nothing but the grabber's variables and pc.
LEMMA CallsType ==
    ASSUME TypeOK, NEW p \in Places, Calls(p), GrabTypeOK'
    PROVE  TypeOK'
BY DEF Calls, TypeOK, typeVars, callVars, repairVars, Goto

LEMMA GrabUnchanged ==
    ASSUME GrabTypeOK, UNCHANGED grabVars
    PROVE  GrabTypeOK'
BY DEF GrabTypeOK, grabVars, fileVars, lotVars, wantVars

LEMMA GrabStepType ==
    ASSUME GrabTypeOK,
           \/ ResetGrabbed \/ PostProcessable
           \/ \E f \in Files :
                \/ ResumeFile(f) \/ RequireFile(f) \/ EnqueueFile(f)
                \/ FileWorking(f) \/ FileDone(f) \/ FileDoneAgain(f) \/ ReportFile(f)
    PROVE  GrabTypeOK'
<1> USE DEF fileVars, lotVars, wantVars
<1>1. CASE ResetGrabbed
  <2>1. required' \in Nat /\ doneFiles' \in Seq(Files)
    <3>1. CASE required' = 0 /\ doneFiles' = <<>>
      BY <3>1
    <3>2. CASE UNCHANGED <<required, doneFiles>>
      BY <3>2 DEF GrabTypeOK
    <3> QED  BY <1>1, <3>1, <3>2 DEF ResetGrabbed
  <2> QED  BY <1>1, <2>1 DEF ResetGrabbed, GrabTypeOK
<1>2. CASE PostProcessable
  BY <1>2 DEF PostProcessable, GrabTypeOK
<1>3. ASSUME NEW f \in Files, ResumeFile(f)
      PROVE  GrabTypeOK'
  BY <1>3 DEF ResumeFile, GrabTypeOK
<1>4. ASSUME NEW f \in Files, RequireFile(f)
      PROVE  GrabTypeOK'
  BY <1>4 DEF RequireFile, GrabTypeOK
<1>5. ASSUME NEW f \in Files, EnqueueFile(f)
      PROVE  GrabTypeOK'
  <2>1. wanted' \subseteq Files /\ again' \in [Files -> Nat]
    BY <1>5 DEF EnqueueFile, GrabTypeOK
  <2> QED  BY <1>5, <2>1 DEF EnqueueFile, GrabTypeOK
<1>6. ASSUME NEW f \in Files, FileWorking(f)
      PROVE  GrabTypeOK'
  BY <1>6 DEF FileWorking, GrabTypeOK
<1>7. ASSUME NEW f \in Files, FileDone(f)
      PROVE  GrabTypeOK'
  BY <1>7 DEF FileDone, GrabTypeOK
<1>8. ASSUME NEW f \in Files, FileDoneAgain(f)
      PROVE  GrabTypeOK'
  <2>1. again' \in [Files -> Nat]
    BY <1>8 DEF FileDoneAgain, GrabTypeOK
  <2> QED  BY <1>8, <2>1 DEF FileDoneAgain, GrabTypeOK
<1>9. ASSUME NEW f \in Files, ReportFile(f)
      PROVE  GrabTypeOK'
  <2>1. doneFiles' \in Seq(Files) /\ signalling' \in BOOLEAN
    BY <1>9 DEF ReportFile, GrabTypeOK, isPostProcessable
  <2> QED  BY <1>9, <2>1 DEF ReportFile, GrabTypeOK
<1> QED  BY <1>1, <1>2, <1>3, <1>4, <1>5, <1>6, <1>7, <1>8, <1>9

LEMMA SortsType ==
    ASSUME NEW S, NEW q \in Seq(S), NEW r \in Sorts(q)
    PROVE  r \in Seq(S) /\ Len(r) = Len(q) /\ DOMAIN r = DOMAIN q /\ Range(r) \subseteq Range(q)
<1>1. r \in [1 .. Len(q) -> Range(q)]
  BY DEF Sorts
<1>2. Range(q) \subseteq S
  BY DEF Range
<1>3. r \in [1 .. Len(q) -> S]
  BY <1>1, <1>2
<1> QED  BY <1>1, <1>3 DEF Range

LEMMA InitRepair == Init => RepairInv
<1> SUFFICES ASSUME Init PROVE RepairInv
  OBVIOUS
<1>1. GrabTypeOK
  <2>1. fState \in [Files -> {"Pending", "Paused", "Working", "Done"}]
    BY DEF Init
  <2>2. fRequired \in [Files -> BOOLEAN]
    BY DEF Init
  <2>3. segments \in [Files -> Nat] /\ again \in [Files -> Nat]
    BY DEF Init
  <2>4. doneFiles \in Seq(Files)
    BY DEF Init
  <2> QED  BY <2>1, <2>2, <2>3, <2>4 DEF Init, GrabTypeOK
<1>2. TypeOK
  <2>1. fType \in [Files -> Types]
    BY DEF Init, Types
  <2>2. damaged \in 0 .. MaxDamaged /\ blocksNeeded \in 0 .. MaxNeeded
    BY NzbAssumption DEF Init
  <2>3. par2Files \in Seq(DOMAIN nzb) /\ list \in Seq(DOMAIN nzb)
    BY DEF Init
  <2>4. ppFiles \in Seq([file : DOMAIN nzb, par2 : BOOLEAN, assembled : BOOLEAN])
    BY DEF Init
  <2> QED  BY <1>1, <2>1, <2>2, <2>3, <2>4 DEF Init, TypeOK, Places
<1>3. Fresh
  BY DEF Init, Fresh
<1> QED  BY <1>2, <1>3 DEF RepairInv, Init

LEMMA FromNZBType ==
    ASSUME TypeOK, FromNZB
    PROVE  TypeOK'
<1>1. PICK q \in Listings :
        /\ par2Files' = q
        /\ fRequired' = [f \in Files |-> f \in NewRequired \/ (q # <<>> /\ f = q[1])]
  BY DEF FromNZB
<1>2. IsFiniteSet(Par2Subjects) /\ Cardinality(Par2Subjects) \in Nat
  <2>1. Par2Subjects \in SUBSET Files
    BY NzbType DEF Par2Subjects
  <2> QED  BY <2>1, Finite
<1>3. par2Files' \in Seq(DOMAIN nzb)
  <2>1. q \in [1 .. 2 * Cardinality(Par2Subjects) -> DOMAIN nzb]
    BY <1>1 DEF Listings, Par2Subjects
  <2>2. 2 * Cardinality(Par2Subjects) \in Nat
    BY <1>2
  <2> QED  BY <1>1, <2>1, <2>2
<1>4. list' \in Seq(DOMAIN nzb)
  BY NzbType DEF FromNZB
<1>5. fRequired' \in [Files -> BOOLEAN]
  BY <1>1
<1>6. fState' \in [Files -> {"Pending", "Paused", "Working", "Done"}]
  BY DEF FromNZB
<1>7. required' \in Nat
  <2>1. {f \in Files : fRequired'[f]} \in SUBSET Files
    OBVIOUS
  <2> QED  BY <2>1, Finite DEF FromNZB
<1>8. fType' \in [Files -> Types]
  BY NzbType DEF FromNZB, Types
<1>9. segments' \in [Files -> Nat]
  BY NzbType DEF FromNZB
<1>10. GrabTypeOK'
  BY <1>5, <1>6, <1>7, <1>9 DEF FromNZB, GrabTypeOK, TypeOK
<1> QED
  BY <1>3, <1>4, <1>8, <1>10 DEF FromNZB, TypeOK, Goto, Places, repairVars

LEMMA SniffType ==
    ASSUME TypeOK, Kept, NEW f \in Files, Sniff(f)
    PROVE  /\ TypeOK'
           /\ f \in DOMAIN nzb
           /\ Len(par2Files') \in {Len(par2Files), Len(par2Files) + 1}
           /\ UNCHANGED <<par2Files, list, shared>> \/ FileIsPar2(f)
<1>1. f \in DOMAIN nzb
  BY DEF Sniff, Kept, Orderly
<1>2. nzb[f].header \in Types /\ "other" \in Types
  BY <1>1, NzbType DEF Types
<1>3. PICK type \in Types : SetFileType(f, type)
  BY <1>2 DEF Sniff
<1>4. fType' \in [Files -> Types]
  BY <1>3 DEF SetFileType, TypeOK
<1>5. damaged' \in 0 .. MaxDamaged
  BY NzbAssumption DEF Sniff, TypeOK
<1>6. UNCHANGED <<par2Files, list, shared>> \/ FileIsPar2(f)
  BY <1>3 DEF SetFileType
<1>7. /\ par2Files' \in Seq(DOMAIN nzb) /\ list' \in Seq(DOMAIN nzb) /\ shared' \in BOOLEAN
      /\ Len(par2Files') \in {Len(par2Files), Len(par2Files) + 1}
  <2>1. CASE UNCHANGED <<par2Files, list, shared>>
    BY <2>1 DEF TypeOK
  <2>2. CASE FileIsPar2(f)
    <3>1. Append(par2Files, f) \in Seq(DOMAIN nzb) /\ Len(Append(par2Files, f)) = Len(par2Files) + 1
      BY <1>1 DEF TypeOK
    <3>2. par2Files' \in Seq(DOMAIN nzb) /\ Len(par2Files') = Len(par2Files) + 1
      BY <2>2, <3>1, SortsType DEF FileIsPar2
    <3>3. CASE shared /\ list' = SubSeq(par2Files', 1, Len(list)) /\ UNCHANGED shared
      <4>1. Len(list) <= Len(par2Files) /\ Len(list) \in Nat /\ Len(par2Files) \in Nat
        BY <3>3 DEF Kept, TypeOK
      <4> QED  BY <3>2, <3>3, <4>1 DEF TypeOK
    <3> QED  BY <2>2, <3>2, <3>3 DEF FileIsPar2, TypeOK
  <2> QED  BY <1>6, <2>1, <2>2
<1>8. UNCHANGED <<grabVars, nzb, pc, at, file, ppFiles, repairVars>>
  BY DEF Sniff
<1>9. GrabTypeOK'
  BY <1>8, GrabUnchanged DEF TypeOK
<1> QED
  BY <1>1, <1>4, <1>5, <1>6, <1>7, <1>8, <1>9 DEF TypeOK, repairVars


Sound == TypeOK /\ Kept

\* Whatever is done is one of the NZB's files.
LEMMA OfTheNzb ==
    ASSUME Sound
    PROVE  /\ \A f \in Files : fState[f] # "Paused" => f \in DOMAIN nzb
           /\ \A i \in DOMAIN doneFiles : doneFiles[i] \in DOMAIN nzb
<1>1. \A f \in Files : fState[f] # "Paused" => f \in DOMAIN nzb
  BY DEF Sound, Kept, Orderly
<1>2. \A i \in DOMAIN doneFiles : doneFiles[i] \in Files
  BY SeqFacts DEF Sound, TypeOK, GrabTypeOK
<1>3. \A i \in DOMAIN doneFiles : fState[doneFiles[i]] = "Done"
  BY DEF Sound, Kept, Range
<1> QED  BY <1>1, <1>2, <1>3

LEMMA PpFilesType ==
    ASSUME TypeOK
    PROVE  /\ DOMAIN ppFiles = 1 .. Len(ppFiles) /\ Len(ppFiles) \in Nat
           /\ \A i \in DOMAIN ppFiles : ppFiles[i].file \in DOMAIN nzb
<1> DEFINE Kind == [file : DOMAIN nzb, par2 : BOOLEAN, assembled : BOOLEAN]
<1>1. \A i \in DOMAIN ppFiles : ppFiles[i] \in Kind
  <2>1. ppFiles \in Seq(Kind)
    BY DEF TypeOK
  <2> HIDE DEF Kind
  <2> QED  BY <2>1, SeqFacts
<1> QED  BY <1>1 DEF TypeOK

\* Nothing that Kept is about changes, but pc.
LEMMA CallsSound ==
    ASSUME Sound, NEW p \in Places, Calls(p), UNCHANGED grabVars,
           pc # "require", p # "require", p \in {"reset", "grab", "enqueue"} => Asking
    PROVE  Sound'
<1> USE DEF Sound, Calls, grabVars, fileVars, lotVars, wantVars, typeVars, callVars, repairVars, Goto
<1>1. TypeOK'
  BY GrabUnchanged, CallsType DEF TypeOK
<1>2. Kept'
  BY DEF Kept, Orderly, Asking, isPostProcessable
<1> QED  BY <1>1, <1>2

\* The places of main where it calls nothing of the Grabber.
LEMMA ControlSound ==
    ASSUME Sound,
           \/ AllAsked \/ IsPending \/ NothingToGrab
           \/ GiveUp \/ TryAgain \/ Repaired \/ RepairAgain \/ Shutdown
    PROVE  Sound'
<1>1. PICK p \in Places :
        /\ Calls(p) /\ UNCHANGED grabVars /\ pc # "require" /\ p # "require"
        /\ p \in {"reset", "grab", "enqueue"} => Asking
  BY DEF AllAsked, IsPending, NothingToGrab, GiveUp, TryAgain, Repaired, RepairAgain,
         Shutdown, NeedsBlocks, Asking, Places
<1> QED  BY <1>1, CallsSound

LEMMA NextFileSound ==
    ASSUME Sound, NextFile
    PROVE  Sound' /\ file' = list[at] /\ file' \in DOMAIN nzb
<1> USE DEF Sound, NextFile, grabVars, fileVars, lotVars, wantVars, typeVars, callVars,
            repairVars, Goto
<1>1. at \in 1 .. Len(list) /\ list[at] \in DOMAIN nzb
  BY SeqFacts DEF TypeOK, Kept
<1>2. file' \in DOMAIN nzb /\ file' = list[at] /\ at' \in Nat /\ at' >= 1
  BY <1>1
<1>3. pc' \in {"next", "reset"}
  OBVIOUS
<1>4. TypeOK'
  BY <1>2, <1>3, NzbType, GrabUnchanged DEF TypeOK, Places
<1>5. Kept'
  BY <1>2, <1>3 DEF Kept, Orderly, Asking, isPostProcessable
<1> QED  BY <1>2, <1>4, <1>5

LEMMA AddFilesSound ==
    ASSUME Sound, AddFiles
    PROVE  Sound'
<1> USE DEF Sound, grabVars, fileVars, lotVars, wantVars, typeVars, callVars, repairVars, Goto
<1> DEFINE added == [i \in DOMAIN doneFiles |-> [file      |-> doneFiles[i],
                                                 par2      |-> fType[doneFiles[i]] = "par2",
                                                 assembled |-> FALSE]]
<1>1. added \in Seq([file : DOMAIN nzb, par2 : BOOLEAN, assembled : BOOLEAN])
  <2>1. DOMAIN doneFiles = 1 .. Len(doneFiles) /\ Len(doneFiles) \in Nat
    BY DEF TypeOK, GrabTypeOK
  <2> QED  BY <2>1, OfTheNzb
<1>2. ppFiles' = ppFiles \o added
  BY DEF AddFiles
<1>3. pc' \in {"repairer", "assemble"} /\ pc = "add"
  BY DEF AddFiles
<1>4. UNCHANGED <<grabVars, nzb, typeVars, callVars, repairVars>>
  BY DEF AddFiles
<1>5. TypeOK'
  <2> HIDE DEF added
  <2>1. ppFiles' \in Seq([file : DOMAIN nzb, par2 : BOOLEAN, assembled : BOOLEAN])
    BY <1>1, <1>2 DEF TypeOK
  <2> QED  BY <2>1, <1>3, <1>4, GrabUnchanged DEF TypeOK, Places
<1>6. \A i \in DOMAIN ppFiles' : fState'[ppFiles'[i].file] = "Done"
  <2> SUFFICES ASSUME NEW i \in DOMAIN ppFiles' PROVE fState[ppFiles'[i].file] = "Done"
    BY <1>4
  <2>1. CASE i \in DOMAIN ppFiles
    <3>1. ppFiles'[i] = ppFiles[i]
      BY <2>1, <1>1, <1>2 DEF TypeOK
    <3> QED  BY <2>1, <3>1 DEF Kept
  <2>2. CASE i \notin DOMAIN ppFiles
    <3>1. DOMAIN added = 1 .. Len(doneFiles) /\ Len(doneFiles) \in Nat
      BY DEF TypeOK, GrabTypeOK
    <3>2. i - Len(ppFiles) \in DOMAIN added /\ ppFiles'[i] = added[i - Len(ppFiles)]
      <4> HIDE DEF added
      <4> QED  BY <2>2, <1>1, <1>2 DEF TypeOK
    <3>3. i - Len(ppFiles) \in DOMAIN doneFiles /\ ppFiles'[i].file = doneFiles[i - Len(ppFiles)]
      BY <3>2
    <3> QED  BY <3>3 DEF Kept, Range
  <2> QED  BY <2>1, <2>2
<1>7. Kept'
  BY <1>3, <1>4, <1>6 DEF Kept, Orderly, Asking, isPostProcessable
<1> QED  BY <1>5, <1>7

LEMMA RepairerSound ==
    ASSUME Sound, Repairer
    PROVE  Sound'
<1> USE DEF Sound, Repairer, grabVars, fileVars, lotVars, wantVars, typeVars, callVars, Goto
<1>1. args' \subseteq Files
  <2>1. \A i \in DOMAIN ppFiles : ppFiles[i].file \in DOMAIN nzb
    BY PpFilesType
  <2>2. {ppFiles[i].file : i \in DOMAIN ppFiles} \subseteq Files
    BY <2>1, NzbType
  <2> QED  BY <2>2 DEF TypeOK
<1>2. TypeOK'
  BY <1>1, GrabUnchanged DEF TypeOK, Places
<1>3. Kept'
  BY DEF Kept, Orderly, Asking, isPostProcessable
<1> QED  BY <1>2, <1>3

LEMMA GetMorePar2sSound ==
    ASSUME Sound, GetMorePar2s
    PROVE  Sound' /\ Len(list') >= 1
<1> USE DEF Sound, grabVars, fileVars, lotVars, wantVars, typeVars, repairVars, Goto
<1>1. PICK n \in DOMAIN par2Files : list' = SubSeq(par2Files, 1, n)
  BY DEF GetMorePar2s
<1>2. n \in 1 .. Len(par2Files) /\ Len(par2Files) \in Nat
  BY DEF TypeOK
<1>3. list' \in Seq(DOMAIN nzb) /\ Len(list') = n
  BY <1>1, <1>2 DEF TypeOK
<1>4. /\ at' = 1 /\ shared' = TRUE /\ pc = "test" /\ pc' = "next"
      /\ UNCHANGED <<grabVars, nzb, typeVars, file, ppFiles, repairVars>>
  BY DEF GetMorePar2s, NeedsBlocks
<1>5. TypeOK'
  BY <1>3, <1>4, GrabUnchanged DEF TypeOK, Places
<1>6. Kept'
  BY <1>1, <1>2, <1>3, <1>4 DEF Kept, Orderly, Asking, isPostProcessable
<1> QED  BY <1>2, <1>3, <1>5, <1>6

LEMMA AssembleSound ==
    ASSUME Sound, Assemble
    PROVE  /\ Sound' /\ DOMAIN ppFiles' = DOMAIN ppFiles
           /\ \A i \in DOMAIN ppFiles : ppFiles'[i].file = ppFiles[i].file
           /\ pc' \in {"repair", "fatal"}
           /\ pc' = "repair" => AllAssembled' /\ NoneTwice
<1> USE DEF Sound, grabVars, fileVars, lotVars, wantVars, typeVars, callVars, repairVars, Goto
<1> DEFINE Kind == [file : DOMAIN nzb, par2 : BOOLEAN, assembled : BOOLEAN]
<1>1. ppFiles \in Seq(Kind)
  BY DEF TypeOK
<1>2. /\ ppFiles' \in Seq(Kind) /\ DOMAIN ppFiles' = DOMAIN ppFiles
      /\ \A i \in DOMAIN ppFiles : ppFiles'[i].file = ppFiles[i].file
      /\ pc' = "repair" => AllAssembled' /\ NoneTwice
  <2>1. CASE UNCHANGED ppFiles /\ pc' = "fatal"
    BY <1>1, <2>1
  <2>2. CASE /\ ppFiles' = [i \in DOMAIN ppFiles |-> [ppFiles[i] EXCEPT !.assembled = TRUE]]
             /\ NoneTwice
    <3>1. \A i \in DOMAIN ppFiles : ppFiles[i] \in Kind
      BY <1>1, SeqFacts
    <3>2. \A i \in DOMAIN ppFiles :
            ppFiles'[i] \in Kind /\ ppFiles'[i].file = ppFiles[i].file /\ ppFiles'[i].assembled
      BY <2>2, <3>1
    <3>3. DOMAIN ppFiles = 1 .. Len(ppFiles) /\ Len(ppFiles) \in Nat
      BY <1>1, SeqFacts
    <3>4. DOMAIN ppFiles' = DOMAIN ppFiles
      BY <2>2
    <3>5. ppFiles' \in Seq(Kind)
      <4> HIDE DEF Kind
      <4>1. ppFiles' = [i \in 1 .. Len(ppFiles) |-> ppFiles'[i]]
        BY <2>2, <3>3
      <4>2. \A i \in 1 .. Len(ppFiles) : ppFiles'[i] \in Kind
        BY <3>2, <3>3
      <4> QED  BY <3>3, <4>1, <4>2, IsASeq
    <3> QED  BY <2>2, <3>2, <3>4, <3>5 DEF AllAssembled
  <2> QED  BY <2>1, <2>2 DEF Assemble, NoneTwice
<1>3. /\ pc = "assemble" /\ pc' \in {"repair", "fatal"}
      /\ UNCHANGED <<grabVars, nzb, typeVars, callVars, repairVars>>
  BY DEF Assemble
<1>4. TypeOK'
  BY <1>2, <1>3, GrabUnchanged DEF TypeOK, Places
<1>5. Kept'
  BY <1>2, <1>3 DEF Kept, Orderly, Asking, isPostProcessable
<1> QED  BY <1>2, <1>3, <1>4, <1>5

LEMMA RepairSound ==
    ASSUME Sound, Repair
    PROVE  Sound'
<1> USE DEF Sound, Repair, grabVars, fileVars, lotVars, wantVars, typeVars, callVars, Goto
<1>1. TypeOK'
  BY GrabUnchanged DEF TypeOK, Places
<1>2. Kept'
  BY DEF Kept, Orderly, Asking, isPostProcessable
<1> QED  BY <1>1, <1>2

LEMMA SniffSound ==
    ASSUME Sound, NEW f \in Files, Sniff(f)
    PROVE  Sound'
<1> USE DEF Sound, grabVars, fileVars, lotVars, wantVars, repairVars
<1>1. UNCHANGED <<grabVars, nzb, pc, at, file, ppFiles, repairVars>>
  BY DEF Sniff
<1>2. shared' => Len(list') <= Len(par2Files') /\ list' = SubSeq(par2Files', 1, Len(list'))
  <2>1. CASE UNCHANGED <<par2Files, list, shared>>
    BY <2>1 DEF Kept
  <2>2. CASE FileIsPar2(f)
    <3>1. Len(list) \in Nat /\ Len(par2Files) \in Nat /\ par2Files' \in Seq(DOMAIN nzb)
      BY <1>1, SniffType DEF TypeOK
    <3>2. CASE shared /\ list' = SubSeq(par2Files', 1, Len(list))
      <4>1. Len(list) <= Len(par2Files)
        BY <3>2 DEF Kept
      <4>2. Len(list) <= Len(par2Files')
        BY <3>1, <4>1, SniffType
      <4> QED  BY <3>1, <3>2, <4>2
    <3> QED  BY <2>2, <3>2 DEF FileIsPar2
  <2> QED  BY <2>1, <2>2, SniffType
<1>3. Kept'
  BY <1>1, <1>2 DEF Kept, Orderly, Asking, isPostProcessable
<1> QED  BY <1>3, SniffType

\* The Grabber's steps that main does not take.
Works(f) == FileWorking(f) \/ FileDone(f) \/ FileDoneAgain(f) \/ ReportFile(f)

LEMMA WorkSound ==
    ASSUME Sound, NEW f \in Files, Works(f), UNCHANGED <<nzb, typeVars, mainVars>>
    PROVE  Sound'
<1> USE DEF Sound, fileVars, lotVars, wantVars, typeVars, mainVars, callVars, repairVars
<1>1. TypeOK'
  BY GrabStepType DEF TypeOK, Works
<1>2. CASE FileWorking(f)
  BY <1>1, <1>2 DEF FileWorking, Kept, Orderly, Asking, isPostProcessable, TypeOK, GrabTypeOK
<1>3. CASE FileDone(f)
  BY <1>1, <1>3 DEF FileDone, Kept, Orderly, Asking, isPostProcessable, TypeOK, GrabTypeOK
<1>4. CASE FileDoneAgain(f)
  <2>1. \A g \in Files : again'[g] > 0 => again[g] > 0
    BY <1>4 DEF FileDoneAgain, TypeOK, GrabTypeOK
  <2>2. UNCHANGED <<fState, fRequired, doneFiles, required, requiring, wanted, signalling>>
    BY <1>4 DEF FileDoneAgain
  <2>3. \A g \in reporting' : g \in reporting \/ (g = f /\ fState[f] = "Done")
    BY <1>4 DEF FileDoneAgain
  <2>4. Orderly'
    BY <2>2, <2>3 DEF Kept, Orderly
  <2> QED  BY <1>1, <2>1, <2>2, <2>4 DEF Kept, Asking, isPostProcessable
<1>5. CASE ReportFile(f)
  <2>1. \A g \in Range(doneFiles') : g \in Range(doneFiles) \/ g = f
    BY <1>5 DEF ReportFile, Range, TypeOK, GrabTypeOK
  <2>2. fState[f] = "Done"
    BY <1>5 DEF ReportFile, Kept, Orderly
  <2>3. UNCHANGED <<fileVars, required, requiring, wantVars>> /\ reporting' = reporting \ {f}
        /\ signalling' = isPostProcessable'
    BY <1>5 DEF ReportFile
  <2> QED  BY <1>1, <2>1, <2>2, <2>3 DEF Kept, Orderly, Asking
<1> QED  BY <1>2, <1>3, <1>4, <1>5 DEF Works

LEMMA ResetSound ==
    ASSUME Sound, Reset
    PROVE  Sound'
<1> USE DEF Sound, fileVars, lotVars, wantVars, typeVars, callVars, repairVars, Goto
<1>1. GrabTypeOK'
  BY GrabStepType DEF TypeOK, Reset
<1>2. TypeOK'
  BY <1>1, CallsType DEF Reset, Places
<1>3. Range(doneFiles') \subseteq Range(doneFiles)
  BY DEF Reset, ResetGrabbed, Range
<1>4. ~signalling' /\ UNCHANGED <<fileVars, requiring, wantVars, reporting>>
  BY DEF Reset, ResetGrabbed
<1>5. pc = "reset" /\ pc' = "grab" /\ UNCHANGED <<nzb, typeVars, callVars, ppFiles, repairVars>>
  BY DEF Reset, Calls
<1>6. Kept'
  BY <1>3, <1>4, <1>5 DEF Kept, Orderly, Asking
<1> QED  BY <1>2, <1>6

LEMMA ResumeSound ==
    ASSUME Sound, Resume
    PROVE  Sound'
<1> USE DEF Sound, fileVars, lotVars, wantVars, typeVars, callVars, repairVars, Goto
<1>1. pc = "grab" /\ file \in DOMAIN nzb /\ file \in Files /\ ~fRequired[file] /\ ResumeFile(file)
  BY NzbType DEF Resume, ResumeFile, Kept, Asking
<1>2. GrabTypeOK'
  BY <1>1, GrabStepType DEF TypeOK
<1>3. pc' = "require" /\ UNCHANGED <<nzb, typeVars, callVars, ppFiles, repairVars>>
  BY <1>1 DEF Resume, Calls
<1>4. TypeOK'
  BY <1>1, <1>2, CallsType DEF Resume, Places
<1>5. Orderly'
  BY <1>1 DEF ResumeFile, TypeOK, GrabTypeOK, Kept, Orderly
<1>6. \A f \in Files : fRequired'[f] => f \in DOMAIN nzb /\ fState'[f] # "Paused"
  BY <1>1 DEF ResumeFile, TypeOK, GrabTypeOK, Kept
<1>7. \A f \in DOMAIN nzb : nzb[f].type # "par2" => fRequired'[f]
  BY <1>1, NzbType DEF ResumeFile, TypeOK, GrabTypeOK, Kept
<1>8. /\ \A f \in Range(doneFiles) : f # file
      /\ \A i \in DOMAIN ppFiles : ppFiles[i].file # file
  BY <1>1 DEF ResumeFile, Kept
<1>9. \A f \in Files : f # file => fState'[f] = fState[f]
  BY <1>1 DEF ResumeFile, TypeOK, GrabTypeOK
<1>10. \A f \in Range(doneFiles') : fState'[f] = "Done"
  <2>1. doneFiles' = doneFiles /\ \A f \in Range(doneFiles) : f \in Files
    BY <1>1, SeqFacts DEF ResumeFile, TypeOK, GrabTypeOK, Range
  <2> QED  BY <1>8, <1>9, <2>1 DEF Kept
<1>11. \A i \in DOMAIN ppFiles' : fState'[ppFiles'[i].file] = "Done"
  <2>1. \A i \in DOMAIN ppFiles : ppFiles[i].file \in Files
    BY PpFilesType, NzbType
  <2> QED  BY <1>3, <1>8, <1>9, <2>1 DEF Kept
<1>12. requiring' = {file} /\ UNCHANGED <<lotVars, wantVars, reporting, signalling>>
  BY <1>1 DEF ResumeFile
<1>13. Kept'
  BY <1>1, <1>3, <1>5, <1>6, <1>7, <1>10, <1>11, <1>12 DEF Kept, Asking, isPostProcessable
<1> QED  BY <1>4, <1>13

LEMMA RequireSound ==
    ASSUME Sound, Require
    PROVE  Sound' /\ file \in Files
<1> USE DEF Sound, fileVars, lotVars, wantVars, typeVars, callVars, repairVars, Goto
<1>1. file \in DOMAIN nzb /\ file \in Files /\ requiring = {file}
  BY NzbType DEF Require, Kept, Asking
<1>2. GrabTypeOK'
  BY <1>1, GrabStepType DEF TypeOK, Require
<1>3. TypeOK'
  BY <1>2, CallsType DEF Require, Places
<1>4. pc = "require" /\ pc' = "enqueue" /\ UNCHANGED <<nzb, typeVars, callVars, ppFiles, repairVars>>
  BY DEF Require, Calls
<1>5. Kept'
  BY <1>1, <1>4 DEF Require, RequireFile, Kept, Orderly, Asking
<1> QED  BY <1>1, <1>3, <1>5

LEMMA EnqueueSound ==
    ASSUME Sound, Enqueue
    PROVE  Sound' /\ file \in Files
<1> USE DEF Sound, fileVars, lotVars, wantVars, typeVars, callVars, repairVars, Goto
<1>1. file \in DOMAIN nzb /\ file \in Files
  BY NzbType DEF Enqueue, Kept, Asking
<1>2. GrabTypeOK'
  BY <1>1, GrabStepType DEF TypeOK, Enqueue
<1>3. TypeOK'
  BY <1>2, CallsType DEF Enqueue, Places
<1>4. pc = "enqueue" /\ pc' = "next" /\ UNCHANGED <<nzb, typeVars, callVars, ppFiles, repairVars>>
  BY DEF Enqueue, Calls
<1>5. \A f \in Files : again'[f] > 0 => f \in wanted'
  BY <1>1 DEF Enqueue, EnqueueFile, Kept, TypeOK, GrabTypeOK
<1>6. Orderly'
  BY <1>1 DEF Enqueue, EnqueueFile, Kept, TypeOK, GrabTypeOK, Orderly
<1>7. UNCHANGED <<fileVars, lotVars, requiring, reporting, signalling>>
  BY DEF Enqueue, EnqueueFile
<1>8. Kept'
  BY <1>1, <1>4, <1>5, <1>6, <1>7 DEF Kept, Asking, isPostProcessable
<1> QED  BY <1>1, <1>3, <1>8

LEMMA WatchSound ==
    ASSUME Sound, Watch
    PROVE  Sound'
<1> USE DEF Sound, fileVars, lotVars, wantVars, typeVars, callVars, repairVars, Goto
<1>1. GrabTypeOK'
  BY GrabStepType DEF TypeOK, Watch
<1>2. TypeOK'
  BY <1>1, CallsType DEF Watch, Places
<1>3. Kept'
  BY DEF Watch, PostProcessable, Calls, Kept, Orderly, Asking
<1> QED  BY <1>2, <1>3

LEMMA FromNZBSound ==
    ASSUME TypeOK, Fresh, FromNZB
    PROVE  Sound'
<1> USE DEF typeVars, callVars, repairVars, Goto
<1>1. PICK q \in Listings :
        /\ par2Files' = q
        /\ fRequired' = [f \in Files |-> f \in NewRequired \/ (q # <<>> /\ f = q[1])]
  BY DEF FromNZB
<1>2. \A f \in Files : fRequired'[f] => f \in DOMAIN nzb
  <2>1. q # <<>> => q[1] \in DOMAIN nzb
    <3>1. 2 * Cardinality(Par2Subjects) \in Nat
      <4>1. Par2Subjects \in SUBSET Files
        BY NzbType DEF Par2Subjects
      <4> QED  BY <4>1, Finite
    <3>2. q \in Seq(Par2Subjects)
      BY <3>1 DEF Listings
    <3>3. q # <<>> => q[1] \in Par2Subjects
      BY <3>2
    <3> QED  BY <3>3 DEF Par2Subjects
  <2> QED  BY <1>1, <2>1 DEF NewRequired
<1>3. \A f \in Files : fState'[f] = IF fRequired'[f] THEN "Pending" ELSE "Paused"
  BY DEF FromNZB
<1>4. \A f \in DOMAIN nzb : nzb[f].type # "par2" => fRequired'[f]
  BY <1>1, NzbType DEF NewRequired
<1>5. /\ pc' = "next"
      /\ UNCHANGED <<nzb, damaged, doneFiles, requiring, wanted, again, reporting, signalling,
                     at, shared, file, ppFiles, repairVars>>
  BY DEF FromNZB
<1>6. Kept'
  <2>1. Orderly'
    BY <1>3, <1>5 DEF Fresh, Orderly
  <2>2. Range(doneFiles') = {} /\ DOMAIN ppFiles' = {}
    BY <1>5 DEF Fresh, Range
  <2>3. \A f \in Files : again'[f] = 0
    BY <1>5 DEF Fresh
  <2> QED  BY <1>2, <1>3, <1>4, <1>5, <2>1, <2>2, <2>3 DEF Fresh, Kept, Asking, isPostProcessable
<1> QED  BY <1>6, FromNZBType DEF Sound

-----------------------------------------------------------------------------
\* GrabAll's lot.
LEMMA NoneLeft ==
    ASSUME Sound, Balance, requiring = {}, isPostProcessable
    PROVE  reporting = {} /\ AllDone
<1>1. Left \in SUBSET Files /\ reporting \in SUBSET Files
  BY DEF Sound, TypeOK, GrabTypeOK, Left
<1>2. required \in Nat /\ Len(doneFiles) \in Nat /\ Cardinality(requiring) = 0
  BY FS_EmptySet DEF Sound, TypeOK, GrabTypeOK
<1>3. Cardinality(Left) = 0 /\ Cardinality(reporting) = 0
  BY <1>1, <1>2, Finite DEF Balance, isPostProcessable
<1>4. Left = {} /\ reporting = {}
  BY <1>1, <1>3, Finite, FS_EmptySet
<1> QED  BY <1>4 DEF Left, AllDone

LEMMA BalanceStep ==
    ASSUME Sound, First, [GrabNext]_grabVars
    PROVE  Balance'
BY NextInv DEF Sound, TypeOK, Kept, First, Inv

LEMMA FirstRequiring == ASSUME Sound, First PROVE requiring = {}
BY DEF Sound, Kept, First

Settled == reporting = {} /\ AllDone /\ requiring = {} /\ GrabbedOnce

LEMMA SettledStays ==
    ASSUME Sound, Settled, NEW f \in Files
    PROVE  ~Works(f) /\ ~Sniff(f)
<1>1. fState[f] \in {"Paused", "Done"} /\ again[f] = 0 /\ f \notin reporting
  BY DEF Settled, AllDone, GrabbedOnce, Sound, Kept, Orderly, TypeOK, GrabTypeOK
<1>2. f \in wanted => fState[f] # "Pending"
  BY <1>1
<1> QED  BY <1>1, <1>2 DEF Works, FileWorking, FileDone, FileDoneAgain, ReportFile, Sniff

LEMMA FirstSettled ==
    ASSUME Sound, First, isPostProcessable
    PROVE  Settled
BY NoneLeft, FirstRequiring DEF First, Settled

LEMMA FirstWork ==
    ASSUME Sound, First, NEW f \in Files, Works(f), UNCHANGED <<nzb, typeVars, mainVars>>
    PROVE  First'
<1> USE DEF fileVars, lotVars, wantVars, typeVars, mainVars, callVars, repairVars
<1>1. Balance'
  BY BalanceStep DEF GrabNext, Works
<1>2. pc \notin {"add", "repairer"}
  BY FirstSettled, SettledStays DEF First
<1>3. ~FileDoneAgain(f)
  BY DEF FileDoneAgain, First, GrabbedOnce
<1>4. Asking => file \in Files
  BY NzbType DEF Sound, Kept
<1>5. UNCHANGED <<wanted, again>>
  BY <1>3 DEF Works, FileWorking, FileDone, ReportFile
<1>6. CASE FileWorking(f) \/ FileDone(f)
  <2>1. Asking => file # f
    BY <1>6 DEF First, FileWorking, FileDone
  <2>2. doneFiles' = doneFiles /\ \A g \in Files : g # f => fState'[g] = fState[g]
    BY <1>6 DEF FileWorking, FileDone, Sound, TypeOK, GrabTypeOK
  <2>3. Asking => fState'[file] = "Pending"
    BY <1>4, <2>1, <2>2 DEF First
  <2>4. f \notin Range(doneFiles)
    BY <1>6 DEF FileWorking, FileDone, Sound, Kept
  <2>5. Range(doneFiles') \cap reporting' = {}
    BY <1>6, <2>2, <2>4 DEF FileWorking, FileDone, First
  <2>6. \A g \in Files : fState'[g] = "Done" => g \in reporting' \cup Range(doneFiles')
    BY <1>6, <2>2 DEF FileWorking, FileDone, First, Sound, TypeOK, GrabTypeOK
  <2> QED  BY <1>1, <1>2, <1>5, <2>2, <2>3, <2>5, <2>6 DEF First, GrabbedOnce, Asking
<1>7. CASE ReportFile(f)
  <2>1. Range(doneFiles') = Range(doneFiles) \cup {f}
    BY <1>7, AppendFacts DEF ReportFile, Sound, TypeOK, GrabTypeOK
  <2>2. f \notin Range(doneFiles)
    BY <1>7 DEF ReportFile, First
  <2>3. \A i, j \in DOMAIN doneFiles' : i # j => doneFiles'[i] # doneFiles'[j]
    <3>1. /\ DOMAIN doneFiles' = DOMAIN doneFiles \cup {Len(doneFiles) + 1}
          /\ \A i \in DOMAIN doneFiles : doneFiles'[i] = doneFiles[i]
          /\ doneFiles'[Len(doneFiles) + 1] = f
      BY <1>7, AppendFacts DEF ReportFile, Sound, TypeOK, GrabTypeOK
    <3>2. \A i \in DOMAIN doneFiles : doneFiles[i] # f
      BY <2>2 DEF Range
    <3> QED  BY <3>1, <3>2 DEF First
  <2>4. fState' = fState /\ reporting' = reporting \ {f}
    BY <1>7 DEF ReportFile
  <2>5. Range(doneFiles') \cap reporting' = {}
    BY <2>1, <2>4 DEF First
  <2>6. \A g \in Files : fState'[g] = "Done" => g \in reporting' \cup Range(doneFiles')
    BY <2>1, <2>4 DEF First
  <2> QED  BY <1>1, <1>2, <1>5, <2>3, <2>4, <2>5, <2>6 DEF First, GrabbedOnce, Asking
<1> QED  BY <1>3, <1>6, <1>7 DEF Works

LEMMA WantedNat == ASSUME Sound PROVE wanted \subseteq DOMAIN nzb /\ wanted \subseteq Nat
<1>1. DOMAIN nzb \subseteq Nat
  BY NzbType DEF Sound
<1> QED  BY <1>1 DEF Sound, TypeOK, GrabTypeOK, Kept, Orderly

LEMMA FirstSniff ==
    ASSUME Sound, First, NEW f \in Files, Sniff(f)
    PROVE  First'
<1>1. UNCHANGED <<grabVars, nzb, pc, at, file, ppFiles, repairVars>>
  BY DEF Sniff
<1>2. ~shared' /\ list' = list
  BY SniffType DEF First, FileIsPar2, Sound
<1>3. Balance'
  BY <1>1, BalanceStep
<1> QED
  BY <1>1, <1>2, <1>3 DEF First, GrabbedOnce, Asking, AllOnce, Added, isPostProcessable, grabVars,
       fileVars, lotVars, wantVars, repairVars

\* While the files of the first lot are asked for.
LEMMA FirstAsks ==
    ASSUME Sound, First,
           NextFile \/ AllAsked \/ Reset \/ Resume \/ Require \/ IsPending \/ NothingToGrab \/ Enqueue
    PROVE  First'
<1> USE DEF typeVars, callVars, repairVars, Goto
<1>1. CASE NextFile
  <2>1. UNCHANGED grabVars /\ Balance'
    BY <1>1, BalanceStep DEF NextFile
  <2>2. at \in 1 .. Len(list) /\ list[at] = at /\ list' = list /\ at' = at + 1 /\ file' = at
    BY <1>1 DEF NextFile, First, Sound, TypeOK, Kept
  <2>3. pc' \in {"next", "reset"} /\ pc = "next" /\ (pc' = "reset" => fState[at] = "Pending")
    BY <1>1, <2>2 DEF NextFile, First
  <2>4. \A f \in wanted : f < at
    BY <2>3 DEF First, Asking
  <2>5. \A f \in wanted : f < IF Asking' THEN at' - 1 ELSE at'
    <3>1. wanted \subseteq Nat /\ at \in Nat
      BY WantedNat DEF Sound, TypeOK
    <3> QED  BY <2>2, <2>3, <2>4, <3>1 DEF Asking
  <2>6. Asking' => file' = at' - 1 /\ fState'[file'] = "Pending" /\ file' \notin wanted'
    <3>1. wanted \subseteq Nat /\ at \in Nat
      BY WantedNat DEF Sound, TypeOK
    <3>2. at \notin wanted
      BY <2>4, <3>1
    <3> QED
      BY <2>1, <2>2, <2>3, <3>1, <3>2 DEF Asking, grabVars, fileVars, wantVars
  <2> QED
    BY <1>1, <2>1, <2>2, <2>3, <2>5, <2>6 DEF NextFile, First, GrabbedOnce, Asking, grabVars,
         fileVars, lotVars, wantVars
<1>2. CASE AllAsked \/ IsPending
  <2>1. UNCHANGED grabVars /\ Balance'
    BY <1>2, BalanceStep DEF AllAsked, IsPending
  <2>2. /\ \/ pc = "next" /\ pc' = "watch"
           \/ pc = "grab" /\ pc' = "enqueue"
        /\ UNCHANGED <<nzb, typeVars, callVars, ppFiles, repairVars>>
    BY <1>2 DEF AllAsked, IsPending, Calls
  <2> QED
    BY <2>1, <2>2 DEF First, GrabbedOnce, Asking, grabVars, fileVars, lotVars, wantVars
<1>3. CASE Reset
  <2>1. pc = "reset" /\ pc' = "grab" /\ UNCHANGED <<nzb, typeVars, callVars, ppFiles, repairVars>>
    BY <1>3 DEF Reset, Calls
  <2>2. ~isPostProcessable
    <3>1. file \in Files /\ fState[file] = "Pending"
      BY <2>1, NzbType DEF First, Asking, Sound, Kept
    <3>2. fRequired[file]
      BY <3>1 DEF Sound, Kept, Orderly
    <3> QED  BY <3>1, <3>2, FirstSettled DEF Settled, AllDone
  <2>3. UNCHANGED grabVars
    BY <1>3, <2>2 DEF Reset, ResetGrabbed, grabVars, fileVars, lotVars, wantVars
  <2>4. Balance'
    BY <2>3, BalanceStep
  <2> QED
    BY <2>1, <2>3, <2>4 DEF First, GrabbedOnce, Asking, grabVars, fileVars, lotVars, wantVars
<1>4. CASE Enqueue
  <2>1. pc = "enqueue" /\ pc' = "next" /\ UNCHANGED <<nzb, typeVars, callVars, ppFiles, repairVars>>
    BY <1>4 DEF Enqueue, Calls
  <2>2. file \in Files /\ file = at - 1 /\ file \notin wanted
    BY <2>1, NzbType DEF First, Asking, Sound, Kept
  <2>3. Balance'
    BY <1>4, <2>2, BalanceStep DEF Enqueue, GrabNext
  <2>4. again' = again /\ (wanted' = wanted \/ wanted' = wanted \cup {file})
    BY <1>4, <2>2 DEF Enqueue, EnqueueFile
  <2>5. \A f \in wanted' : f < at'
    <3>1. wanted \subseteq Nat /\ at \in Nat
      BY WantedNat DEF Sound, TypeOK
    <3>2. \A f \in wanted : f < at - 1
      BY <2>1 DEF First, Asking
    <3>3. at' = at /\ \A f \in wanted : f < at
      BY <2>1, <3>1, <3>2
    <3>4. file < at
      BY <2>2, <3>1
    <3> QED  BY <2>4, <3>3, <3>4
  <2>6. UNCHANGED <<fileVars, lotVars, segments, requiring, reporting, signalling>>
    BY <1>4 DEF Enqueue, EnqueueFile
  <2> QED
    BY <2>1, <2>3, <2>4, <2>5, <2>6 DEF First, GrabbedOnce, Asking, fileVars, lotVars
<1>5. ~(Resume \/ Require \/ NothingToGrab)
  BY DEF First, Asking, Resume, ResumeFile, Require, NothingToGrab
<1> QED  BY <1>1, <1>2, <1>3, <1>4, <1>5

LEMMA FirstAdds ==
    ASSUME Sound, First, Watch \/ AddFiles
    PROVE  First'
<1> USE DEF fileVars, lotVars, wantVars, typeVars, callVars, repairVars, Goto
<1>1. CASE Watch
  <2>1. /\ pc = "watch" /\ pc' = "add" /\ signalling /\ ~signalling'
        /\ UNCHANGED <<fileVars, lotVars, requiring, wantVars, reporting>>
        /\ UNCHANGED <<nzb, typeVars, callVars, ppFiles, repairVars>>
    BY <1>1 DEF Watch, PostProcessable, Calls
  <2>2. Balance'
    BY <1>1, BalanceStep DEF Watch, GrabNext
  <2>3. isPostProcessable
    BY <2>1 DEF Sound, Kept
  <2> QED
    BY <2>1, <2>2, <2>3 DEF First, GrabbedOnce, Asking, isPostProcessable
<1>2. CASE AddFiles
  <2>1. /\ pc = "add" /\ pc' = "repairer" /\ UNCHANGED grabVars
        /\ UNCHANGED <<nzb, typeVars, callVars, repairVars>>
    BY <1>2 DEF AddFiles, First
  <2>2. Balance'
    BY <2>1, BalanceStep
  <2>3. Settled /\ isPostProcessable
    BY <2>1, FirstSettled DEF First
  <2> DEFINE added == [i \in DOMAIN doneFiles |-> [file      |-> doneFiles[i],
                                                   par2      |-> fType[doneFiles[i]] = "par2",
                                                   assembled |-> FALSE]]
  <2>4. ppFiles' = added
    <3>1. DOMAIN doneFiles = 1 .. Len(doneFiles) /\ Len(doneFiles) \in Nat
      BY DEF Sound, TypeOK, GrabTypeOK
    <3>2. ppFiles = <<>> /\ ppFiles' = ppFiles \o added
      BY <1>2, <2>1 DEF AddFiles, First
    <3>3. added = [i \in 1 .. Len(doneFiles) |-> added[i]]
      BY <3>1
    <3>4. added \in Seq(Range(added))
      <4> HIDE DEF added
      <4>1. \A i \in 1 .. Len(doneFiles) : added[i] \in Range(added)
        BY <3>1, <3>3 DEF Range
      <4> QED  BY <3>1, <3>3, <4>1, IsASeq
    <3> HIDE DEF added
    <3> QED  BY <3>2, <3>4, ConcatEmptySeq
  <2>5. AllOnce'
    <3> SUFFICES ASSUME NEW f \in Files, fRequired[f]
                 PROVE  \E i \in DOMAIN ppFiles' : Added(f)' = {i}
      BY <2>1 DEF AllOnce, grabVars
    <3>1. f \in Range(doneFiles)
      BY <2>3 DEF Settled, AllDone, First
    <3>2. PICK i \in DOMAIN doneFiles : doneFiles[i] = f
      BY <3>1 DEF Range
    <3>3. \A j \in DOMAIN doneFiles : doneFiles[j] = f <=> j = i
      BY <3>2 DEF First
    <3>4. Added(f)' = {j \in DOMAIN doneFiles : doneFiles[j] = f}
      BY <2>4 DEF Added
    <3>5. Added(f)' = {i}
      BY <3>2, <3>3, <3>4
    <3> QED  BY <2>4, <3>2, <3>5
  <2> QED
    BY <2>1, <2>2, <2>3, <2>5 DEF First, GrabbedOnce, Asking, isPostProcessable, grabVars
<1> QED  BY <1>1, <1>2

\* What it ends with.
LEMMA FirstEnds ==
    ASSUME Sound, First, Repairer
    PROVE  Quiet'
<1> USE DEF grabVars, fileVars, lotVars, wantVars, typeVars, callVars, repairVars, Goto
<1>1. pc = "repairer" /\ pc' = "test" /\ repairer' # "none"
  BY DEF Repairer
<1>2. UNCHANGED <<grabVars, nzb, typeVars, callVars, ppFiles, started, blocksNeeded>>
  BY DEF Repairer
<1>3. isPostProcessable /\ Settled /\ AllOnce
  BY <1>1, FirstSettled DEF First
<1>4. ~signalling
  BY <1>1 DEF First
<1>5. repairer' = "par2" => Named' /\ ~repaired'
  <2> SUFFICES ASSUME repairer' = "par2" PROVE Named' /\ ~repaired'
    OBVIOUS
  <2>1. args' = {ppFiles[i].file : i \in DOMAIN ppFiles} /\ ~repaired'
    BY DEF Repairer, First
  <2>2. ASSUME NEW f \in DOMAIN nzb, nzb[f].type # "par2"
        PROVE  f \in args'
    <3>1. f \in Files /\ fRequired[f]
      BY <2>2, NzbType DEF Sound, Kept
    <3>2. PICK i \in DOMAIN ppFiles : Added(f) = {i}
      BY <1>3, <3>1 DEF AllOnce
    <3> QED  BY <2>1, <3>2 DEF Added
  <2> QED  BY <1>2, <2>1, <2>2 DEF Named
<1>6. repairer' = "noop" => repaired'
  BY DEF Repairer
<1>7. repairer' \in {"par2", "noop"}
  BY DEF Repairer
<1>8. AllOnce'
  BY <1>2, <1>3 DEF AllOnce, Added
<1> QED
  BY <1>1, <1>2, <1>3, <1>4, <1>5, <1>6, <1>7, <1>8
     DEF Quiet, Settled, AllDone, GrabbedOnce, isPostProcessable

-----------------------------------------------------------------------------
\* While no file is grabbed.
LEMMA QuietSettled == ASSUME Sound, Quiet PROVE Settled
BY DEF Sound, Kept, Quiet, Settled

LEMMA QuietGoes ==
    ASSUME Sound, Quiet,
           \/ GetMorePar2s \/ NextFile \/ GiveUp \/ TryAgain \/ Repaired \/ Assemble \/ Repair
           \/ RepairAgain \/ Shutdown
    PROVE  pc' = "fatal" \/ Quiet'
<1> USE DEF grabVars, fileVars, lotVars, wantVars, typeVars, callVars, repairVars, Goto
<1>1. /\ UNCHANGED <<grabVars, nzb, repairer, args>>
      /\ ~Assemble => UNCHANGED ppFiles
  BY DEF GetMorePar2s, NextFile, GiveUp, TryAgain, Repaired, Assemble, Repair, RepairAgain,
         Shutdown, Calls
<1>2. /\ repairer' # "none"
      /\ (isPostProcessable /\ ~signalling /\ reporting = {} /\ GrabbedOnce /\ AllDone)'
  BY <1>1 DEF Quiet, GrabbedOnce, AllDone, isPostProcessable
<1>3. AllOnce'
  <2>1. CASE Assemble
    <3>1. DOMAIN ppFiles' = DOMAIN ppFiles /\ \A i \in DOMAIN ppFiles : ppFiles'[i].file = ppFiles[i].file
      BY <2>1, AssembleSound
    <3>2. \A f : Added(f)' = Added(f)
      BY <3>1 DEF Added
    <3> QED  BY <1>1, <3>1, <3>2 DEF Quiet, AllOnce
  <2>2. CASE ~Assemble
    BY <1>1, <2>2 DEF Quiet, AllOnce, Added
  <2> QED  BY <2>1, <2>2
<1>4. repairer' = "par2" => Named'
  BY <1>1 DEF Quiet, Named
<1> DEFINE Rest ==
        /\ repairer = "par2" => (pc = "repair" \/ repaired => AllAssembled)
        /\ ~repaired => repairer = "par2"
        /\ pc \in {"test", "assemble", "repair", "giveUp", "shutdown", "done", "next", "reset"}
        /\ pc \in {"shutdown", "done"} => repaired
        /\ pc \in {"next", "reset"} =>
            /\ ~repaired /\ started
            /\ Len(list) >= 1 /\ at = IF pc = "next" THEN 1 ELSE 2
<1>5. pc' = "fatal" \/ Rest'
  <2>1. CASE GetMorePar2s
    <3>1. Len(list') >= 1
      BY <2>1, GetMorePar2sSound
    <3>2. ~repaired /\ pc = "test" /\ started
      BY <2>1 DEF GetMorePar2s, NeedsBlocks, Sound, Kept
    <3> QED  BY <2>1, <3>1, <3>2 DEF GetMorePar2s, Quiet
  <2>2. CASE NextFile
    BY <2>2 DEF NextFile, Quiet
  <2>3. CASE GiveUp \/ TryAgain \/ Repaired \/ RepairAgain \/ Shutdown
    BY <2>3 DEF GiveUp, TryAgain, Repaired, RepairAgain, Shutdown, NeedsBlocks, Quiet, Calls,
                AllAssembled
  <2>4. CASE Assemble
    <3>1. pc' = "fatal" \/ (pc' = "repair" /\ AllAssembled')
      BY <2>4, AssembleSound
    <3> QED  BY <2>4, <3>1 DEF Assemble, Quiet
  <2>5. CASE Repair
    BY <2>5 DEF Repair, Quiet, AllAssembled
  <2> QED  BY <2>1, <2>2, <2>3, <2>4, <2>5
<1> QED  BY <1>2, <1>3, <1>4, <1>5 DEF Quiet

LEMMA QuietOnly ==
    ASSUME Sound, Quiet
    PROVE  ~(AllAsked \/ Resume \/ Require \/ IsPending \/ NothingToGrab \/ Enqueue \/ Watch
             \/ AddFiles \/ Repairer)
<1>1. at \in Nat /\ Len(list) \in Nat
  BY DEF Sound, TypeOK
<1> QED
  BY <1>1 DEF Quiet, AllAsked, Resume, Require, IsPending, NothingToGrab, Enqueue, Watch,
              AddFiles, Repairer

\* The first of another lot.
LEMMA QuietAsks ==
    ASSUME Sound, Quiet, Reset
    PROVE  More'
<1> USE DEF fileVars, lotVars, wantVars, typeVars, callVars, repairVars, Goto
<1>1. pc = "reset" /\ pc' = "grab" /\ UNCHANGED <<nzb, typeVars, callVars, ppFiles, repairVars>>
  BY DEF Reset, Calls
<1>2. Settled /\ isPostProcessable /\ AllOnce /\ started /\ repairer = "par2" /\ Named
  BY <1>1, QuietSettled DEF Quiet
<1>3. required' = 0 /\ doneFiles' = <<>>
      /\ UNCHANGED <<fileVars, requiring, wantVars, reporting, signalling>>
  BY <1>2 DEF Reset, ResetGrabbed
<1>4. New' = {} /\ requiring' = {}
  BY <1>1, <1>2, <1>3 DEF New, AllOnce, Added, Settled
<1>5. required' + Cardinality(requiring') = Cardinality(New')
  BY <1>3, <1>4, FS_EmptySet
<1>6. AllDone' /\ reporting' = {} /\ GrabbedOnce'
  BY <1>2, <1>3 DEF AllDone, Settled, GrabbedOnce
<1>7. \A f \in DOMAIN nzb : nzb[f].type # "par2" => fState'[f] = "Done" /\ again'[f] = 0
  BY <1>2, <1>3, NzbType DEF Settled, AllDone, GrabbedOnce, Sound, Kept
<1>8. Named'
  BY <1>1, <1>2 DEF Named
<1> QED
  BY <1>1, <1>2, <1>3, <1>5, <1>6, <1>7, <1>8 DEF More

-----------------------------------------------------------------------------
\* Another lot.
LEMMA NewFinite == ASSUME Sound PROVE New \in SUBSET Files /\ IsFiniteSet(New) /\ Cardinality(New) \in Nat
<1>1. New \in SUBSET Files
  BY DEF New
<1> QED  BY <1>1, Finite

\* Its counters are what they were, and so are the files.
LEMMA MoreSame ==
    ASSUME Sound, More, UNCHANGED <<grabVars, nzb, ppFiles, repairVars>>,
           pc' \in {"next", "reset", "grab", "enqueue", "watch"}, pc # "require",
           pc # "add",
           pc' = "enqueue" => required > 0 /\ file' \in Par2Subjects
    PROVE  More'
<1> USE DEF grabVars, fileVars, lotVars, wantVars, repairVars
<1>1. New' = New
  BY DEF New, Added
<1>2. Par2Subjects' = Par2Subjects
  BY DEF Par2Subjects
<1> QED
  BY <1>1, <1>2 DEF More, Named, AllDone, GrabbedOnce, isPostProcessable

LEMMA MoreGoes ==
    ASSUME Sound, More, NextFile \/ AllAsked \/ Reset \/ IsPending \/ NothingToGrab
    PROVE  More'
<1> USE DEF typeVars, callVars, repairVars, Goto
<1>1. CASE NextFile \/ AllAsked \/ NothingToGrab
  BY <1>1, MoreSame DEF NextFile, AllAsked, NothingToGrab, Calls, More
<1>2. CASE Reset
  <2>1. isPostProcessable => required = 0 /\ doneFiles = <<>>
    BY <1>2 DEF Reset, ResetGrabbed, More
  <2>2. UNCHANGED grabVars
    BY <1>2, <2>1 DEF Reset, ResetGrabbed, grabVars, fileVars, lotVars, wantVars
  <2> QED  BY <1>2, <2>2, MoreSame DEF Reset, Calls
<1>3. CASE IsPending
  <2>1. pc = "grab" /\ pc' = "enqueue" /\ file \in DOMAIN nzb /\ fState[file] = "Pending"
    BY <1>3 DEF IsPending, Calls, Asking, Sound, Kept
  <2>2. file \in Files /\ fRequired[file] /\ requiring = {}
    BY <2>1, NzbType DEF Sound, Kept, Orderly
  <2>3. required > 0
    BY <2>1, <2>2 DEF More, AllDone, Sound, TypeOK, GrabTypeOK
  <2>4. file \in Par2Subjects
    BY <2>1 DEF More, Par2Subjects
  <2> QED  BY <1>3, <2>1, <2>3, <2>4, MoreSame DEF IsPending, Calls
<1> QED  BY <1>1, <1>2, <1>3

LEMMA MoreResume ==
    ASSUME Sound, More, Resume
    PROVE  More'
<1> USE DEF fileVars, lotVars, wantVars, typeVars, callVars, repairVars, Goto
<1>1. pc = "grab" /\ file \in DOMAIN nzb /\ file \in Files /\ ~fRequired[file] /\ ResumeFile(file)
  BY NzbType DEF Resume, ResumeFile, Sound, Kept, Asking
<1>2. pc' = "require" /\ UNCHANGED <<nzb, typeVars, callVars, ppFiles, repairVars>>
  BY <1>1 DEF Resume, Calls
<1>3. /\ requiring = {} /\ requiring' = {file}
      /\ UNCHANGED <<lotVars, wantVars, reporting, signalling>>
  BY <1>1 DEF ResumeFile
<1>4. /\ fRequired'[file] /\ fState'[file] = "Pending"
      /\ \A f \in Files : f # file => fRequired'[f] = fRequired[f] /\ fState'[f] = fState[f]
  BY <1>1 DEF ResumeFile, Sound, TypeOK, GrabTypeOK
<1>5. New' = New \cup {file} /\ file \notin New
  <2>1. Added(file) = {}
    BY <1>1 DEF ResumeFile, Added, Sound, Kept
  <2> QED  BY <1>1, <1>2, <1>4, <2>1 DEF New, Added
<1>6. required' + Cardinality(requiring') = Cardinality(New')
  <2>1. Cardinality(requiring) = 0 /\ Cardinality(requiring') = 1
    BY <1>3, FS_EmptySet, FS_Singleton
  <2>2. Cardinality(New') = Cardinality(New) + 1 /\ Cardinality(New) \in Nat
    BY <1>5, NewFinite, FS_AddElement
  <2>3. required' = required /\ required \in Nat
    BY <1>3 DEF Sound, TypeOK, GrabTypeOK
  <2> QED  BY <2>1, <2>2, <2>3 DEF More
<1>7. file \in Par2Subjects'
  BY <1>1, <1>2 DEF Par2Subjects, Sound, Kept
<1>8. required = 0 => (AllDone /\ reporting = {} /\ GrabbedOnce)'
  BY <1>3, <1>4 DEF More, AllDone, GrabbedOnce
<1>9. \A f \in DOMAIN nzb : nzb[f].type # "par2" => fState'[f] = "Done" /\ again'[f] = 0
  <2>1. nzb[file].type = "par2"
    BY <1>1 DEF Sound, Kept
  <2> QED  BY <1>3, <1>4, <2>1, NzbType DEF More, Sound
<1> QED
  BY <1>1, <1>2, <1>3, <1>6, <1>7, <1>8, <1>9 DEF More, Named, isPostProcessable

LEMMA MoreRequire ==
    ASSUME Sound, More, Require
    PROVE  More'
<1> USE DEF fileVars, lotVars, wantVars, typeVars, callVars, repairVars, Goto
<1>1. /\ pc = "require" /\ pc' = "enqueue"
      /\ UNCHANGED <<nzb, typeVars, callVars, ppFiles, repairVars>>
  BY DEF Require, Calls
<1>2. requiring = {file} /\ requiring' = {} /\ required' = required + 1 /\ ~signalling /\ ~signalling'
      /\ UNCHANGED <<fileVars, doneFiles, wantVars, reporting>>
  BY <1>1 DEF Require, RequireFile, Sound, Kept
<1>3. New' = New
  BY <1>1, <1>2 DEF New, Added
<1>4. required \in Nat /\ Len(doneFiles) \in Nat
  BY DEF Sound, TypeOK, GrabTypeOK
<1>5. required' + Cardinality(requiring') = Cardinality(New')
  <2>1. Cardinality(requiring) = 1 /\ Cardinality(requiring') = 0
    BY <1>2, FS_EmptySet, FS_Singleton
  <2> QED  BY <1>1, <1>2, <1>3, <1>4, <2>1 DEF More
<1>6. ~isPostProcessable'
  <2>1. required + 1 > Len(doneFiles)
    <3>1. CASE isPostProcessable
      BY <1>1, <1>2, <1>4, <3>1 DEF More
    <3>2. CASE ~isPostProcessable
      BY <1>4, <3>2 DEF isPostProcessable
    <3> QED  BY <3>1, <3>2
  <2> QED  BY <1>2, <1>4, <2>1 DEF isPostProcessable
<1>7. required' > 0 /\ required' # 0
  BY <1>2, <1>4
<1>8. file \in Par2Subjects'
  BY <1>1 DEF More, Par2Subjects
<1> QED
  BY <1>1, <1>2, <1>5, <1>6, <1>7, <1>8 DEF More, Named

LEMMA MoreEnqueue ==
    ASSUME Sound, More, Enqueue
    PROVE  More'
<1> USE DEF fileVars, lotVars, wantVars, typeVars, callVars, repairVars, Goto
<1>1. /\ pc = "enqueue" /\ pc' = "next"
      /\ UNCHANGED <<nzb, typeVars, callVars, ppFiles, repairVars>>
  BY DEF Enqueue, Calls
<1>2. UNCHANGED <<fileVars, lotVars, segments, requiring, reporting, signalling>>
  BY DEF Enqueue, EnqueueFile
<1>3. New' = New
  BY <1>1, <1>2 DEF New, Added
<1>4. required > 0 /\ required' = required /\ required' # 0 /\ file \in Par2Subjects
  BY <1>1, <1>2 DEF More, Sound, TypeOK, GrabTypeOK
<1>5. \A f \in DOMAIN nzb : nzb[f].type # "par2" => again'[f] = again[f]
  BY <1>4, NzbType DEF Enqueue, EnqueueFile, Par2Subjects, Sound, TypeOK, GrabTypeOK
<1> QED
  BY <1>1, <1>2, <1>3, <1>4, <1>5 DEF More, Named, isPostProcessable

LEMMA MoreWatch ==
    ASSUME Sound, More, Watch
    PROVE  More'
<1> USE DEF fileVars, lotVars, wantVars, typeVars, callVars, repairVars, Goto
<1>1. /\ pc = "watch" /\ pc' = "add" /\ signalling
      /\ UNCHANGED <<fileVars, lotVars, requiring, wantVars, reporting>>
      /\ UNCHANGED <<nzb, typeVars, callVars, ppFiles, repairVars>>
  BY DEF Watch, PostProcessable, Calls
<1>2. New' = New /\ isPostProcessable'
  BY <1>1 DEF New, Added, Sound, Kept, isPostProcessable
<1> QED
  BY <1>1, <1>2 DEF More, Named, AllDone, GrabbedOnce

LEMMA MoreWork ==
    ASSUME Sound, More, NEW f \in Files, Works(f), UNCHANGED <<nzb, typeVars, mainVars>>
    PROVE  More'
<1> USE DEF fileVars, lotVars, wantVars, typeVars, mainVars, callVars, repairVars
<1>1. required # 0
  <2> SUFFICES ASSUME required = 0 PROVE FALSE
    OBVIOUS
  <2>1. AllDone /\ reporting = {} /\ GrabbedOnce
    BY DEF More
  <2>2. f \in wanted => fState[f] # "Pending"
    BY <2>1 DEF AllDone, Sound, Kept, Orderly
  <2>3. fState[f] # "Working"
    BY <2>1 DEF AllDone, Sound, Kept, Orderly
  <2> QED
    BY <2>1, <2>2, <2>3 DEF Works, FileWorking, FileDone, FileDoneAgain, ReportFile, GrabbedOnce,
                            Sound, TypeOK, GrabTypeOK
<1>2. UNCHANGED <<fRequired, required, requiring, segments, wanted>>
  BY DEF Works, FileWorking, FileDone, FileDoneAgain, ReportFile
<1>3. New' = New
  BY <1>2 DEF New, Added
<1>4. \A g \in DOMAIN nzb : nzb[g].type # "par2" => fState'[g] = "Done" /\ again'[g] = 0
  <2>1. fState' = fState \/ (fState[f] # "Done" /\ \A g \in Files : g # f => fState'[g] = fState[g])
    BY DEF Works, FileWorking, FileDone, FileDoneAgain, ReportFile, Sound, TypeOK, GrabTypeOK
  <2>2. again' = again \/ (again[f] > 0 /\ \A g \in Files : g # f => again'[g] = again[g])
    BY DEF Works, FileWorking, FileDone, FileDoneAgain, ReportFile, Sound, TypeOK, GrabTypeOK
  <2> QED  BY <2>1, <2>2, NzbType DEF More, Sound
<1>5. IF pc = "add" THEN isPostProcessable'
      ELSE isPostProcessable' => signalling' \/ (required' = 0 /\ doneFiles' = <<>>)
  <2>1. CASE ReportFile(f)
    <3>1. Len(doneFiles') = Len(doneFiles) + 1 /\ Len(doneFiles) \in Nat /\ required \in Nat
      BY <2>1 DEF ReportFile, Sound, TypeOK, GrabTypeOK
    <3>2. signalling' = isPostProcessable'
      BY <2>1 DEF ReportFile
    <3>3. pc = "add" => Len(doneFiles) >= required
      BY DEF More, isPostProcessable
    <3>4. pc = "add" => isPostProcessable'
      BY <1>2, <3>1, <3>3 DEF isPostProcessable
    <3> QED  BY <3>2, <3>4
  <2>2. CASE UNCHANGED <<doneFiles, signalling>>
    BY <1>2, <2>2 DEF More, isPostProcessable
  <2> QED
    BY <2>1, <2>2 DEF Works, FileWorking, FileDone, FileDoneAgain
<1> QED
  BY <1>1, <1>2, <1>3, <1>4, <1>5 DEF More, Named, Par2Subjects

LEMMA Sniffed ==
    ASSUME Sound, NEW f \in Files, Sniff(f)
    PROVE  (More => More') /\ (Last => Last')
<1>1. UNCHANGED <<grabVars, nzb, pc, at, file, ppFiles, repairVars>>
  BY DEF Sniff
<1> QED
  BY <1>1 DEF More, Last, New, Added, Named, AllDone, GrabbedOnce, isPostProcessable, NoneTwice,
       AllAssembled, Par2Subjects, grabVars, fileVars, lotVars, wantVars, repairVars

-----------------------------------------------------------------------------
\* The other lot has been added.
LEMMA AsManyFiles ==
    ASSUME NEW S, NEW q \in Seq(S), \A i, j \in DOMAIN q : i # j => q[i] # q[j]
    PROVE  IsFiniteSet(Range(q)) /\ Cardinality(Range(q)) = Len(q)
<1>1. Len(q) \in Nat /\ DOMAIN q = 1 .. Len(q)
  BY SeqFacts
<1>2. q \in [1 .. Len(q) -> Range(q)]
  BY <1>1 DEF Range
<1>3. \A s \in Range(q) : \E i \in 1 .. Len(q) : q[i] = s
  BY <1>1 DEF Range
<1>4. ExistsBijection(1 .. Len(q), Range(q))
  BY <1>1, <1>2, <1>3, Fun_IsBij DEF ExistsBijection
<1>5. IsFiniteSet(1 .. Len(q)) /\ Cardinality(1 .. Len(q)) = Len(q)
  BY <1>1, FS_Interval
<1> QED  BY <1>4, <1>5, FS_Bijection

LEMMA MoreEnds ==
    ASSUME Sound, More, AddFiles
    PROVE  Last'
<1> USE DEF fileVars, lotVars, wantVars, typeVars, callVars, repairVars, Goto
<1>1. /\ pc = "add" /\ pc' = "assemble" /\ UNCHANGED grabVars
      /\ UNCHANGED <<nzb, typeVars, callVars, repairVars>>
  BY DEF AddFiles, More
<1> DEFINE added == [i \in DOMAIN doneFiles |-> [file      |-> doneFiles[i],
                                                 par2      |-> fType[doneFiles[i]] = "par2",
                                                 assembled |-> FALSE]]
           m == Len(ppFiles)
<1>2. /\ DOMAIN doneFiles = 1 .. Len(doneFiles) /\ Len(doneFiles) \in Nat
      /\ DOMAIN ppFiles = 1 .. m /\ m \in Nat
  BY PpFilesType DEF Sound, TypeOK, GrabTypeOK
<1>3. /\ DOMAIN ppFiles' = 1 .. m + Len(doneFiles)
      /\ \A i \in 1 .. m : ppFiles'[i] = ppFiles[i]
      /\ \A i \in DOMAIN doneFiles : ppFiles'[m + i].file = doneFiles[i]
  <2>1. added \in Seq(Range(added)) /\ Len(added) = Len(doneFiles)
    <3>1. added = [i \in 1 .. Len(doneFiles) |-> added[i]]
      BY <1>2
    <3>2. \A i \in 1 .. Len(doneFiles) : added[i] \in Range(added)
      BY <1>2 DEF Range
    <3>3. DOMAIN added = 1 .. Len(doneFiles)
      BY <1>2
    <3> HIDE DEF added
    <3>4. added \in Seq(Range(added))
      BY <1>2, <3>1, <3>2, IsASeq
    <3> QED  BY <1>2, <3>3, <3>4
  <2>2. ppFiles' = ppFiles \o added
    BY DEF AddFiles
  <2>3. ppFiles \in Seq(Range(ppFiles))
    <3>1. ppFiles \in Seq([file : DOMAIN nzb, par2 : BOOLEAN, assembled : BOOLEAN])
      BY DEF Sound, TypeOK
    <3> QED  BY <3>1 DEF Range
  <2>4. /\ DOMAIN ppFiles' = 1 .. m + Len(added)
        /\ \A i \in 1 .. m : ppFiles'[i] = ppFiles[i]
        /\ \A i \in 1 .. Len(added) : ppFiles'[m + i] = added[i]
    <3> HIDE DEF added
    <3> DEFINE Kinds == Range(ppFiles) \cup Range(added)
    <3>1. ppFiles \in Seq(Kinds) /\ added \in Seq(Kinds)
      BY <2>1, <2>3, SeqMonotonic
    <3> HIDE DEF Kinds
    <3>2. /\ ppFiles' \in Seq(Kinds) /\ Len(ppFiles') = m + Len(added)
          /\ \A i \in 1 .. m + Len(added) :
                ppFiles'[i] = IF i <= m THEN ppFiles[i] ELSE added[i - m]
      BY <2>2, <3>1, ConcatProperties
    <3>3. m \in Nat /\ Len(added) \in Nat
      BY <1>2, <2>1
    <3>4. DOMAIN ppFiles' = 1 .. m + Len(added)
      BY <3>2, SeqFacts
    <3>5. ASSUME NEW i \in 1 .. m
          PROVE  ppFiles'[i] = ppFiles[i]
      BY <3>2, <3>3
    <3>6. ASSUME NEW i \in 1 .. Len(added)
          PROVE  ppFiles'[m + i] = added[i]
      <4>1. m + i \in 1 .. m + Len(added) /\ ~(m + i <= m) /\ (m + i) - m = i
        BY <3>3
      <4> QED  BY <3>2, <4>1
    <3> QED  BY <3>4, <3>5, <3>6
  <2>5. \A i \in DOMAIN doneFiles : added[i].file = doneFiles[i]
    OBVIOUS
  <2> HIDE DEF added
  <2> QED  BY <1>2, <2>1, <2>4, <2>5
<1>4. NoneTwice' => New' = {}
  <2> SUFFICES ASSUME NoneTwice' PROVE New' = {}
    OBVIOUS
  <2>1. \A i \in DOMAIN doneFiles : m + i \in DOMAIN ppFiles' /\ m + i \notin DOMAIN ppFiles
    BY <1>2, <1>3
  <2>2. \A i \in DOMAIN ppFiles : i \in DOMAIN ppFiles'
    BY <1>2, <1>3
  <2>3. \A i, j \in DOMAIN doneFiles : i # j => doneFiles[i] # doneFiles[j]
    <3> SUFFICES ASSUME NEW i \in DOMAIN doneFiles, NEW j \in DOMAIN doneFiles, i # j
                 PROVE  doneFiles[i] # doneFiles[j]
      OBVIOUS
    <3>1. m + i # m + j
      BY <1>2
    <3> QED  BY <1>3, <2>1, <3>1 DEF NoneTwice
  <2>4. Range(doneFiles) \subseteq New
    <3> SUFFICES ASSUME NEW i \in DOMAIN doneFiles PROVE doneFiles[i] \in New
      BY DEF Range
    <3>1. doneFiles[i] \in Files /\ fState[doneFiles[i]] = "Done"
      BY SeqFacts DEF Sound, TypeOK, GrabTypeOK, Kept, Range
    <3>2. fRequired[doneFiles[i]]
      BY <3>1 DEF Sound, Kept, Orderly
    <3>3. \A j \in DOMAIN ppFiles : ppFiles[j].file # doneFiles[i]
      <4> SUFFICES ASSUME NEW j \in DOMAIN ppFiles PROVE ppFiles[j].file # doneFiles[i]
        OBVIOUS
      <4>1. j # m + i /\ j \in DOMAIN ppFiles' /\ m + i \in DOMAIN ppFiles'
        BY <2>1, <2>2
      <4>2. ppFiles'[j] = ppFiles[j] /\ ppFiles'[m + i].file = doneFiles[i]
        BY <1>2, <1>3
      <4> QED  BY <4>1, <4>2 DEF NoneTwice
    <3> QED  BY <3>1, <3>2, <3>3 DEF New, Added
  <2>5. Range(doneFiles) = New
    <3>1. IsFiniteSet(Range(doneFiles)) /\ Cardinality(Range(doneFiles)) = Len(doneFiles)
      BY <2>3, AsManyFiles DEF Sound, TypeOK, GrabTypeOK
    <3>2. Cardinality(New) <= Len(doneFiles)
      <4>1. requiring = {} /\ isPostProcessable /\ required \in Nat
        BY <1>1 DEF More, Sound, Kept, TypeOK, GrabTypeOK
      <4> QED  BY <4>1, FS_EmptySet DEF More, isPostProcessable
    <3>3. Cardinality(Range(doneFiles)) <= Cardinality(New)
      BY <2>4, NewFinite, FS_Subset
    <3>4. Cardinality(Range(doneFiles)) = Cardinality(New)
      BY <1>2, <3>1, <3>2, <3>3, NewFinite
    <3> QED  BY <2>4, <3>4, NewFinite, FS_Subset
  <2>6. ASSUME NEW f \in Files, fRequired'[f]
        PROVE  Added(f)' # {}
    <3>1. fRequired[f]
      BY <1>1, <2>6 DEF grabVars
    <3>2. CASE Added(f) # {}
      BY <1>2, <1>3, <2>2, <3>2 DEF Added
    <3>3. CASE Added(f) = {}
      <4>1. f \in Range(doneFiles)
        BY <2>5, <3>1, <3>3 DEF New
      <4>2. PICK i \in DOMAIN doneFiles : doneFiles[i] = f
        BY <4>1 DEF Range
      <4> QED  BY <1>3, <2>1, <4>2 DEF Added
    <3> QED  BY <3>2, <3>3
  <2> QED  BY <2>6 DEF New
<1> QED  BY <1>1, <1>4 DEF More, Last, Named

LEMMA MoreOnly ==
    ASSUME Sound, More
    PROVE  ~(GetMorePar2s \/ GiveUp \/ TryAgain \/ Repaired \/ Assemble \/ Repair \/ RepairAgain
             \/ Shutdown \/ Repairer)
BY DEF More, GetMorePar2s, GiveUp, TryAgain, Repaired, Assemble, Repair, RepairAgain, Shutdown,
       Repairer, NeedsBlocks

LEMMA LastGoes ==
    ASSUME Sound, Last, Main
    PROVE  pc' = "fatal" \/ Last'
<1>1. Assemble \/ RepairAgain
  BY DEF Last, Main, GrabFiles, PostProcess, FromNZB, CannotStart, NextFile, AllAsked, Reset,
         Resume, Require, IsPending, NothingToGrab, Enqueue, Watch, AddFiles, Repairer,
         GetMorePar2s, GiveUp, TryAgain, Repaired, Repair, Shutdown, NeedsBlocks
<1>2. CASE RepairAgain
  BY <1>2 DEF RepairAgain, Calls, Goto
<1>3. CASE Assemble
  <2>1. /\ DOMAIN ppFiles' = DOMAIN ppFiles
        /\ \A i \in DOMAIN ppFiles : ppFiles'[i].file = ppFiles[i].file
        /\ pc' \in {"repair", "fatal"}
        /\ pc' = "repair" => AllAssembled' /\ NoneTwice
    BY <1>3, AssembleSound
  <2>2. UNCHANGED <<grabVars, nzb, repairVars>>
    BY <1>3 DEF Assemble
  <2>3. \A f : Added(f)' = Added(f)
    BY <2>1 DEF Added
  <2>4. New' = New /\ (NoneTwice' <=> NoneTwice)
    BY <2>1, <2>2, <2>3 DEF New, NoneTwice, grabVars, fileVars
  <2> QED  BY <2>1, <2>2, <2>4 DEF Last, Named, repairVars
<1> QED  BY <1>1, <1>2, <1>3

LEMMA LastWork ==
    ASSUME Sound, Last, NEW f \in Files, Works(f), UNCHANGED <<nzb, typeVars, mainVars>>
    PROVE  Last'
<1>1. fRequired' = fRequired
  BY DEF Works, FileWorking, FileDone, FileDoneAgain, ReportFile, fileVars
<1> QED
  BY <1>1 DEF Last, New, Added, Named, NoneTwice, AllAssembled, mainVars, repairVars

-----------------------------------------------------------------------------
\* Every step.
LEMMA MainSound ==
    ASSUME Sound, Main
    PROVE  Sound' \/ pc = "read"
BY ControlSound, NextFileSound, AddFilesSound, RepairerSound, GetMorePar2sSound, AssembleSound,
   RepairSound, ResetSound, ResumeSound, RequireSound, EnqueueSound, WatchSound
   DEF Main, GrabFiles, PostProcess, FromNZB, CannotStart

LEMMA FirstMain ==
    ASSUME Sound, First, Main
    PROVE  First' \/ Quiet'
<1>1. ~(FromNZB \/ CannotStart \/ GetMorePar2s \/ GiveUp \/ TryAgain \/ Repaired \/ Assemble
        \/ Repair \/ RepairAgain \/ Shutdown)
  BY DEF First, FromNZB, CannotStart, GetMorePar2s, GiveUp, TryAgain, Repaired, Assemble, Repair,
         RepairAgain, Shutdown, NeedsBlocks
<1> QED
  BY <1>1, FirstAsks, FirstAdds, FirstEnds DEF Main, GrabFiles, PostProcess

LEMMA QuietMain ==
    ASSUME Sound, Quiet, Main
    PROVE  pc' = "fatal" \/ Quiet' \/ More'
<1>1. ~(FromNZB \/ CannotStart)
  BY DEF Quiet, FromNZB, CannotStart
<1> QED
  BY <1>1, QuietOnly, QuietGoes, QuietAsks DEF Main, GrabFiles, PostProcess

LEMMA MoreMain ==
    ASSUME Sound, More, Main
    PROVE  More' \/ Last'
<1>1. ~(FromNZB \/ CannotStart)
  BY DEF More, FromNZB, CannotStart
<1> QED
  BY <1>1, MoreOnly, MoreGoes, MoreResume, MoreRequire, MoreEnqueue, MoreWatch, MoreEnds
     DEF Main, GrabFiles, PostProcess

LEMMA FromNZBFirst ==
    ASSUME TypeOK, Fresh, FromNZB
    PROVE  First'
<1> USE DEF typeVars, callVars, repairVars, Goto
<1>1. /\ pc' = "next" /\ list' = [f \in DOMAIN nzb |-> f]
      /\ UNCHANGED <<nzb, damaged, doneFiles, requiring, wanted, again, reporting, signalling,
                     at, shared, file, ppFiles, repairVars>>
      /\ fState' = [f \in Files |-> IF fRequired'[f] THEN "Pending" ELSE "Paused"]
      /\ required' = Cardinality({f \in Files : fRequired'[f]})
  BY DEF FromNZB
<1>2. Left' = {f \in Files : fRequired'[f]}
  BY <1>1 DEF Left
<1>3. Balance'
  <2>1. doneFiles' = <<>> /\ requiring' = {} /\ reporting' = {}
    BY <1>1 DEF Fresh
  <2>2. {f \in Files : fRequired'[f]} \in SUBSET Files
    OBVIOUS
  <2>3. required' \in Nat /\ Cardinality({}) = 0 /\ Len(<<>>) = 0
    BY <1>1, <2>2, Finite, FS_EmptySet
  <2> QED  BY <1>1, <1>2, <2>1, <2>3 DEF Balance
<1>4. \A f \in Files : fState'[f] # "Done"
  BY <1>1
<1>5. Range(doneFiles') = {} /\ DOMAIN doneFiles' = {}
  BY <1>1 DEF Fresh, Range
<1> QED
  BY <1>1, <1>3, <1>4, <1>5 DEF First, Fresh, GrabbedOnce, Asking

LEMMA RepairStep == RepairInv /\ [Next]_vars => RepairInv'
<1> SUFFICES ASSUME RepairInv, [Next]_vars PROVE RepairInv'
  OBVIOUS
<1>1. CASE UNCHANGED vars
  <2> USE <1>1 DEF vars, grabVars, fileVars, lotVars, wantVars, typeVars, mainVars, callVars,
                   repairVars
  <2>1. TypeOK' = TypeOK
    BY DEF TypeOK, GrabTypeOK
  <2>2. Kept' = Kept
    BY DEF Kept, Orderly, Asking, isPostProcessable
  <2>3. Fresh' = Fresh
    BY DEF Fresh
  <2>4. (Named' = Named) /\ (AllOnce' = AllOnce) /\ (AllAssembled' = AllAssembled)
        /\ (NoneTwice' = NoneTwice) /\ (GrabbedOnce' = GrabbedOnce) /\ (AllDone' = AllDone)
    BY DEF Named, AllOnce, Added, AllAssembled, NoneTwice, GrabbedOnce, AllDone
  <2>5. (New' = New) /\ (isPostProcessable' = isPostProcessable) /\ (Par2Subjects' = Par2Subjects)
    BY DEF New, Added, isPostProcessable, Par2Subjects
  <2>6. (First' = First) /\ (Quiet' = Quiet)
    BY <2>4, <2>5 DEF First, Quiet, Balance, Left, Asking
  <2>7. (More' = More) /\ (Last' = Last)
    BY <2>4, <2>5 DEF More, Last
  <2> QED  BY <2>1, <2>2, <2>3, <2>6, <2>7 DEF RepairInv
<1>2. ~(pc = "fatal" /\ Next)
  BY DEF Next, Main, GrabFiles, PostProcess, Work, WorkAgain, Sniff, Running, FromNZB,
         CannotStart, NextFile, AllAsked, Reset, Resume, Require, IsPending, NothingToGrab,
         Enqueue, Watch, AddFiles, Repairer, GetMorePar2s, GiveUp, TryAgain, Repaired, Assemble,
         Repair, RepairAgain, Shutdown, NeedsBlocks
<1>3. CASE pc = "read" /\ Next
  <2>1. FromNZB \/ CannotStart
    BY <1>3 DEF Next, Main, GrabFiles, PostProcess, Work, WorkAgain, Sniff, Running, NextFile,
         AllAsked, Reset, Resume, Require, IsPending, NothingToGrab, Enqueue, Watch, AddFiles,
         Repairer, GetMorePar2s, GiveUp, TryAgain, Repaired, Assemble, Repair, RepairAgain,
         Shutdown, NeedsBlocks
  <2>2. CASE FromNZB
    <3>1. Sound' /\ First'
      BY <1>3, <2>2, FromNZBSound, FromNZBFirst DEF RepairInv
    <3> QED  BY <3>1 DEF Sound, RepairInv, First
  <2>3. CASE CannotStart
    <3>1. TypeOK'
      BY <2>3, GrabUnchanged DEF CannotStart, RepairInv, TypeOK, typeVars, callVars, repairVars,
           Goto, Places
    <3>2. pc' = "fatal"
      BY <2>3 DEF CannotStart, Goto
    <3> QED  BY <3>1, <3>2 DEF RepairInv
  <2> QED  BY <2>1, <2>2, <2>3
<1>4. CASE pc \notin {"read", "fatal"} /\ Next
  <2>1. Sound /\ (First \/ Quiet \/ More \/ Last)
    BY <1>4 DEF RepairInv, Sound
  <2>2. CASE Main
    <3>1. Sound'
      BY <1>4, <2>1, <2>2, MainSound
    <3>2. pc' = "fatal" \/ First' \/ Quiet' \/ More' \/ Last'
      BY <2>1, <2>2, FirstMain, QuietMain, MoreMain, LastGoes
    <3>3. pc' # "read"
      BY <3>2 DEF First, Quiet, More, Last
    <3> QED  BY <3>1, <3>2, <3>3 DEF Sound, RepairInv
  <2>3. ASSUME NEW f \in Files, Work(f) \/ WorkAgain(f)
        PROVE  RepairInv'
    <3>1. Works(f) /\ UNCHANGED <<nzb, typeVars, mainVars>>
      BY <2>3 DEF Work, WorkAgain, Works
    <3>2. Sound'
      BY <2>1, <3>1, WorkSound
    <3>3. ~Quiet
      BY <2>1, <3>1, QuietSettled, SettledStays
    <3>4. First' \/ More' \/ Last'
      BY <2>1, <3>1, <3>3, FirstWork, MoreWork, LastWork
    <3>5. pc' = pc
      BY <3>1 DEF mainVars
    <3> QED  BY <1>4, <3>2, <3>4, <3>5 DEF Sound, RepairInv
  <2>4. ASSUME NEW f \in Files, Sniff(f)
        PROVE  RepairInv'
    <3>1. Sound'
      BY <2>1, <2>4, SniffSound
    <3>2. ~Quiet
      BY <2>1, <2>4, QuietSettled, SettledStays
    <3>3. First' \/ More' \/ Last'
      BY <2>1, <2>4, <3>2, FirstSniff, Sniffed
    <3>4. pc' = pc
      BY <2>4 DEF Sniff
    <3> QED  BY <1>4, <3>1, <3>3, <3>4 DEF Sound, RepairInv
  <2> QED  BY <1>4, <2>2, <2>3, <2>4 DEF Next
<1> QED  BY <1>1, <1>2, <1>3, <1>4

LEMMA RepairWhole == RepairInv => TypeOK /\ ProcessesWhole
<1> SUFFICES ASSUME RepairInv, pc \in {"repair", "done"}, NEW f \in Files, fRequired[f]
             PROVE  /\ Cardinality(Added(f)) = 1
                    /\ repairer = "par2" => \A i \in Added(f) : ppFiles[i].assembled
                    /\ repairer = "par2" /\ nzb[f].type # "par2" => f \in args
  BY DEF RepairInv, ProcessesWhole
<1>1. Kept /\ (Quiet \/ (Last /\ pc = "repair"))
  BY DEF RepairInv, First, More, Last
<1>2. f \in DOMAIN nzb
  BY <1>1 DEF Kept
<1>3. PICK i : Added(f) = {i}
  <2>1. CASE Quiet
    BY <2>1 DEF Quiet, AllOnce
  <2>2. CASE Last /\ pc = "repair"
    <3>1. NoneTwice /\ Added(f) # {}
      BY <2>2 DEF Last, New
    <3>2. PICK i \in DOMAIN ppFiles : ppFiles[i].file = f
      BY <3>1 DEF Added
    <3>3. Added(f) = {i}
      BY <3>1, <3>2 DEF Added, NoneTwice
    <3> QED  BY <3>3
  <2> QED  BY <1>1, <2>1, <2>2
<1>4. Cardinality(Added(f)) = 1
  BY <1>3, FS_Singleton
<1>5. repairer = "par2" => AllAssembled /\ Named
  BY <1>1 DEF Quiet, Last
<1> QED  BY <1>2, <1>4, <1>5 DEF AllAssembled, Named, Added

-----------------------------------------------------------------------------
\* The smallest first.
LEMMA TimesAppend ==
    ASSUME NEW S, NEW q \in Seq(S), NEW e \in S, NEW f
    PROVE  /\ Times(f, q) \in Nat
           /\ Times(f, Append(q, e)) = IF f = e THEN Times(f, q) + 1 ELSE Times(f, q)
<1> DEFINE P == {i \in DOMAIN q : q[i] = f}
           T == {i \in DOMAIN Append(q, e) : Append(q, e)[i] = f}
<1>1. IsFiniteSet(P)
  <2>1. IsFiniteSet(1 .. Len(q))
    BY SeqFacts, FS_Interval
  <2>2. P \in SUBSET (1 .. Len(q))
    BY SeqFacts
  <2> QED  BY <2>1, <2>2, FS_Subset
<1>2. T = IF f = e THEN P \cup {Len(q) + 1} ELSE P
  BY AppendFacts
<1>3. Len(q) + 1 \notin P
  BY AppendFacts
<1>4. Cardinality(P) \in Nat
  BY <1>1, FS_CardinalityType
<1>5. Cardinality(P \cup {Len(q) + 1}) = Cardinality(P) + 1
  BY <1>1, <1>3, FS_AddElement
<1> QED  BY <1>2, <1>4, <1>5 DEF Times

LEMMA TimesListed ==
    ASSUME NEW q, NEW f, Times(f, q) >= 2
    PROVE  f \in Range(q)
<1>1. {i \in DOMAIN q : q[i] = f} # {}
  BY FS_EmptySet DEF Times
<1> QED  BY <1>1 DEF Range

\* Whatever main goes over is not changed.
LEMMA SameOrder ==
    ASSUME Least, UNCHANGED <<nzb, par2Files, segments, fRequired>>
    PROVE  /\ SmallestFirst'
           /\ pc \notin {"read", "fatal"} => Listed'
           /\ Par2Subjects' = Par2Subjects /\ (ListedTwice' = ListedTwice)
BY DEF Least, SmallestFirst, Listed, IsSorted, Times, Par2Subjects, ListedTwice

LEMMA FromNZBLeast ==
    ASSUME RepairInv, FromNZB
    PROVE  Least'
<1>1. PICK q \in Listings :
        /\ par2Files' = q
        /\ fRequired' = [f \in Files |-> f \in NewRequired \/ (q # <<>> /\ f = q[1])]
  BY DEF FromNZB
<1>2. TypeOK /\ repairer' = "none"
  BY DEF FromNZB, RepairInv, Fresh, repairVars
<1>3. Par2Subjects' = Par2Subjects /\ nzb' = nzb
  BY DEF FromNZB, Par2Subjects
<1>4. /\ \A f \in DOMAIN nzb : segments'[f] = nzb[f].segments
      /\ \A f \in DOMAIN nzb : nzb[f].segments \in Nat
  BY <1>2, NzbType DEF FromNZB
<1>5. IsSorted(q) /\ \A f \in Par2Subjects : Times(f, q) = 2 /\ f \in Range(q)
  BY <1>1, TimesListed DEF Listings
<1>6. ASSUME NEW f \in Par2Subjects, NEW g \in Par2Subjects, fRequired'[f]
      PROVE  ~(segments'[g] < segments'[f])
  <2>1. f = q[1] /\ f \in DOMAIN nzb /\ g \in DOMAIN nzb
    BY <1>1, <1>2, <1>6, NzbType DEF Par2Subjects, NewRequired
  <2>2. PICK i \in DOMAIN q : q[i] = g
    BY <1>5 DEF Range
  <2>3. DOMAIN q = 1 .. 2 * Cardinality(Par2Subjects)
    BY DEF Listings
  <2>4. 1 \in DOMAIN q /\ (i = 1 \/ 1 < i)
    <3>1. 2 * Cardinality(Par2Subjects) \in Nat
      <4>1. Par2Subjects \in SUBSET Files
        BY <1>2, NzbType DEF Par2Subjects
      <4> QED  BY <4>1, Finite
    <3> QED  BY <2>2, <2>3, <3>1
  <2>5. nzb[f].segments <= nzb[g].segments
    BY <1>4, <1>5, <2>1, <2>2, <2>4 DEF IsSorted
  <2> QED  BY <1>4, <2>1, <2>5
<1>7. IsSorted(par2Files)' /\ \A f \in Par2Subjects' : Times(f, par2Files)' >= 2
  BY <1>1, <1>3, <1>5 DEF IsSorted, Times
<1> QED
  BY <1>2, <1>3, <1>4, <1>6, <1>7 DEF Least, Listed, InOrder, SmallestFirst

LEMMA SniffLeast ==
    ASSUME RepairInv, Least, NEW f \in Files, Sniff(f)
    PROVE  Least'
<1>1. /\ UNCHANGED <<grabVars, nzb, pc, at, file, ppFiles, repairVars>>
      /\ pc \notin {"read", "fatal"}
  BY DEF Sniff
<1>2. Sound /\ (First \/ Quiet \/ More \/ Last)
  BY <1>1 DEF RepairInv, Sound
<1>3. CASE UNCHANGED <<par2Files, list, shared>>
  <2>1. SmallestFirst' /\ Listed' /\ (ListedTwice' = ListedTwice)
    BY <1>1, <1>3, SameOrder DEF grabVars, fileVars, wantVars
  <2> QED
    BY <1>1, <1>3, <2>1 DEF Least, InOrder, Asking, Asked, grabVars, fileVars, repairVars
<1>4. CASE FileIsPar2(f)
  <2>1. par2Files \in Seq(DOMAIN nzb) /\ f \in DOMAIN nzb
    BY <1>2, SniffType DEF Sound, TypeOK
  <2> DEFINE q == Append(par2Files, f)
  <2>2. par2Files' \in Sorts(q)
    BY <1>4 DEF FileIsPar2
  <2>3. \A g \in Par2Subjects :
            Times(g, par2Files') = IF g = f THEN Times(g, par2Files) + 1 ELSE Times(g, par2Files)
    <3> SUFFICES ASSUME NEW g \in Par2Subjects
                 PROVE  Times(g, par2Files') = IF g = f THEN Times(g, par2Files) + 1
                                               ELSE Times(g, par2Files)
      OBVIOUS
    <3>1. Times(g, q) = IF g = f THEN Times(g, par2Files) + 1 ELSE Times(g, par2Files)
      BY <2>1, TimesAppend
    <3>2. g \in Range(par2Files)
      BY <1>1, TimesListed DEF Least, Listed
    <3>3. g \in Range(q)
      BY <2>1, <3>2, AppendFacts
    <3>4. Times(g, par2Files') = Times(g, q)
      <4> HIDE DEF q
      <4> QED  BY <2>2, <3>3 DEF Sorts
    <3> QED  BY <3>1, <3>4
  <2>4. \A g \in Par2Subjects : Times(g, par2Files) \in Nat /\ Times(g, par2Files) >= 2
    BY <1>1, <2>1, TimesAppend DEF Least, Listed
  <2>5. /\ Par2Subjects' = Par2Subjects
        /\ \A g : Times(g, par2Files)' = Times(g, par2Files')
    BY <1>1 DEF Par2Subjects, Times
  <2>6. ListedTwice' => ListedTwice /\ f \notin Par2Subjects
    BY <2>3, <2>4, <2>5 DEF ListedTwice
  <2>7. IsSorted(par2Files)'
    <3>1. IsSorted(par2Files')
      BY <2>2 DEF Sorts
    <3> QED  BY <1>1, <3>1 DEF IsSorted
  <2>8. Listed'
    <3>1. \A g \in Par2Subjects' : Times(g, par2Files)' >= 2
      BY <2>3, <2>4, <2>5
    <3> QED  BY <1>1, <2>7, <3>1 DEF Least, Listed, grabVars, wantVars
  <2>9. SmallestFirst'
    BY <1>1, <2>5, <2>6 DEF Least, SmallestFirst, ListedTwice, grabVars, fileVars, wantVars
  <2>10. (Asking \/ pc = "next") /\ repairer # "none" => f \in Par2Subjects
    <3> SUFFICES ASSUME Asking \/ pc = "next", repairer # "none" PROVE f \in Par2Subjects
      OBVIOUS
    <3>1. More
      BY <1>2, QuietSettled, SettledStays DEF First, Last, Asking
    <3>2. fState[f] # "Done" \/ again[f] # 0
      BY <1>2 DEF Sniff, Sound, TypeOK, GrabTypeOK
    <3> QED  BY <2>1, <3>1, <3>2 DEF More, Par2Subjects
  <2>11. InOrder'
    BY <1>1, <2>6, <2>10 DEF InOrder, Asking, repairVars
  <2> QED  BY <2>8, <2>9, <2>11 DEF Least
<1> QED  BY <1>2, <1>3, <1>4, SniffType DEF Sound

LEMMA ResumeLeast ==
    ASSUME RepairInv, Least, Resume
    PROVE  Least'
<1>1. pc = "grab" /\ ResumeFile(file) /\ Asking
  BY DEF Resume, Asking
<1>2. Sound /\ More
  <2>1. Sound /\ (First \/ Quiet \/ More \/ Last)
    BY <1>1 DEF RepairInv, Sound
  <2> QED  BY <1>1, <2>1 DEF First, ResumeFile, Quiet, Last
<1>3. /\ file \in DOMAIN nzb /\ file \in Files
      /\ UNCHANGED <<nzb, typeVars, callVars, ppFiles, repairVars, segments>>
      /\ pc' \in {"require", "enqueue"}
  BY <1>1, <1>2, NzbType DEF Resume, Calls, Goto, ResumeFile, wantVars, Sound, Kept
<1>4. /\ fRequired'[file]
      /\ \A f \in Files : f # file => fRequired'[f] = fRequired[f]
      /\ \A f \in Files : fRequired[f] => fRequired'[f]
  BY <1>1, <1>2, <1>3 DEF ResumeFile, Sound, TypeOK, GrabTypeOK
<1>5. Par2Subjects' = Par2Subjects /\ (ListedTwice' = ListedTwice) /\ Listed'
  BY <1>1, <1>3 DEF Par2Subjects, ListedTwice, Times, Least, Listed, IsSorted, typeVars
<1>6. ListedTwice =>
        /\ shared /\ at <= Len(list) + 1 /\ at > 1 /\ file = list[at - 1]
        /\ \A i \in 1 .. at - 2 : fRequired[list[i]]
  BY <1>1, <1>2 DEF Least, InOrder, Asked, More
<1>7. at \in Nat /\ Len(list) \in Nat /\ Len(par2Files) \in Nat /\ DOMAIN par2Files = 1 .. Len(par2Files)
      /\ par2Files \in Seq(DOMAIN nzb) /\ list \in Seq(DOMAIN nzb)
  BY <1>2 DEF Sound, TypeOK
<1>8. shared => \A i \in 1 .. Len(list) : i \in DOMAIN par2Files /\ list[i] = par2Files[i]
  <2> SUFFICES ASSUME shared, NEW i \in 1 .. Len(list)
               PROVE  i \in DOMAIN par2Files /\ list[i] = par2Files[i]
    OBVIOUS
  <2>1. Len(list) <= Len(par2Files) /\ list = SubSeq(par2Files, 1, Len(list))
    BY <1>2 DEF Sound, Kept
  <2> QED  BY <1>7, <2>1
<1>9. InOrder'
  <2> SUFFICES ASSUME ListedTwice PROVE InOrder'
    BY <1>5 DEF InOrder
  <2>1. ASSUME NEW i \in 1 .. at - 1
        PROVE  fRequired'[list[i]]
    <3>1. list[i] \in Files
      <4>1. i \in DOMAIN list
        BY <1>6, <1>7
      <4>2. list[i] \in DOMAIN nzb
        BY <1>7, <4>1, SeqFacts
      <4> QED  BY <1>2, <4>2, NzbType DEF Sound
    <3> QED  BY <1>4, <1>6, <1>7, <3>1
  <2> QED
    BY <1>3, <1>6, <2>1 DEF InOrder, Asking, Asked, callVars
<1>10. SmallestFirst'
  <2> SUFFICES ASSUME ListedTwice, NEW f \in Par2Subjects, NEW g \in Par2Subjects,
                      fRequired'[f], segments[g] < segments[f]
               PROVE  fRequired'[g]
    BY <1>3, <1>5 DEF SmallestFirst, ListedTwice
  <2>1. f \in Files /\ g \in Files /\ f \in DOMAIN nzb /\ g \in DOMAIN nzb
    BY <1>2, NzbType DEF Sound, Par2Subjects
  <2>2. CASE f # file
    <3>1. fRequired[f]
      BY <1>4, <2>1, <2>2
    <3> QED  BY <1>4, <2>1, <3>1 DEF Least, SmallestFirst, ListedTwice
  <2>3. CASE f = file
    <3>1. g \in Range(par2Files)
      BY <1>1, TimesListed DEF Least, Listed
    <3>2. PICK j \in DOMAIN par2Files : par2Files[j] = g
      BY <3>1 DEF Range
    <3>3. at - 1 \in 1 .. Len(list) /\ f = par2Files[at - 1] /\ at - 1 \in DOMAIN par2Files
      BY <1>6, <1>7, <1>8, <2>3
    <3>4. ~(at - 1 < j)
      <4> SUFFICES ASSUME at - 1 < j PROVE FALSE
        OBVIOUS
      <4>1. nzb[f].segments <= nzb[g].segments
        BY <1>1, <3>2, <3>3 DEF Least, Listed, IsSorted
      <4>2. segments[f] <= segments[g] /\ segments[f] \in Nat /\ segments[g] \in Nat
        BY <1>1, <1>2, <2>1, <4>1 DEF Least, Listed, Sound, TypeOK, GrabTypeOK
      <4> QED  BY <4>2
    <3>5. j # at - 1
      <4> SUFFICES ASSUME j = at - 1 PROVE FALSE
        OBVIOUS
      <4>1. g = f /\ segments[f] \in Nat
        BY <1>2, <2>1, <3>2, <3>3 DEF Sound, TypeOK, GrabTypeOK
      <4> QED  BY <4>1
    <3>6. j \in 1 .. at - 2 /\ j \in 1 .. Len(list)
      BY <1>6, <1>7, <3>2, <3>3, <3>4, <3>5
    <3>7. fRequired[list[j]] /\ list[j] = g
      BY <1>6, <1>8, <3>2, <3>6
    <3> QED  BY <1>4, <2>1, <3>7
  <2> QED  BY <2>2, <2>3
<1> QED  BY <1>5, <1>9, <1>10 DEF Least

\* Nothing is resumed.
LEMMA OthersLeast ==
    ASSUME RepairInv, Least, pc \notin {"read", "fatal"}, Main, ~Resume
    PROVE  Least'
<1>1. Sound /\ (First \/ Quiet \/ More \/ Last) /\ Sound'
  BY MainSound DEF RepairInv, Sound
<1>2. UNCHANGED <<nzb, par2Files, segments, fRequired>>
  BY DEF Main, GrabFiles, PostProcess, FromNZB, CannotStart, NextFile, AllAsked, Reset, Require,
         IsPending, NothingToGrab, Enqueue, Watch, AddFiles, Repairer, GetMorePar2s, GiveUp,
         TryAgain, Repaired, Assemble, Repair, RepairAgain, Shutdown, Calls, ResetGrabbed,
         RequireFile, EnqueueFile, PostProcessable, grabVars, fileVars, wantVars, typeVars
<1>3. SmallestFirst' /\ Listed' /\ (ListedTwice' = ListedTwice)
  BY <1>2, SameOrder
<1>4. at \in Nat /\ Len(list) \in Nat /\ list \in Seq(DOMAIN nzb)
  BY <1>1 DEF Sound, TypeOK
<1>5. InOrder'
  <2>1. CASE NextFile
    <3> SUFFICES ASSUME ListedTwice, repairer # "none" PROVE InOrder'
      BY <1>3, <2>1 DEF InOrder, NextFile, repairVars
    <3>1. /\ pc = "next" /\ pc' = "reset" /\ at' = at + 1 /\ file' = list[at] /\ at <= Len(list)
          /\ UNCHANGED <<list, shared, repairer, fRequired>> /\ at >= 1
      BY <1>1, <1>2, <2>1 DEF NextFile, Goto, repairVars, Sound, Kept
    <3>2. shared /\ \A i \in 1 .. at - 1 : fRequired[list[i]]
      BY <3>1 DEF Least, InOrder, Asked
    <3>3. at' - 2 = at - 1 /\ at' - 1 = at /\ at' > 1 /\ at' <= Len(list') + 1
      BY <1>4, <3>1
    <3>4. Asked' = 1 .. at - 1
      BY <3>1, <3>3 DEF Asked
    <3> QED  BY <3>1, <3>2, <3>3, <3>4 DEF InOrder, Asking
  <2>2. CASE GetMorePar2s
    <3>1. pc' = "next" /\ at' = 1 /\ shared' /\ Len(list') \in Nat
      BY <1>1, <2>2 DEF GetMorePar2s, Goto, Sound, TypeOK
    <3>2. Asked' = {} /\ ~Asking' /\ at' <= Len(list') + 1
      BY <3>1 DEF Asked, Asking
    <3> QED  BY <3>1, <3>2 DEF InOrder
  <2>3. CASE IsPending \/ NothingToGrab
    <3> SUFFICES ASSUME ListedTwice, repairer # "none" PROVE InOrder'
      BY <1>3, <2>3 DEF InOrder, IsPending, NothingToGrab, Calls, repairVars
    <3>1. /\ pc = "grab" /\ pc' \in {"next", "enqueue"} /\ fState[file] # "Paused"
          /\ UNCHANGED <<list, at, file, shared, repairer, fRequired>>
      BY <1>2, <2>3 DEF IsPending, NothingToGrab, Calls, Goto, callVars, repairVars
    <3>2. /\ shared /\ at <= Len(list) + 1 /\ at > 1 /\ file = list[at - 1]
          /\ \A i \in 1 .. at - 2 : fRequired[list[i]]
      BY <3>1 DEF Least, InOrder, Asked, Asking
    <3>3. fRequired[file]
      <4>1. file \in Files
        BY <1>1, <3>1, NzbType DEF Sound, Kept, Asking
      <4> QED  BY <1>1, <3>1, <4>1 DEF Sound, Kept, Orderly
    <3>4. \A i \in 1 .. at - 1 : fRequired[list[i]]
      BY <1>4, <3>2, <3>3
    <3> QED  BY <3>1, <3>2, <3>4 DEF InOrder, Asking, Asked
  <2>4. CASE Reset \/ Require \/ Enqueue
    <3>1. /\ \/ pc = "reset" /\ pc' = "grab"
             \/ pc = "require" /\ pc' = "enqueue"
             \/ pc = "enqueue" /\ pc' = "next"
          /\ UNCHANGED <<list, at, file, shared, repairer, fRequired>>
      BY <1>2, <2>4 DEF Reset, Require, Enqueue, Calls, Goto, callVars, repairVars
    <3> QED  BY <1>3, <3>1 DEF Least, InOrder, Asking, Asked
  <2>5. CASE \/ AllAsked \/ Watch \/ AddFiles \/ Repairer \/ GiveUp \/ TryAgain \/ Repaired
             \/ Assemble \/ Repair \/ RepairAgain \/ Shutdown
    <3>1. ~Asking' /\ pc' # "next"
      BY <2>5 DEF AllAsked, Watch, AddFiles, Repairer, GiveUp, TryAgain, Repaired, Assemble,
           Repair, RepairAgain, Shutdown, Calls, Goto, Asking
    <3> QED  BY <3>1 DEF InOrder
  <2>6. ~(FromNZB \/ CannotStart)
    BY DEF FromNZB, CannotStart
  <2> QED
    BY <2>1, <2>2, <2>3, <2>4, <2>5, <2>6 DEF Main, GrabFiles, PostProcess
<1> QED  BY <1>3, <1>5 DEF Least

LEMMA LeastStep == RepairInv /\ Least /\ [Next]_vars => Least'
<1> SUFFICES ASSUME RepairInv, Least, [Next]_vars PROVE Least'
  OBVIOUS
<1>1. CASE UNCHANGED vars
  <2> USE <1>1 DEF vars, grabVars, fileVars, wantVars, typeVars, mainVars, callVars, repairVars
  <2>1. /\ SmallestFirst' /\ (pc \notin {"read", "fatal"} => Listed')
        /\ (ListedTwice' = ListedTwice)
    BY SameOrder
  <2> QED  BY <2>1 DEF Least, InOrder, Asking, Asked
<1>2. CASE FromNZB
  BY <1>2, FromNZBLeast
<1>3. CASE CannotStart
  <2>1. pc' = "fatal" /\ UNCHANGED <<nzb, par2Files, segments, fRequired>>
    BY <1>3 DEF CannotStart, Goto, grabVars, fileVars, wantVars, typeVars
  <2> QED  BY <2>1, SameOrder DEF Least
<1>4. CASE Main /\ ~FromNZB /\ ~CannotStart
  <2>1. pc \notin {"read", "fatal"}
    BY <1>4 DEF Main, GrabFiles, PostProcess, NextFile, AllAsked, Reset, Resume, Require,
         IsPending, NothingToGrab, Enqueue, Watch, AddFiles, Repairer, GetMorePar2s, GiveUp,
         TryAgain, Repaired, Assemble, Repair, RepairAgain, Shutdown, NeedsBlocks
  <2> QED  BY <1>4, <2>1, ResumeLeast, OthersLeast
<1>5. ASSUME NEW f \in Files, Work(f) \/ WorkAgain(f)
      PROVE  Least'
  <2>1. Running /\ UNCHANGED <<nzb, typeVars, mainVars, segments, fRequired>>
    BY <1>5 DEF Work, WorkAgain, FileWorking, FileDone, ReportFile, FileDoneAgain, fileVars,
                wantVars
  <2>2. SmallestFirst' /\ Listed' /\ (ListedTwice' = ListedTwice)
    BY <2>1, SameOrder DEF Running, typeVars
  <2> QED
    BY <2>1, <2>2 DEF Running, Least, InOrder, Asking, Asked, mainVars, callVars, repairVars
<1>6. ASSUME NEW f \in Files, Sniff(f)
      PROVE  Least'
  BY <1>6, SniffLeast
<1> QED  BY <1>1, <1>2, <1>3, <1>4, <1>5, <1>6 DEF Next

LEMMA InitLeast == Init => Least
<1> SUFFICES ASSUME Init PROVE Least
  OBVIOUS
<1>1. TypeOK
  BY InitRepair DEF RepairInv
<1>2. \A f \in Par2Subjects : ~fRequired[f]
  BY <1>1, NzbType DEF Init, Par2Subjects
<1> QED  BY <1>2 DEF Init, Least, SmallestFirst

-----------------------------------------------------------------------------
\* The state of the Grabber, of main and of the post-processor keeps its types,
\* whatever NZB is read: only files of the NZB are listed, asked for and added.
THEOREM RepairTyped == Spec => []TypeOK
<1>1. RepairInv => TypeOK
  BY DEF RepairInv
<1> QED  BY <1>1, InitRepair, RepairStep, PTL DEF Spec, Safety

\* For any NZB, whatever is damaged and however many blocks the par2 program asks for,
\* what is repaired and what the program ends well with is whole.
THEOREM RepairsTheWhole == Spec => []ProcessesWhole
<1> QED  BY RepairWhole, InitRepair, RepairStep, PTL DEF Spec, Safety

\* For any NZB the par2 files are asked for from the smallest on, as long as none of
\* them is listed anew.
THEOREM AsksSmallestFirst == Spec => []SmallestFirst
<1>1. Least => SmallestFirst
  BY DEF Least
<1> QED  BY <1>1, InitRepair, RepairStep, InitLeast, LeastStep, PTL DEF Spec, Safety
=============================================================================
