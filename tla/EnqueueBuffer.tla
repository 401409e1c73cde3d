---------------------------- MODULE EnqueueBuffer ----------------------------
(***************************************************************************)
(* Grabber.handleEnqueues and Grabber.enqueue: the goroutine that moves     *)
(* segments from the channel qIn through the slice b, which has no limit,   *)
(* to the channel qOut, the dispatcher goroutine that reads qOut, and the   *)
(* callers of enqueue, all of which stop when enqueueT dies.                *)
(***************************************************************************)
EXTENDS Naturals, Sequences

CONSTANTS
    Items,          \* the segments
    None,           \* no segment
    Producers,      \* the goroutines that call enqueue
    Cap,            \* the capacity of qIn and of qOut, 100 in New()
    MaxQueued       \* bound of the model on the segments on their way

ASSUME BufferAssumption ==
    /\ None \notin Items
    /\ Cap \in Nat \ {0}
    /\ MaxQueued \in Nat

VARIABLES
    want,           \* want[p]: the segment p is in enqueue with, or None
    qIn, b, qOut,   \* the two channels and the slice between them
    epc,            \* the select the enqueuer is at: "recv" or "send", or "exited"
    held,           \* the segment the dispatcher is in dispatch with, or None
    dispatching,    \* the dispatcher has not returned
    dying           \* enqueueT.Dying() is closed

vars == <<want, qIn, b, qOut, epc, held, dispatching, dying>>
buffers == <<qIn, b, qOut>>

TypeOK ==
    /\ want \in [Producers -> Items \cup {None}]
    /\ qIn \in Seq(Items) /\ Len(qIn) <= Cap
    /\ b \in Seq(Items)
    /\ qOut \in Seq(Items) /\ Len(qOut) <= Cap
    /\ epc \in {"recv", "send", "exited"}
    /\ held \in Items \cup {None}
    /\ dispatching \in BOOLEAN
    /\ dying \in BOOLEAN

Init ==
    /\ want = [p \in Producers |-> None]
    /\ qIn = <<>> /\ b = <<>> /\ qOut = <<>>
    /\ epc = "recv"
    /\ held = None
    /\ dispatching = TRUE
    /\ dying = FALSE

-----------------------------------------------------------------------------
\* A goroutine calls enqueue(x).
Offer(p, x) ==
    /\ want[p] = None
    /\ Len(qIn) + Len(b) + Len(qOut) < MaxQueued
    /\ want' = [want EXCEPT ![p] = x]
    /\ UNCHANGED <<buffers, epc, held, dispatching, dying>>

\* The two cases of enqueue's select.
Enqueue(p) ==
    /\ want[p] # None
    /\ Len(qIn) < Cap
    /\ qIn' = Append(qIn, want[p])
    /\ want' = [want EXCEPT ![p] = None]
    /\ UNCHANGED <<b, qOut, epc, held, dispatching, dying>>

Drop(p) ==
    /\ want[p] # None
    /\ dying
    /\ want' = [want EXCEPT ![p] = None]
    /\ UNCHANGED <<buffers, epc, held, dispatching, dying>>

\* After a first select that found qIn empty, or took a segment from it, the
\* enqueuer goes on to the second one unless b is empty.
AfterReceive(buf) == IF buf = <<>> THEN "recv" ELSE "send"

\* A mutant: a receive that finds nothing appends a nil segment.
ReceiveNil ==
    /\ epc = "recv"
    /\ b' = Append(b, IF qIn = <<>> THEN None ELSE Head(qIn))
    /\ qIn' = IF qIn = <<>> THEN qIn ELSE Tail(qIn)
    /\ epc' = AfterReceive(b')
    /\ UNCHANGED <<want, qOut, held, dispatching, dying>>

Receive ==
    /\ epc = "recv"
    /\ qIn # <<>>
    /\ b' = Append(b, Head(qIn))
    /\ qIn' = Tail(qIn)
    /\ epc' = AfterReceive(b')
    /\ UNCHANGED <<want, qOut, held, dispatching, dying>>

\* A select takes its default only when no other case is ready.
NothingReceived ==
    /\ epc = "recv"
    /\ qIn = <<>> /\ ~dying
    /\ epc' = AfterReceive(b)
    /\ UNCHANGED <<want, buffers, held, dispatching, dying>>

\* Mutants: the newest segment is sent first; the slice is cleared by a send.
SendNewest ==
    /\ epc = "send"
    /\ Len(qOut) < Cap
    /\ qOut' = Append(qOut, b[Len(b)])
    /\ b' = SubSeq(b, 1, Len(b) - 1)
    /\ epc' = "recv"
    /\ UNCHANGED <<want, qIn, held, dispatching, dying>>

SendAndClear ==
    /\ epc = "send"
    /\ Len(qOut) < Cap
    /\ qOut' = Append(qOut, Head(b))
    /\ b' = <<>>
    /\ epc' = "recv"
    /\ UNCHANGED <<want, qIn, held, dispatching, dying>>

Send ==
    /\ epc = "send"
    /\ Len(qOut) < Cap
    /\ qOut' = Append(qOut, Head(b))
    /\ b' = Tail(b)
    /\ epc' = "recv"
    /\ UNCHANGED <<want, qIn, held, dispatching, dying>>

\* A mutant: the second select has no default.
SendBlocks == FALSE

NothingSent ==
    /\ epc = "send"
    /\ Len(qOut) = Cap /\ ~dying
    /\ epc' = "recv"
    /\ UNCHANGED <<want, buffers, held, dispatching, dying>>

\* A mutant: the second select does not look at Dying().
ExitBeforeSend ==
    /\ dying
    /\ epc = "recv"
    /\ epc' = "exited"
    /\ UNCHANGED <<want, buffers, held, dispatching, dying>>

ExitEnqueuer ==
    /\ dying
    /\ epc # "exited"
    /\ epc' = "exited"
    /\ UNCHANGED <<want, buffers, held, dispatching, dying>>

\* The dispatcher's loop; a call of dispatch may take for ever, in Server.Grab.
Take ==
    /\ dispatching
    /\ held = None
    /\ qOut # <<>>
    /\ held' = Head(qOut)
    /\ qOut' = Tail(qOut)
    /\ UNCHANGED <<want, qIn, b, epc, dispatching, dying>>

Release ==
    /\ held # None
    /\ held' = None
    /\ UNCHANGED <<want, buffers, epc, dispatching, dying>>

ExitDispatcher ==
    /\ dying
    /\ dispatching
    /\ held = None
    /\ dispatching' = FALSE
    /\ UNCHANGED <<want, buffers, epc, held, dying>>

\* Shutdown calls enqueueT.Kill.
Kill ==
    /\ ~dying
    /\ dying' = TRUE
    /\ UNCHANGED <<want, buffers, epc, held, dispatching>>

Enqueuer == Receive \/ NothingReceived \/ Send \/ NothingSent \/ ExitEnqueuer

Dispatcher == Take \/ Release \/ ExitDispatcher

Next ==
    \/ \E p \in Producers : (\E x \in Items : Offer(p, x)) \/ Enqueue(p) \/ Drop(p)
    \/ Enqueuer
    \/ Dispatcher
    \/ Kill

\* Go schedules a goroutine that can run, serves the senders blocked on a
\* channel in turn, so that a sender that finds room again and again gets it,
\* and picks one of a select's ready cases at random, so that a case that is
\* ready again and again is picked.
Fairness ==
    /\ WF_vars(Enqueuer) /\ WF_vars(ExitEnqueuer)
    /\ \A p \in Producers : SF_vars(Enqueue(p)) /\ WF_vars(Drop(p))
    /\ WF_vars(Take) /\ SF_vars(ExitDispatcher)

Spec == Init /\ [][Next]_vars /\ Fairness

-----------------------------------------------------------------------------
\* The two channels and the slice are one queue: nothing is lost, duplicated
\* or reordered between enqueue and the dispatcher.
F == INSTANCE Fifo WITH queue <- qOut \o b \o qIn

IsFifo == F!Spec

\* The enqueuer only sends from a slice that holds something: b[0] exists.
SendsSomething == epc = "send" => b # <<>>

\* A call of enqueue returns, even when the dispatcher is stuck for ever with
\* a server that takes no more requests: qIn is emptied whatever qOut does.
\* The response handler depends on it, it calls enqueue for every failure.
EnqueueReturns == \A p \in Producers : (want[p] # None) ~> (want[p] = None)

\* No call of dispatch takes for ever, which is up to the servers.
DispatchReturns == []<>(held = None)

\* What was put into qIn is dispatched, unless the grabber is shut down.
Delivered == DispatchReturns =>
    \A x \in Items :
        (x \in {qIn[i] : i \in DOMAIN qIn}) ~> (held = x \/ dying)

\* Once enqueueT is killed both of its goroutines return, so enqueueT.Wait does.
Stops == DispatchReturns => (dying ~> (epc = "exited" /\ ~dispatching))
=============================================================================
