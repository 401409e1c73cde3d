--------------------------------- MODULE Fifo ---------------------------------
(***************************************************************************)
(* What Grabber.enqueue and the dispatcher goroutine promise each other: an *)
(* unbounded first-in first-out queue of segments, read one at a time.      *)
(***************************************************************************)
EXTENDS Sequences

CONSTANTS Items, None

VARIABLES
    queue,          \* the segments enqueued and not yet dispatched, oldest first
    held            \* the segment being dispatched, or None

Init == queue = <<>> /\ held = None

Put(x) == queue' = Append(queue, x) /\ UNCHANGED held

Take ==
    /\ held = None
    /\ queue # <<>>
    /\ held' = Head(queue)
    /\ queue' = Tail(queue)

Release == held # None /\ held' = None /\ UNCHANGED queue

Next == (\E x \in Items : Put(x)) \/ Take \/ Release

Spec == Init /\ [][Next]_<<queue, held>>
=============================================================================
