------------------------- MODULE EnqueueBufferProofs -------------------------
(***************************************************************************)
(* EnqueueBuffer implements Fifo, for every capacity of the channels, every *)
(* set of segments and any number of goroutines that call enqueue.          *)
(***************************************************************************)
EXTENDS EnqueueBuffer, SequenceTheorems, TLAPS

\* Moving the head of one sequence to the end of another keeps what they hold
\* together, and in which order: the enqueuer's two steps.
LEMMA Shift ==
    ASSUME NEW S, NEW s \in Seq(S), NEW t \in Seq(S), t # <<>>
    PROVE  /\ Append(s, Head(t)) \o Tail(t) = s \o t
           /\ Append(s, Head(t)) \in Seq(S)
           /\ Tail(t) \in Seq(S)
<1>1. Append(s, Head(t)) \in Seq(S) /\ Tail(t) \in Seq(S)
  BY HeadTailProperties
<1> DEFINE l == Append(s, Head(t)) \o Tail(t)
           r == s \o t
<1>2. l \in Seq(S) /\ r \in Seq(S)
  BY <1>1, ConcatProperties
<1>3. Len(l) = Len(r)
  BY <1>1, HeadTailProperties, ConcatProperties
<1>4. ASSUME NEW i \in 1..Len(l) PROVE l[i] = r[i]
  <2>1. Len(t) \in Nat \ {0} /\ Len(s) \in Nat /\ Len(Append(s, Head(t))) = Len(s) + 1
    BY EmptySeq, LenProperties
  <2>2. Len(Tail(t)) = Len(t) - 1 /\ \A j \in 1..Len(Tail(t)) : Tail(t)[j] = t[j + 1]
    BY HeadTailProperties
  <2>3. i \in 1..(Len(s) + Len(t))
    BY <1>3, ConcatProperties
  <2>4. CASE i <= Len(s)
    BY <1>1, <2>1, <2>2, <2>3, <2>4, ConcatProperties
  <2>5. CASE i = Len(s) + 1
    BY <1>1, <2>1, <2>2, <2>3, <2>5, ConcatProperties
  <2>6. CASE i > Len(s) + 1
    BY <1>1, <2>1, <2>2, <2>3, <2>6, ConcatProperties
  <2> QED  BY <2>1, <2>3, <2>4, <2>5, <2>6
<1> HIDE DEF l, r
<1>5. l = r
  BY <1>2, <1>3, <1>4, SeqEqual
<1> QED  BY <1>1, <1>5 DEF l, r

LEMMA Regroup == \A s, t, u \in Seq(Items) : (s \o t) \o u = s \o (t \o u)
BY ConcatAssociative

LEMMA TakeHead ==
    ASSUME NEW S, NEW s \in Seq(S), NEW t \in Seq(S), s # <<>>
    PROVE  s \o t # <<>> /\ Head(s \o t) = Head(s) /\ Tail(s \o t) = Tail(s) \o t
<1>1. Tail(s) \in Seq(S) /\ s \o t \in Seq(S) /\ s \o t # <<>>
  BY HeadTailProperties, ConcatProperties, ConcatSimplifications
<1>2. Len(s) \in Nat \ {0} /\ Len(t) \in Nat /\ Len(Tail(s)) = Len(s) - 1
  BY EmptySeq, LenProperties, HeadTailProperties
<1>3. Head(s \o t) = Head(s)
  BY <1>1, <1>2, ConcatProperties
<1> DEFINE l == Tail(s \o t)
           r == Tail(s) \o t
<1>4. l \in Seq(S) /\ r \in Seq(S)
  BY <1>1, HeadTailProperties, ConcatProperties
<1>5. Len(l) = Len(r)
  BY <1>1, <1>2, HeadTailProperties, ConcatProperties
<1>6. ASSUME NEW i \in 1..Len(l) PROVE l[i] = r[i]
  <2>1. Len(l) = Len(s) + Len(t) - 1
    BY <1>1, <1>2, HeadTailProperties, ConcatProperties
  <2>2. l[i] = (s \o t)[i + 1]
    BY <1>1, <1>6, HeadTailProperties
  <2>3. (s \o t)[i + 1] = IF i + 1 <= Len(s) THEN s[i + 1] ELSE t[i + 1 - Len(s)]
    BY <1>2, <2>1, <1>6, ConcatProperties
  <2>4. r[i] = IF i <= Len(Tail(s)) THEN Tail(s)[i] ELSE t[i - Len(Tail(s))]
    BY <1>1, <1>2, <2>1, <1>6, ConcatProperties
  <2>5. \A j \in 1..Len(Tail(s)) : Tail(s)[j] = s[j + 1]
    BY HeadTailProperties
  <2> HIDE DEF l, r
  <2>6. i \in Nat /\ i >= 1
    BY <1>2, <2>1, <1>6
  <2>7. CASE i <= Len(Tail(s))
    BY <1>2, <2>2, <2>3, <2>4, <2>5, <2>6, <2>7
  <2>8. CASE ~(i <= Len(Tail(s)))
    <3>1. i + 1 - Len(s) = i - Len(Tail(s)) /\ ~(i + 1 <= Len(s))
      BY <1>2, <2>6, <2>8
    <3> QED  BY <2>2, <2>3, <2>4, <2>8, <3>1
  <2> QED  BY <2>7, <2>8
<1> HIDE DEF l, r
<1>7. l = r
  BY <1>4, <1>5, <1>6, SeqEqual
<1> QED  BY <1>1, <1>3, <1>7 DEF l, r

-----------------------------------------------------------------------------
Inv == TypeOK /\ SendsSomething

LEMMA NextInv == ASSUME Inv, [Next]_vars PROVE Inv'
<1> USE BufferAssumption DEF Inv, TypeOK, SendsSomething, buffers
<1>1. ASSUME NEW p \in Producers, NEW x \in Items, Offer(p, x) PROVE Inv'
  BY <1>1 DEF Offer
<1>2. ASSUME NEW p \in Producers, Enqueue(p) PROVE Inv'
  BY <1>2 DEF Enqueue
<1>3. ASSUME NEW p \in Producers, Drop(p) PROVE Inv'
  BY <1>3 DEF Drop
<1>4. CASE Receive
  <2>1. /\ qIn' \in Seq(Items) /\ Len(qIn') <= Cap
        /\ b' \in Seq(Items) /\ b' # <<>>
    BY <1>4, HeadTailProperties DEF Receive
  <2> QED  BY <1>4, <2>1 DEF Receive, AfterReceive
<1>5. CASE NothingReceived
  BY <1>5 DEF NothingReceived, AfterReceive
<1>6. CASE Send
  <2>1. /\ qOut' \in Seq(Items) /\ Len(qOut') <= Cap
        /\ b' \in Seq(Items)
    BY <1>6, HeadTailProperties DEF Send
  <2> QED  BY <1>6, <2>1 DEF Send
<1>7. CASE NothingSent
  BY <1>7 DEF NothingSent
<1>8. CASE ExitEnqueuer
  BY <1>8 DEF ExitEnqueuer
<1>9. CASE Take
  <2>1. /\ qOut' \in Seq(Items) /\ Len(qOut') <= Cap
        /\ held' \in Items
    BY <1>9, HeadTailProperties DEF Take
  <2> QED  BY <1>9, <2>1 DEF Take
<1>10. CASE Release
  BY <1>10 DEF Release
<1>11. CASE ExitDispatcher
  BY <1>11 DEF ExitDispatcher
<1>12. CASE Kill
  BY <1>12 DEF Kill
<1>13. CASE UNCHANGED vars
  BY <1>13 DEF vars
<1> QED
  BY <1>1, <1>2, <1>3, <1>4, <1>5, <1>6, <1>7, <1>8, <1>9, <1>10, <1>11, <1>12, <1>13
  DEF Next, Enqueuer, Dispatcher

THEOREM Invariance == Spec => []Inv
<1>1. ASSUME Init PROVE Inv
  <2>1. <<>> \in Seq(Items) /\ Len(<<>>) = 0 /\ 0 <= Cap
    BY EmptySeq, BufferAssumption
  <2> QED  BY <1>1, <2>1 DEF Init, Inv, TypeOK, SendsSomething
<1>2. Inv /\ [Next]_vars => Inv'
  BY NextInv
<1> QED  BY <1>1, <1>2, PTL DEF Spec

\* The channels never hold more than their capacity, nor anything that is not
\* a segment.
THEOREM TypeCorrect == Spec => []TypeOK
<1>1. Inv => TypeOK
  BY DEF Inv
<1> QED  BY <1>1, Invariance, PTL

\* The enqueuer reads b[0] only when b holds a segment.
THEOREM NeverSendsNothing == Spec => []SendsSomething
<1>1. Inv => SendsSomething
  BY DEF Inv
<1> QED  BY <1>1, Invariance, PTL

-----------------------------------------------------------------------------
Queue == qOut \o b \o qIn

LEMMA QueueStep ==
    ASSUME Inv, [Next]_vars
    PROVE  [F!Next]_<<Queue, held>>
<1> USE DEF Inv, TypeOK, buffers
<1> b \in Seq(Items) /\ qIn \in Seq(Items) /\ qOut \in Seq(Items)
  OBVIOUS
<1>0. (qOut \o b) \o qIn = qOut \o (b \o qIn)
  BY Regroup
<1>1. ASSUME NEW p \in Producers, Enqueue(p) PROVE F!Put(want[p]) /\ want[p] \in Items
  <2>1. want[p] \in Items /\ qIn' = Append(qIn, want[p]) /\ UNCHANGED <<b, qOut, held>>
    BY <1>1 DEF Enqueue
  <2>2. qOut \o b \in Seq(Items)
    BY ConcatProperties
  <2>3. (qOut \o b) \o Append(qIn, want[p]) = Append((qOut \o b) \o qIn, want[p])
    BY <2>1, <2>2
  <2> QED  BY <2>1, <2>3 DEF F!Put
<1>2. CASE Receive
  <2>1. /\ qIn # <<>> /\ b' = Append(b, Head(qIn)) /\ qIn' = Tail(qIn)
        /\ UNCHANGED <<qOut, held>>
    BY <1>2 DEF Receive
  <2>2. b' \o qIn' = b \o qIn /\ b' \in Seq(Items) /\ qIn' \in Seq(Items)
    BY <2>1, Shift
  <2>3. (qOut \o b') \o qIn' = qOut \o (b' \o qIn')
    <3> HIDE DEF Inv, TypeOK
    <3> QED  BY <2>2, Regroup
  <2> QED  BY <1>0, <2>1, <2>2, <2>3 DEF Queue
<1>3. CASE Send
  <2>1. /\ b # <<>> /\ qOut' = Append(qOut, Head(b)) /\ b' = Tail(b)
        /\ UNCHANGED <<qIn, held>>
    BY <1>3 DEF Send, SendsSomething
  <2>2. qOut' \o b' = qOut \o b
    BY <2>1, Shift
  <2> QED  BY <2>1, <2>2 DEF Queue
<1>4. CASE Take
  <2>1. /\ held = None /\ qOut # <<>> /\ held' = Head(qOut) /\ qOut' = Tail(qOut)
        /\ UNCHANGED <<qIn, b>>
    BY <1>4 DEF Take
  <2>2. b \o qIn \in Seq(Items) /\ Tail(qOut) \in Seq(Items)
    BY <2>1, ConcatProperties, HeadTailProperties
  <2>3. (Tail(qOut) \o b) \o qIn = Tail(qOut) \o (b \o qIn)
    BY <2>2, Regroup
  <2>4. Queue # <<>> /\ Head(Queue) = Head(qOut) /\ Tail(Queue) = Queue'
    <3>1. /\ qOut \o (b \o qIn) # <<>>
          /\ Head(qOut \o (b \o qIn)) = Head(qOut)
          /\ Tail(qOut \o (b \o qIn)) = Tail(qOut) \o (b \o qIn)
      BY <2>1, <2>2, TakeHead
    <3> QED  BY <1>0, <2>1, <2>3, <3>1 DEF Queue
  <2>5. F!Take
    BY <2>1, <2>4 DEF F!Take, Queue
  <2> QED  BY <2>5 DEF F!Next
<1>5. CASE Release
  BY <1>5 DEF Release, F!Next, F!Release
<1>6. ASSUME \/ \E p \in Producers : (\E x \in Items : Offer(p, x)) \/ Drop(p)
             \/ NothingReceived \/ NothingSent \/ ExitEnqueuer
             \/ ExitDispatcher \/ Kill \/ UNCHANGED vars
      PROVE  UNCHANGED <<Queue, held>>
  <2>1. UNCHANGED <<qIn, b, qOut, held>>
    BY <1>6 DEF Offer, Drop, NothingReceived, NothingSent, ExitEnqueuer,
                ExitDispatcher, Kill, vars
  <2> QED  BY <2>1 DEF Queue
<1> QED
  BY <1>1, <1>2, <1>3, <1>4, <1>5, <1>6 DEF Next, Enqueuer, Dispatcher, F!Next

\* The channel qIn, the slice b and the channel qOut behave as one unbounded
\* queue: the dispatcher gets the segments enqueued, each once and in order.
THEOREM ImplementsFifo == Spec => IsFifo
<1>1. Init => F!Init
  BY EmptySeq, ConcatEmptySeq DEF Init, F!Init
<1>2. Inv /\ [Next]_vars => [F!Next]_<<Queue, held>>
  BY QueueStep
<1> QED  BY <1>1, <1>2, Invariance, PTL DEF Spec, IsFifo, F!Spec, Queue
=============================================================================
