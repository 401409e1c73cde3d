----------------------------- MODULE RetryPolicy -----------------------------
(***************************************************************************)
(* The pure part of grabby's failover: what a segment remembers about the  *)
(* servers and groups it failed on (grabber/segment.go), how a failed      *)
(* response changes it (Grabber.handleError) and which server and group    *)
(* the next request goes to (Grabber.dispatch).                            *)
(***************************************************************************)
EXTENDS Naturals, Sequences

CONSTANTS
    Servers,        \* the servers of the Strategy
    ServerSeq,      \* ... in order of priority (Strategy.servers)
    Groups,         \* the newsgroups a file may have been posted to
    MaxRetry        \* Grabber.maxRetry, 3 in New()

Listed(seq) == {seq[i] : i \in DOMAIN seq}

\* A Strategy lists every server, once; a request always names a group, because
\* grabber.NewServer sets needsGroup to TRUE and no option clears it.
ASSUME RetryAssumption ==
    /\ ServerSeq \in Seq(Servers)
    /\ Listed(ServerSeq) = Servers
    /\ \A i, j \in DOMAIN ServerSeq : ServerSeq[i] = ServerSeq[j] => i = j
    /\ MaxRetry \in Nat

\* The errors an AggregatedGrabResponse may carry: a decoder's, the two that
\* nntp.Server names, and any other one.
Errors == {"decode", "noArticle", "noGroup", "other"}

\* Segment.failedServer, Segment.failedGroup and Segment.retries.
Histories == [failedServer : SUBSET Servers,
              failedGroup  : SUBSET Groups,
              retries      : 0..MaxRetry]

NewHistory == [failedServer |-> {}, failedGroup |-> {}, retries |-> 0]

\* A mutant: the group is not remembered.
ForgetGroup(h, g) == h

FailGroup(h, g) == [h EXCEPT !.failedGroup = @ \cup {g}]

\* A mutant: what was used up on the server counts for the next one.
FailServerOnly(h, srv) == [h EXCEPT !.failedServer = @ \cup {srv}]

FailServer(h, srv) == [failedServer |-> h.failedServer \cup {srv},
                       failedGroup  |-> {},
                       retries      |-> 0]

\* A mutant: one retry too many.
MayRetryOnceMore(h) == h.retries <= MaxRetry

MayRetry(h) == h.retries < MaxRetry

\* A mutant: the retry is not counted.
RetryUncounted(h) == h

RetryServer(h) == [h EXCEPT !.retries = @ + 1]

\* The first entry of seq outside failed: the loop of SelectServer and
\* SelectGroup, defined when there is one.
First(seq, failed) ==
    seq[CHOOSE i \in DOMAIN seq :
            /\ seq[i] \notin failed
            /\ \A j \in DOMAIN seq : seq[j] \notin failed => i <= j]

\* A mutant: the loop stops before the last server.
AllButLastFailed(h) == {ServerSeq[i] : i \in 1 .. Len(ServerSeq) - 1} \subseteq h.failedServer

NoMoreServers(h) == Listed(ServerSeq) \subseteq h.failedServer

\* A mutant: the last server left is preferred.
SelectLastServer(h) ==
    ServerSeq[CHOOSE i \in DOMAIN ServerSeq :
                /\ ServerSeq[i] \notin h.failedServer
                /\ \A j \in DOMAIN ServerSeq : ServerSeq[j] \notin h.failedServer => j <= i]

SelectServer(h) == First(ServerSeq, h.failedServer)

NoMoreGroups(h, groups) == Listed(groups) \subseteq h.failedGroup

\* A mutant: the groups that failed are not left out.
SelectAnyGroup(h, groups) == Head(groups)

SelectGroup(h, groups) == First(groups, h.failedGroup)

\* Grabber.handleError on a response of srv to a request in group g.
HandleError(h, err, srv, g) ==
    CASE err \in {"decode", "noArticle"}     -> FailServer(h, srv)
      [] err = "noGroup"                     -> FailGroup(h, g)
      [] err = "other" /\ MayRetry(h)        -> RetryServer(h)
      [] err = "other" /\ ~MayRetry(h)       -> FailServer(h, srv)

\* One history is further than another: a server, a group or an attempt more
\* is used up, in that order of significance.
Further(h2, h1) ==
    \/ /\ h1.failedServer \subseteq h2.failedServer
       /\ h1.failedServer # h2.failedServer
    \/ /\ h1.failedServer = h2.failedServer
       /\ h1.failedGroup \subseteq h2.failedGroup
       /\ h1.retries <= h2.retries
       /\ h1.failedGroup # h2.failedGroup \/ h1.retries < h2.retries
=============================================================================
