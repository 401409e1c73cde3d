-------------------------- MODULE RetryPolicyProofs --------------------------
(***************************************************************************)
(* Lemmas about the operators of RetryPolicy, for every set of servers and *)
(* groups, every order of priority and every retry limit.                  *)
(***************************************************************************)
EXTENDS RetryPolicy, WellFoundedInduction, TLAPS

\* First returns an entry of the sequence outside the failed set, and every
\* entry before it is in that set: the loops of SelectServer and SelectGroup.
LEMMA FirstIsFirst ==
    ASSUME NEW S, NEW seq \in Seq(S), NEW failed,
           ~(Listed(seq) \subseteq failed)
    PROVE  \E i \in DOMAIN seq :
               /\ First(seq, failed) = seq[i]
               /\ seq[i] \notin failed
               /\ \A j \in DOMAIN seq : seq[j] \notin failed => i <= j
<1> DEFINE T == {i \in DOMAIN seq : seq[i] \notin failed}
<1>1. T \subseteq Nat /\ T # {}
  BY DEF Listed
<1>2. \E i \in T : \A j \in T : i <= j
  <2>1. PICK i \in T : \A j \in T : <<j, i>> \notin OpToRel(<, Nat)
    BY <1>1, WFMin, NatLessThanWellFounded
  <2>2. \A j \in T : ~(j < i)
    BY <1>1, <2>1 DEF OpToRel
  <2> QED  BY <1>1, <2>2
<1> QED
  BY <1>2 DEF First

\* The selected server is one of the Strategy's, has not failed, and every
\* server ahead of it has.
LEMMA SelectServerSpec ==
    ASSUME NEW h \in Histories, ~NoMoreServers(h)
    PROVE  \E i \in DOMAIN ServerSeq :
               /\ SelectServer(h) = ServerSeq[i]
               /\ SelectServer(h) \in Servers \ h.failedServer
               /\ \A j \in DOMAIN ServerSeq : j < i => ServerSeq[j] \in h.failedServer
<1> DEFINE failed == h.failedServer
<1>1. ServerSeq \in Seq(Servers) /\ ~(Listed(ServerSeq) \subseteq failed)
  BY RetryAssumption DEF NoMoreServers
<1> HIDE DEF failed
<1>2. \E i \in DOMAIN ServerSeq :
          /\ First(ServerSeq, failed) = ServerSeq[i]
          /\ ServerSeq[i] \notin failed
          /\ \A j \in DOMAIN ServerSeq : ServerSeq[j] \notin failed => i <= j
  BY <1>1, FirstIsFirst
<1>3. PICK i \in DOMAIN ServerSeq :
          /\ SelectServer(h) = ServerSeq[i]
          /\ ServerSeq[i] \notin h.failedServer
          /\ \A j \in DOMAIN ServerSeq : ServerSeq[j] \notin h.failedServer => i <= j
  BY <1>2 DEF SelectServer, failed
<1> QED
  BY <1>3, RetryAssumption

\* The selected group is one of the file's and has not failed on this server.
LEMMA SelectGroupSpec ==
    ASSUME NEW h \in Histories, NEW groups \in Seq(Groups), ~NoMoreGroups(h, groups)
    PROVE  SelectGroup(h, groups) \in Groups \ h.failedGroup
BY FirstIsFirst DEF SelectGroup, NoMoreGroups

LEMMA HistoryTypes ==
    /\ NewHistory \in Histories
    /\ \A h \in Histories, srv \in Servers : FailServer(h, srv) \in Histories
    /\ \A h \in Histories, g \in Groups : FailGroup(h, g) \in Histories
    /\ \A h \in Histories : MayRetry(h) => RetryServer(h) \in Histories
BY RetryAssumption
   DEF NewHistory, Histories, FailServer, FailGroup, MayRetry, RetryServer

LEMMA HandleErrorType ==
    ASSUME NEW h \in Histories, NEW err \in Errors, NEW srv \in Servers, NEW g \in Groups
    PROVE  HandleError(h, err, srv, g) \in Histories
<1>1. /\ FailServer(h, srv) \in Histories
      /\ FailGroup(h, g) \in Histories
      /\ MayRetry(h) => RetryServer(h) \in Histories
  BY HistoryTypes
<1> QED  BY <1>1 DEF HandleError, Errors

\* A failed response leaves a history further than it found it when it answers
\* a server and a group that had not failed.
LEMMA HandleErrorSpec ==
    ASSUME NEW h \in Histories, NEW err \in Errors,
           NEW srv \in Servers \ h.failedServer, NEW g \in Groups \ h.failedGroup
    PROVE  /\ HandleError(h, err, srv, g) \in Histories
           /\ Further(HandleError(h, err, srv, g), h)
           /\ \/ HandleError(h, err, srv, g).failedServer = h.failedServer
              \/ HandleError(h, err, srv, g).failedServer = h.failedServer \cup {srv}
<1>1. CASE err \in {"decode", "noArticle"} \/ (err = "other" /\ ~MayRetry(h))
  <2>1. HandleError(h, err, srv, g) = FailServer(h, srv)
    BY <1>1 DEF HandleError
  <2> QED  BY <2>1, HistoryTypes DEF FailServer, Further, Histories
<1>2. CASE err = "noGroup"
  <2>1. HandleError(h, err, srv, g) = FailGroup(h, g)
    BY <1>2 DEF HandleError
  <2> QED  BY <2>1, HistoryTypes DEF FailGroup, Further, Histories
<1>3. CASE err = "other" /\ MayRetry(h)
  <2>1. HandleError(h, err, srv, g) = RetryServer(h)
    BY <1>3 DEF HandleError
  <2> QED  BY <2>1, <1>3, HistoryTypes, RetryAssumption
           DEF RetryServer, Further, Histories
<1> QED  BY <1>1, <1>2, <1>3 DEF Errors
=============================================================================
