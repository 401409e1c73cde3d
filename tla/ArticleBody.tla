------------------------------ MODULE ArticleBody ------------------------------
(***************************************************************************)
(* How a segment's file gets its content: dispatch creates or truncates it  *)
(* and makes a decoder, Session.WriteArticleBody selects the group, asks    *)
(* for the body and copies it into the decoder, and after an error that was *)
(* reported the segment is dispatched again. One segment, the first of its  *)
(* file, and one session: what another session serves in between is a       *)
(* change of the group.                                                     *)
(***************************************************************************)
EXTENDS YencDecoder

CONSTANTS
    Groups,         \* the groups that requests name
    NoGroup,        \* the empty string: a request that names none
    MaxLines,       \* bound of the model: lines in an article
    MaxChunk,       \* bound of the model: lines completed by one Write
    MaxDispatches   \* bound of the model: times the segment is dispatched

ASSUME ArticleAssumption ==
    /\ NoGroup \notin Groups
    /\ MaxLines \in Nat /\ MaxChunk \in Nat /\ MaxDispatches \in Nat \ {0}

VARIABLES
    step,           \* where WriteArticleBody is
    group,          \* the group of the request
    currentGroup,   \* the session's idea of the group it is in
    selected,       \* the group the server has selected for the connection
    result,         \* the error of the GrabResponse
    dispatches

sessionVars == <<currentGroup, selected>>
vars == <<decoderVars, step, group, sessionVars, result, dispatches>>

Init ==
    /\ NewDecoder /\ NewSniffer(Unknown)
    /\ step = "selectGroup" /\ group \in Groups \cup {NoGroup}
    /\ currentGroup = NoGroup /\ selected = NoGroup
    /\ result = "none" /\ dispatches = 1

-----------------------------------------------------------------------------
\* What an answer of the server may be to the session and those it tells.
GroupErrors == {"noGroup", "protocol", "other"}
BodyErrors  == {"noArticle", "protocol", "other"}

\* A protocol error ends the session, and nobody is told of the request.
IsReported(e) == e \notin {"none", "protocol"}

Ends(e) ==
    /\ step' = "done"
    /\ result' = e
    /\ UNCHANGED <<decoderVars, group, dispatches>>

Proceeds(to) ==
    /\ step' = to
    /\ UNCHANGED <<decoderVars, group, result, dispatches>>

\* A mutant: the session's idea changes before the server's answer.
SelectRashly ==
    /\ step = "selectGroup" /\ group \notin {NoGroup, currentGroup}
    /\ currentGroup' = group
    /\ \/ Proceeds("body") /\ selected' = group
       \/ \E e \in GroupErrors : Ends(e) /\ UNCHANGED selected

SelectNothing ==
    /\ step = "selectGroup" /\ group \in {NoGroup, currentGroup}
    /\ Proceeds("body")
    /\ UNCHANGED sessionVars

\* GROUP, which the server may refuse: the group that was selected stays so.
SelectGroup ==
    /\ step = "selectGroup" /\ group \notin {NoGroup, currentGroup}
    /\ \/ Proceeds("body") /\ currentGroup' = group /\ selected' = group
       \/ \E e \in GroupErrors : Ends(e) /\ UNCHANGED sessionVars

\* BODY
Body ==
    /\ step = "body"
    /\ \/ Proceeds("copy")
       \/ \E e \in BodyErrors : Ends(e)
    /\ UNCHANGED sessionVars

\* io.Copy: a Write for each piece of the body, until the end or an error.
Chunks == UNION {[1 .. n -> Lines] : n \in 0 .. MaxChunk}

CopyChunk(chunk) ==
    /\ step = "copy"
    /\ Len(scanned) + Len(b) + Len(chunk) <= MaxLines
    /\ Write(chunk)
    /\ UNCHANGED <<step, group, sessionVars, result, dispatches>>

CopyEnds ==
    /\ step = "copy" /\ ~writing
    /\ \/ Ends(err)
       \/ err = "none" /\ Ends("other")
    /\ UNCHANGED sessionVars

Decode ==
    /\ yDecode
    /\ UNCHANGED <<step, group, sessionVars, result, dispatches>>

\* A mutant: the file of the attempt before is kept.
DispatchAppending(g) ==
    /\ step = "done" /\ IsReported(result) /\ dispatches < MaxDispatches
    /\ b' = <<>> /\ header' = {} /\ trailer' = {} /\ partHeader' = FALSE
    /\ bytesBeforeheader' = 0 /\ nextByteIsCritical' = FALSE
    /\ scanned' = <<>> /\ writing' = FALSE /\ err' = "none"
    /\ RenewSniffer
    /\ step' = "selectGroup" /\ group' = g /\ result' = "none"
    /\ dispatches' = dispatches + 1
    /\ UNCHANGED <<written, sessionVars>>

\* dispatch, after an error that handleResponses was told of.
Dispatch(g) ==
    /\ step = "done" /\ IsReported(result) /\ dispatches < MaxDispatches
    /\ Renew
    /\ step' = "selectGroup" /\ group' = g /\ result' = "none"
    /\ dispatches' = dispatches + 1
    /\ UNCHANGED sessionVars

Next ==
    \/ SelectNothing
    \/ SelectGroup
    \/ Body
    \/ \E chunk \in Chunks : CopyChunk(chunk)
    \/ Decode
    \/ CopyEnds
    \/ \E g \in Groups \cup {NoGroup} : Dispatch(g)

Spec == Init /\ [][Next]_vars

-----------------------------------------------------------------------------
\* Type correctness.
TypeOK ==
    /\ b \in Seq(Lines) /\ scanned \in Seq(Lines)
    /\ header \subseteq Lines /\ trailer \subseteq Lines
    /\ Cardinality(header) <= 1 /\ Cardinality(trailer) <= 1
    /\ partHeader \in BOOLEAN /\ nextByteIsCritical \in BOOLEAN
    /\ bytesBeforeheader \in Nat
    /\ written \in Seq(Byte)
    /\ sniffing \in Seq(Byte) /\ sniffed \in BOOLEAN /\ fileType \in FileTypes
    /\ writing \in BOOLEAN /\ err \in {"none", "decode", "write"}
    /\ step \in {"selectGroup", "body", "copy", "done"}
    /\ group \in Groups \cup {NoGroup}
    /\ currentGroup \in Groups \cup {NoGroup} /\ selected \in Groups \cup {NoGroup}
    /\ result \in {"none", "noGroup", "noArticle", "protocol", "other", "decode", "write"}
    /\ dispatches \in 1 .. MaxDispatches

\* The segment's file is the data of the lines that were scanned, in this
\* dispatch, decoded: however they were cut into pieces, wherever an escape
\* fell, and whatever an attempt before had written.
WritesTheData ==
    written = Decoded(IF err = "none" \/ scanned = <<>> THEN scanned ELSE Front(scanned))

\* A segment is only done when every whole line of its article was scanned, or
\* those up to a trailer, and its data is what the first trailer says, if that
\* names a checksum.
DoneIsIntact ==
    /\ b # <<>> => trailer # {}
    /\ \A k \in Trailers(scanned) :
        (\A j \in Trailers(scanned) : k <= j) => IsRight(scanned, k)

\* A server is only failed for a decoding error if the article is damaged: no
\* header soon enough, one that does not parse, or a trailer that is not right.
IsDamaged ==
    LET n == Len(scanned)
        Before == HeaderAt(Front(scanned))
    IN  \/ Before = 0 /\ Len(Bytes(Front(scanned))) + n - 1 >= maxheaderBuffer
        \/ ~scanned[n].valid
        \/ Before # 0 /\ n < DataFrom(scanned) /\ scanned[n].type # "part"
        \/ n \in Trailers(scanned) /\ ~IsRight(scanned, n)

\* What is done is intact, and what is rejected is damaged.
JudgesRightly ==
    /\ step = "done" /\ result = "none" => DoneIsIntact
    /\ err = "decode" => IsDamaged

\* The type of the file is what the first bytes of its data tell, as soon as there
\* are enough, however they were cut into lines and pieces, and whatever type an
\* attempt before, or the subject, gave it.
SniffsHeader ==
    Len(written) >= requiredHeaderBytes /\ err # "write" =>
        fileType = GetHeaderType(SubSeq(written, 1, requiredHeaderBytes))

\* An article is asked for in the group its request names, although the session
\* remembers the group and GROUP may fail.
InRequestedGroup ==
    [][step = "body" /\ step' = "copy" /\ group # NoGroup => selected = group]_vars
=============================================================================
