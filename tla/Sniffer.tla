------------------------------- MODULE Sniffer -------------------------------
(***************************************************************************)
(* magic.Sniffer: a writer in front of the output of a file's first         *)
(* segment, which takes the type of the file from its first bytes.          *)
(***************************************************************************)
EXTENDS Naturals, SequencesExt

CONSTANTS
    headerTable,            \* the headers that are known, each with its type
    requiredHeaderBytes,
    Unknown                 \* the type of a file whose header is none of them

ASSUME HeaderAssumption ==
    /\ requiredHeaderBytes \in Nat \ {0}
    /\ \A d \in headerTable : d.header \in Seq(0 .. 255)
    /\ \A d, e \in headerTable : IsPrefix(d.header, e.header) => d = e

VARIABLES
    sniffing,   \* s.b, the bytes it has kept; none once it is done
    sniffed,    \* s.done
    fileType    \* File.filetype

snifferVars == <<sniffing, sniffed, fileType>>

FileTypes == {d.filetype : d \in headerTable} \cup {Unknown}

NewSniffer(type) == sniffing = <<>> /\ sniffed = FALSE /\ fileType = type

\* Another dispatch makes another sniffer for the same file.
RenewSniffer == sniffing' = <<>> /\ sniffed' = FALSE /\ UNCHANGED fileType

GetHeaderType(bytes) ==
    IF \E d \in headerTable : IsPrefix(d.header, bytes)
    THEN (CHOOSE d \in headerTable : IsPrefix(d.header, bytes)).filetype
    ELSE Unknown

\* A mutant: only what is written last is looked at.
SniffLast(p) ==
    LET b == sniffing \o p
    IN  IF sniffed THEN UNCHANGED snifferVars
        ELSE /\ sniffed' = (Len(b) >= requiredHeaderBytes)
             /\ sniffing' = IF sniffed' THEN <<>> ELSE b
             /\ fileType' = IF sniffed' THEN GetHeaderType(p) ELSE fileType

\* Write keeps p until it has bytes enough to tell the type, whether or not the
\* output takes them.
Sniff(p) ==
    LET b == sniffing \o p
    IN  IF sniffed THEN UNCHANGED snifferVars
        ELSE /\ sniffed' = (Len(b) >= requiredHeaderBytes)
             /\ sniffing' = IF sniffed' THEN <<>> ELSE b
             /\ fileType' = IF sniffed'
                            THEN GetHeaderType(SubSeq(b, 1, requiredHeaderBytes))
                            ELSE fileType
=============================================================================
