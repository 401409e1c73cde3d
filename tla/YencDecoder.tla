----------------------------- MODULE YencDecoder -----------------------------
(***************************************************************************)
(* yenc.Decoder: an io.Writer that is given an article in pieces cut        *)
(* anywhere, and decodes it line by line into its own writer, which for the  *)
(* first segment of a file is a Sniffer.                                    *)
(*                                                                         *)
(* A line is what the decoder sees in it: the type its first bytes give it, *)
(* its bytes without the line ending, whether its fields parse, and for a   *)
(* trailer the checksums it names. A checksum is the data it is the         *)
(* checksum of: two pieces of data are taken to have different ones.        *)
(***************************************************************************)
EXTENDS Integers, Sniffer

CONSTANTS
    Lines,              \* the lines of articles
    maxheaderBuffer     \* bytes to read before giving up on a header

Byte == 0 .. 255

ASSUME LinesAssumption == \A l \in Lines :
    /\ l.bytes \in Seq(Byte) /\ l.valid \in BOOLEAN
    /\ l.type \in {"text", "begin", "part", "end"}
    /\ l.type = "begin" => l.multipart \in BOOLEAN
    /\ l.type = "end" => l.partCRC32 \subseteq Seq(Byte) /\ l.crc32 \subseteq Seq(Byte)

VARIABLES
    b,                  \* d.b: its complete lines; the rest of it decides nothing
    header, trailer,    \* the line that was parsed, or none
    partHeader,         \* whether a part header was parsed
    bytesBeforeheader,
    nextByteIsCritical,
    written,            \* the output, which is also what d.crc has summed
    scanned,            \* the lines taken from d.b
    writing,            \* inside Write
    err                 \* what Write returned

parseVars == <<header, trailer, partHeader, bytesBeforeheader>>
dataVars  == <<nextByteIsCritical, written>>
decoderVars == <<b, parseVars, dataVars, scanned, writing, err, snifferVars>>

NewDecoder ==
    /\ b = <<>> /\ header = {} /\ trailer = {} /\ partHeader = FALSE
    /\ bytesBeforeheader = 0 /\ nextByteIsCritical = FALSE
    /\ written = <<>> /\ scanned = <<>> /\ writing = FALSE /\ err = "none"

\* A new decoder takes the place of this one, and an empty output that of its output.
Renew ==
    /\ b' = <<>> /\ header' = {} /\ trailer' = {} /\ partHeader' = FALSE
    /\ bytesBeforeheader' = 0 /\ nextByteIsCritical' = FALSE
    /\ written' = <<>> /\ scanned' = <<>> /\ writing' = FALSE /\ err' = "none"
    /\ RenewSniffer

-----------------------------------------------------------------------------
Escape == 61 \* =

\* A mutant: the maps do not wrap around.
decodeMapInt(c) == c - 42

decodeMap(c) == (c - 42) % 256
criticalDecodeMap(c) == (decodeMap(c) - 64) % 256

DecodeByte(st, c) ==
    CASE st.critical    -> [out |-> Append(st.out, criticalDecodeMap(c)), critical |-> FALSE]
      [] ~st.critical /\ c = Escape  -> [st EXCEPT !.critical = TRUE]
      [] ~st.critical /\ c # Escape  -> [st EXCEPT !.out = Append(@, decodeMap(c))]

\* A mutant: an escape at the end of a line is forgotten.
decodelineAlone(line, critical) ==
    [FoldLeft(DecodeByte, [out |-> <<>>, critical |-> critical], line)
        EXCEPT !.critical = FALSE]

\* The bytes a line decodes to, and whether it ends with an escape.
decodeline(line, critical) ==
    FoldLeft(DecodeByte, [out |-> <<>>, critical |-> critical], line)

\* A mutant: the checksum of the file is looked at before that of the part.
verifyFileFirst(t, data) ==
    IF t.crc32 # {} THEN data \in t.crc32 ELSE t.partCRC32 = {} \/ data \in t.partCRC32

\* A mutant: only the checksum of a part is looked at.
verifyPartOnly(t, data) == t.partCRC32 = {} \/ data \in t.partCRC32

verifycrc32s(t, data) ==
    IF t.partCRC32 # {} THEN data \in t.partCRC32 ELSE t.crc32 = {} \/ data \in t.crc32

-----------------------------------------------------------------------------
\* Write: into the buffer, then yDecode.
Write(chunk) ==
    /\ ~writing /\ err = "none"
    /\ b' = b \o chunk
    /\ writing' = TRUE
    /\ UNCHANGED <<parseVars, dataVars, scanned, err, snifferVars>>

line == Head(b)

scan ==
    /\ writing /\ b # <<>>
    /\ b' = Tail(b)
    /\ scanned' = Append(scanned, line)

Continues == UNCHANGED <<writing, err>>
Fails(e)  == writing' = FALSE /\ err' = e

InData == header # {} /\ \A h \in header : h.multipart => partHeader

TooMuchBeforeHeader ==
    /\ scan
    /\ header = {} /\ bytesBeforeheader >= maxheaderBuffer
    /\ Fails("decode")
    /\ UNCHANGED <<parseVars, dataVars, snifferVars>>

SkipLine ==
    /\ scan
    /\ header = {} /\ bytesBeforeheader < maxheaderBuffer /\ line.type # "begin"
    /\ bytesBeforeheader' = bytesBeforeheader + Len(line.bytes) + 1
    /\ Continues
    /\ UNCHANGED <<header, trailer, partHeader, dataVars, snifferVars>>

parseheader ==
    /\ scan
    /\ header = {} /\ bytesBeforeheader < maxheaderBuffer /\ line.type = "begin"
    /\ IF line.valid THEN header' = {line} /\ Continues
                     ELSE Fails("decode") /\ UNCHANGED header
    /\ UNCHANGED <<trailer, partHeader, bytesBeforeheader, dataVars, snifferVars>>

parsepartHeader ==
    /\ scan
    /\ header # {} /\ ~InData
    /\ IF line.type = "part" /\ line.valid
       THEN partHeader' = TRUE /\ Continues
       ELSE Fails("decode") /\ UNCHANGED partHeader
    /\ UNCHANGED <<header, trailer, bytesBeforeheader, dataVars, snifferVars>>

\* Write returns here, whatever is left in the buffer.
parsetrailer ==
    /\ scan
    /\ InData /\ line.type = "end"
    /\ trailer' = IF line.valid THEN {line} ELSE {}
    /\ IF line.valid /\ verifycrc32s(line, written)
       THEN writing' = FALSE /\ UNCHANGED err
       ELSE Fails("decode")
    /\ UNCHANGED <<header, partHeader, bytesBeforeheader, dataVars, snifferVars>>

DecodeLine ==
    /\ scan
    /\ InData /\ line.type # "end"
    /\ LET d == decodeline(line.bytes, nextByteIsCritical)
       IN  /\ written' = written \o d.out
           /\ nextByteIsCritical' = d.critical
           /\ Sniff(d.out)
    /\ Continues
    /\ UNCHANGED parseVars

\* The decoder's own writer fails, after the sniffer has seen the line; what was
\* written of it is left out.
WriteFails ==
    /\ scan
    /\ InData /\ line.type # "end"
    /\ Fails("write")
    /\ Sniff(decodeline(line.bytes, nextByteIsCritical).out)
    /\ UNCHANGED <<parseVars, dataVars>>

\* A mutant: one line for each Write.
WrittenOne ==
    /\ writing /\ scanned # <<>>
    /\ writing' = FALSE
    /\ UNCHANGED <<b, parseVars, dataVars, scanned, err, snifferVars>>

Written ==
    /\ writing /\ b = <<>>
    /\ writing' = FALSE
    /\ UNCHANGED <<b, parseVars, dataVars, scanned, err, snifferVars>>

yDecode ==
    \/ TooMuchBeforeHeader
    \/ SkipLine
    \/ parseheader
    \/ parsepartHeader
    \/ parsetrailer
    \/ DecodeLine
    \/ WriteFails
    \/ Written

-----------------------------------------------------------------------------
\* The yEnc format, for what the decoder should have done with some lines: but for the
\* lines after a trailer, see Data.

\* An escape is a = that is not itself escaped: an even number of them precede it.
IsEscape(bytes, i) ==
    /\ bytes[i] = Escape
    /\ \E n \in 0 .. i - 1 :
        /\ n % 2 = 0
        /\ \A k \in i - n .. i - 1 : bytes[k] = Escape
        /\ i - n > 1 => bytes[i - n - 1] # Escape

Shift(bytes, i) == IF i > 1 /\ IsEscape(bytes, i - 1) THEN 106 ELSE 42

Plain(bytes) ==
    FlattenSeq([i \in DOMAIN bytes |->
        IF IsEscape(bytes, i) THEN <<>> ELSE <<(bytes[i] + 256 - Shift(bytes, i)) % 256>>])

\* The bytes of some lines, their line endings left out.
Bytes(ls) == FlattenSeq([k \in DOMAIN ls |-> ls[k].bytes])

\* Where the data of an article begins: after the header, and the part header.
HeaderAt(ls) == SelectInSeq(ls, LAMBDA l : l.type = "begin")

DataFrom(ls) ==
    LET h == HeaderAt(ls)
    IN  IF h = 0 THEN Len(ls) + 1 ELSE IF ls[h].multipart THEN h + 2 ELSE h + 1

\* The data as the code has it, not as the format does: every line from there on that
\* is no trailer.  The format's data ends at the first trailer, and yenc.go:54-55 speaks
\* of exactly one file; the decoder never looks whether it has had a trailer, so what
\* follows one, in a later Write, is data to it as well.
Data(ls) ==
    FlattenSeq([k \in DOMAIN ls |->
        IF k < DataFrom(ls) \/ ls[k].type = "end" THEN <<>> ELSE ls[k].bytes])

Decoded(ls) == Plain(Data(ls))

\* The trailers of some lines.
Trailers(ls) == {k \in DataFrom(ls) .. Len(ls) : ls[k].type = "end"}

\* A trailer that parses and whose checksum, of the part if it names one, is that of
\* the data before it.
IsRight(ls, k) ==
    LET data == Decoded(SubSeq(ls, 1, k))
    IN  /\ ls[k].valid
        /\ ls[k].partCRC32 # {} => data \in ls[k].partCRC32
        /\ ls[k].partCRC32 = {} /\ ls[k].crc32 # {} => data \in ls[k].crc32
=============================================================================
