----------------------------- MODULE MCArticleBody -----------------------------
\* Lines of articles: data with escapes, one of them at the end of a line, and
\* headers and trailers that do or do not parse, or name the wrong checksum.
EXTENDS ArticleBody

Text(bytes) == [type |-> "text", bytes |-> bytes, valid |-> TRUE]
Keyword == <<61, 121>>
Begin(valid, multipart) ==
    [type |-> "begin", bytes |-> Keyword, valid |-> valid, multipart |-> multipart]
Part(valid) == [type |-> "part", bytes |-> Keyword, valid |-> valid]
End(valid, partCRC32, crc32) ==
    [type |-> "end", bytes |-> Keyword, valid |-> valid,
     partCRC32 |-> partCRC32, crc32 |-> crc32]

Escaped  == <<61, 61, 41>>
Dangling == <<61>>

MCLines ==
    {Text(Escaped), Text(Dangling),
     Begin(TRUE, FALSE), Begin(TRUE, TRUE), Begin(FALSE, FALSE),
     Part(TRUE), Part(FALSE),
     End(TRUE, {}, {}), End(TRUE, {}, {<<211, 255>>}), End(TRUE, {<<211, 255>>}, {<<>>}),
     End(FALSE, {}, {})}

\* The data begins like a par2 or a rar file, or like neither.
MCheaderTable ==
    {[header |-> <<211, 255>>, filetype |-> "par2"],
     [header |-> <<211, 191>>, filetype |-> "rar"]}
=============================================================================
