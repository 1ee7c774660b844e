------------------------------ MODULE FileWriter ------------------------------
(***************************************************************************)
(* util::FileWriter: a file that is written to text by text, each at once  *)
(* and to the end, with the checksum of all it holds. A file is the        *)
(* sequence of its texts, a text a sequence of bytes; a file that does not *)
(* exist is empty.                                                         *)
(***************************************************************************)
EXTENDS Crc32

Content(files, name) == IF name \in DOMAIN files THEN files[name] ELSE <<>>

\* The constructor: a file that is not appended to is truncated.
OpenFile(files, name, append) ==
    [f \in DOMAIN files \cup {name} |-> IF f = name /\ ~append THEN <<>> ELSE Content(files, f)]

InitCrcOfNewFile(texts) == InitialCrc32
\* The register goes on where the checksum of the texts already in the file left off.
InitCrc(texts) == IF texts = <<>> THEN InitialCrc32 ELSE Ones(CalculateCrc32(FlattenSeq(texts)))

WriteText(files, name, text) == [files EXCEPT ![name] = Append(@, text)]
WriteCrc(crc, text) == IncrementalCrc32(crc, text)
GetCrc32(crc) == FinalizeCrc32(crc)
=============================================================================
