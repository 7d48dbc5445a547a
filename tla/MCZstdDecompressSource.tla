----------------------- MODULE MCZstdDecompressSource -----------------------
(***************************************************************************)
(* Streams for ZstdDecompressSource on a small instance.                   *)
(***************************************************************************)
EXTENDS ZstdDecompressSource

CONSTANTS
    MaxLength,      \* compressed bytes of a stream
    Marks           \* what the bytes of a stream may determine in total

\* Every stream within these bounds: any number of frames, empty ones included, open
\* or closed at the end, with corrupt bytes anywhere.
AllStreams ==
    {s \in UNION {[1 .. n -> [upto : Marks, kind : {"mid", "end", "bad"}]] :
                    n \in 0 .. MaxLength} : IsStream(s)}
=============================================================================
