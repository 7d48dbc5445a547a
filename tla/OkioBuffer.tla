----------------------------- MODULE OkioBuffer -----------------------------
(***************************************************************************)
(* External: okio.Buffer as ZstdCompressSink and ZstdDecompressSource use  *)
(* it.  A buffer is a list of segments of at most SegmentSize bytes.  The  *)
(* code above it asks three things of that list: how many bytes it holds,  *)
(* how many of them are outside a tail that can still be written to        *)
(* (completeSegmentByteCount), and how long its first segment is.  A       *)
(* buffer is therefore                                                     *)
(*     [complete |-> bytes before the writable tail, tail |-> its bytes]   *)
(* and the layout of the complete segments, which depends on sharing and   *)
(* compaction inside okio, is left open.                                   *)
(***************************************************************************)
EXTENDS Naturals

CONSTANT
    SegmentSize     \* Segment.SIZE: 8192 in okio, a few bytes in a run

ASSUME SegmentSizeAssumption == SegmentSize \in Nat \ {0}

Buffer == [complete : Nat, tail : 0 .. SegmentSize - 1]

Empty == [complete |-> 0, tail |-> 0]

Size(b) == b.complete + b.tail

\* Buffer.write(source, n): moves n bytes to the end.  The old tail may be filled
\* up, compacted, or be left as a short segment in the middle, but no complete
\* segment becomes writable again.
Appended(b, n) ==
    IF n = 0 THEN {b}
    ELSE {c \in [complete : b.complete .. Size(b) + n, tail : 0 .. SegmentSize - 1] :
            /\ Size(c) = Size(b) + n
            /\ c.tail =< b.tail + n}

\* The bytes an UnsafeCursor sees after its first next(): those of the head
\* segment, which is the tail when there is no complete one.
HeadSegment(b) ==
    IF b.complete = 0 THEN {b.tail}
    ELSE {n \in 1 .. SegmentSize : n =< b.complete}

\* Buffer.skip(k), and what a write of the first k bytes elsewhere leaves behind.
Skip(b, k) ==
    IF k =< b.complete
    THEN [b EXCEPT !.complete = b.complete - k]
    ELSE [complete |-> 0, tail |-> Size(b) - k]

\* UnsafeCursor.expandBuffer(1): the free bytes of the tail (fewer than
\* SegmentSize - tail when some of the tail was already read), or a new segment.
Capacity(b) ==
    IF b.tail = 0 THEN {SegmentSize} ELSE 1 .. SegmentSize - b.tail

\* UnsafeCursor.resizeBuffer(old size + k) after expandBuffer gave cap bytes: k of
\* them stay, and a tail filled to its end is complete.
Resized(b, cap, k) ==
    IF k = cap
    THEN [complete |-> Size(b) + k, tail |-> 0]
    ELSE [b EXCEPT !.tail = b.tail + k]
=============================================================================
