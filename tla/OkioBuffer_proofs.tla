------------------------- MODULE OkioBuffer_proofs -------------------------
(***************************************************************************)
(* Lemmas about OkioBuffer, for every segment size.                        *)
(***************************************************************************)
EXTENDS OkioBuffer, TLAPS

LEMMA EmptyLemma == Empty \in Buffer /\ Size(Empty) = 0
BY SegmentSizeAssumption DEF Empty, Buffer, Size

LEMMA SizeLemma ==
    ASSUME NEW b \in Buffer
    PROVE  Size(b) \in Nat
BY SegmentSizeAssumption DEF Buffer, Size

\* Skipping k bytes of a buffer leaves a buffer with k bytes fewer, and takes them from
\* the complete segments while there are enough.
LEMMA SkipLemma ==
    ASSUME NEW b \in Buffer, NEW k \in 0 .. Size(b)
    PROVE  /\ Skip(b, k) \in Buffer
           /\ Size(Skip(b, k)) = Size(b) - k
           /\ k =< b.complete => Skip(b, k).complete = b.complete - k
           /\ Skip(b, k).complete =< b.complete
<1> USE SegmentSizeAssumption DEF Buffer, Size
<1>1. CASE k =< b.complete
  BY <1>1 DEF Skip
<1>2. CASE ~(k =< b.complete)
  BY <1>2 DEF Skip
<1> QED BY <1>1, <1>2

\* Appending n bytes to a buffer gives a buffer with n bytes more.
LEMMA AppendedLemma ==
    ASSUME NEW b \in Buffer, NEW n \in Nat, NEW c \in Appended(b, n)
    PROVE  c \in Buffer /\ Size(c) = Size(b) + n
BY SegmentSizeAssumption DEF Appended, Buffer, Size

\* The head segment is part of the buffer: of its complete segments if there are any, and
\* all of it if there is none.
LEMMA HeadSegmentLemma ==
    ASSUME NEW b \in Buffer, NEW n \in HeadSegment(b)
    PROVE  /\ n \in 0 .. Size(b)
           /\ b.complete > 0 => n =< b.complete
           /\ b.complete = 0 => n = Size(b)
BY SegmentSizeAssumption DEF HeadSegment, Buffer, Size

\* There is always room for a byte, and never for more than a segment.
LEMMA CapacityLemma ==
    ASSUME NEW b \in Buffer, NEW cap \in Capacity(b)
    PROVE  cap \in Nat /\ cap > 0 /\ cap =< SegmentSize - b.tail
BY SegmentSizeAssumption DEF Capacity, Buffer

\* Writing k of cap bytes of room gives a buffer with k bytes more, and at most one
\* complete segment more.
LEMMA ResizedLemma ==
    ASSUME NEW b \in Buffer, NEW cap \in Capacity(b), NEW k \in 0 .. cap
    PROVE  /\ Resized(b, cap, k) \in Buffer
           /\ Size(Resized(b, cap, k)) = Size(b) + k
           /\ Resized(b, cap, k).complete =< b.complete + SegmentSize
<1>1. cap \in Nat /\ cap > 0 /\ cap =< SegmentSize - b.tail
  BY CapacityLemma
<1>2. CASE k = cap
  BY <1>1, <1>2, SegmentSizeAssumption DEF Resized, Buffer, Size
<1>3. CASE k # cap
  BY <1>1, <1>3, SegmentSizeAssumption DEF Resized, Buffer, Size
<1> QED BY <1>2, <1>3
=============================================================================
