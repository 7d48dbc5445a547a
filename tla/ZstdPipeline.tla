---------------------------- MODULE ZstdPipeline ----------------------------
(***************************************************************************)
(* A ZstdCompressSink and a ZstdDecompressSource with a pipe between them, *)
(* as the tests put each of them on one end of an okio.Pipe: the writer    *)
(* and the reader are two threads, and what one delivers becomes available *)
(* to the other.  Both are the whole modules; this one adds the compressed *)
(* stream in the pipe, whose bytes the writer's zstd determines, and the   *)
(* factories of okio/Zstd.kt.                                              *)
(***************************************************************************)
EXTENDS ZstdCompressSink, ZstdDecompressSource

\* Upstream of the reader is what the writer puts into the pipe: nothing at first.
ASSUME PipelineAssumption == Streams = {<<>>}

VARIABLE
    made            \* which of the two streams a factory has returned

vars == <<made, writer, upstream, reader, faults>>

Init ==
    /\ made = {}
    /\ WriterInit
    /\ ReaderInit

-----------------------------------------------------------------------------
(* The factories.  One that fails throws an OutOfMemoryError and leaves nothing. *)

\* Sink.zstdCompress(): a compressor, and the sink around it.
ZstdCompress ==
    /\ "sink" \notin made
    /\ made' = made \cup {"sink"}
    /\ UNCHANGED <<writer, upstream, reader, faults>>

\* Source.zstdDecompress()
ZstdDecompress ==
    /\ "source" \notin made
    /\ made' = made \cup {"source"}
    /\ UNCHANGED <<writer, upstream, reader, faults>>

-----------------------------------------------------------------------------
(* The compressed bytes of a step of the writer *)

\* n bytes that take a decoder from having decoded "from" bytes to "upto", the last of them
\* of this kind.
Bursts(n, from, upto, kind) ==
    IF n = 0 THEN {<<>>}
    ELSE {[i \in 1 .. n |-> [upto |-> IF i = n THEN upto ELSE mark[i],
                             kind |-> IF i = n THEN kind ELSE "mid"]] :
            mark \in {f \in [1 .. n - 1 -> from .. upto] :
                        \A i, j \in 1 .. n - 1 : i < j => f[i] =< f[j]}}

\* A decoder can decode what was coded, and sees the end of a frame that was ended.  What a
\* context puts out that failed is anything: bytes that decode to nothing, to data that was
\* never written (at most MaxGarbage bytes more with each call), that end a frame or that
\* are corrupt.
Generated ==
    LET n == cctx'.generated - cctx.generated
        known == Decodable(stream, Len(stream))
    IN  IF cctx.healthy
        THEN Bursts(n, cctx.coded, cctx'.coded,
                    IF cctx'.frames > cctx.frames THEN "end" ELSE "mid")
        ELSE UNION {Bursts(n, known, known + more, kind) :
                        more \in 0 .. MaxGarbage, kind \in {"mid", "end", "bad"}}

\* What the writer delivers is what upstream of the reader has, and it ends there when the
\* downstream sink of the writer is closed.
WriterStep(step) ==
    /\ "sink" \in made
    /\ step
    /\ \E burst \in Generated : stream' = stream \o burst
    /\ available' = delivered'
    /\ finished' = sinkClosed'
    /\ UNCHANGED <<made, reader>>

ReaderStep(step) ==
    /\ "source" \in made
    /\ step
    /\ UNCHANGED <<made, writer>>

-----------------------------------------------------------------------------
CallsWriter == WriterStep(WriterCallerStep)
WriterRuns == WriterStep(ProgramStep)
CallsReader == ReaderStep(ReaderCallerStep)
ReaderRuns == ReaderStep(Refill \/ Release)

Next ==
    \/ ZstdCompress \/ ZstdDecompress
    \/ CallsWriter \/ WriterRuns
    \/ CallsReader \/ ReaderRuns

Spec == Init /\ [][Next]_vars

\* Calls that were made run on, there is a reader, and as long as the source is open the
\* reader reads.
FairSpec ==
    /\ Spec
    /\ WF_vars(WriterRuns) /\ WF_vars(ReaderRuns)
    /\ WF_vars(ZstdDecompress)
    /\ WF_vars(\E n \in 1 .. MaxRead : ReaderStep(Read(n)))

-----------------------------------------------------------------------------
(* Properties *)

Healthy == cctx.healthy /\ dctx.healthy

ToldEnd == readerCall = [op |-> "read", outcome |-> "exhausted"]

CloseReturned == writerCall = [op |-> "close", outcome |-> "returned"]

\* The reader never has a byte that was not written, whichever calls failed and were made
\* again, as long as neither context is broken: of a broken one zstd promises nothing.
ReadWasWritten == Healthy => served =< accepted

\* When the writer's close() returned, also after failures that left data behind, the
\* reader is not told that the stream is truncated, and at its end it has everything.
BothSidesAgree ==
    (CloseReturned /\ Healthy) =>
        /\ readerCall.outcome # "EOFException"
        /\ ToldEnd => served = accepted

\* When close() failed, the reader takes no partial data for the whole: a clean end comes
\* with all data or, when nothing was delivered, with none.  (Segments left behind by an
\* earlier failure are the exception: each is a frame, and any of them may be the last.)
NoSilentTruncation ==
    (ToldEnd /\ Healthy /\ ~stale) => sinkClosed /\ (served = accepted \/ delivered = 0)

\* Without failures the two streams are one.
Promise == INSTANCE LosslessStream WITH
    written <- accepted, read <- served, shut <- writerClosed,
    told <- IF ToldEnd THEN "end" ELSE "more"

ImplementsLosslessStream == Promise!Spec

\* What a flush() that returned had to send gets to the reader without another call of the
\* writer, up to the first segment of it: behind that the decompressor may keep the rest.
FlushArrives ==
    \A n \in 1 .. SegmentSize :
        (writerCall = [op |-> "flush", outcome |-> "returned"] /\ accepted >= n)
            ~> (served >= n \/ readerClosed)

\* After a close() that returned the reader gets everything and the end.
EverythingArrives ==
    CloseReturned ~> ((served = accepted /\ ToldEnd) \/ readerClosed)
=============================================================================
