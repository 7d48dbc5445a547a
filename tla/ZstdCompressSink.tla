-------------------------- MODULE ZstdCompressSink --------------------------
(***************************************************************************)
(* ZstdCompressSink.kt: an okio Sink that stages the written bytes in      *)
(* inputBuffer, has a ZstdCompressor turn them into compressed bytes in    *)
(* the buffer of a downstream BufferedSink, and passes these on.           *)
(*                                                                         *)
(* One caller uses the sink, one call at a time.  A call advances by the   *)
(* steps between which its outcome can differ: one step per iteration of   *)
(* the loop in compress(), then the flush of the downstream sink or the    *)
(* two nested use blocks of close().  Any step that reaches the downstream *)
(* sink or zstd can fail.                                                  *)
(*                                                                         *)
(* What ZstdDecompressSource has under the same name has the prefix Writer *)
(* here and Reader there, so that ZstdPipeline can extend both.            *)
(***************************************************************************)
EXTENDS OkioBuffer, ZstdCCtx

CONSTANT
    MaxBytes        \* bound: bytes the caller writes in a behaviour

ASSUME SinkAssumption == MaxBytes \in Nat

VARIABLES
    writerClosed,   \* ZstdCompressSink.closed
    inputBuffer,    \* ZstdCompressSink.inputBuffer
    sinkBuffer,     \* sink.buffer, of the downstream BufferedSink
    sinkClosed,     \* sink.close() was called
    compressor,     \* the ZstdCompressor: its handle and the counts of its last call
    cctx,           \* the zstd context behind that handle
    writerPc,       \* where the current call is; "caller" when there is none
    writerCall,     \* the current or last call: operation and outcome
    mode,           \* compress(mode), its parameter
    inputRemaining, \* compress(), its local
    accepted,       \* bytes taken from the caller by write()
    delivered,      \* compressed bytes that left sinkBuffer downstream
    stale           \* close() found complete segments that an earlier call left behind

writer == <<writerClosed, inputBuffer, sinkBuffer, sinkClosed, compressor, cctx, writerPc,
            writerCall, mode, inputRemaining, accepted, delivered, stale>>

writerVars == <<writer, faults>>

Operation == {"none", "write", "flush", "close", "closeAgain"}
WriterOutcome == {"running", "returned", "IOException", "IllegalStateException"}

WriterTypeOK ==
    /\ writerClosed \in BOOLEAN
    /\ inputBuffer \in Buffer
    /\ sinkBuffer \in Buffer
    /\ sinkClosed \in BOOLEAN
    /\ compressor \in [open : BOOLEAN, frees : Nat,
                       inputBytesProcessed : Nat \cup {-1},
                       outputBytesProcessed : Nat \cup {-1}]
    /\ cctx \in CCtx
    /\ writerPc \in {"caller", "compress", "flush", "closeCompressor", "closeSink"}
    /\ writerCall \in [op : Operation, outcome : WriterOutcome]
    /\ mode \in EndDirective
    /\ inputRemaining \in Nat
    /\ accepted \in Nat
    /\ delivered \in Nat
    /\ stale \in BOOLEAN
    /\ faults \in Nat

WriterInit ==
    /\ writerClosed = FALSE
    /\ inputBuffer = Empty
    /\ sinkBuffer = Empty
    /\ sinkClosed = FALSE
    /\ compressor = [open |-> TRUE, frees |-> 0,
                     inputBytesProcessed |-> -1, outputBytesProcessed |-> -1]
    /\ cctx = NewCCtx
    /\ writerPc = "caller"
    /\ writerCall = [op |-> "none", outcome |-> "returned"]
    /\ mode = "ZSTD_e_continue"
    /\ inputRemaining = 0
    /\ accepted = 0
    /\ delivered = 0
    /\ stale = FALSE
    /\ faults = 0

-----------------------------------------------------------------------------
(* compress(mode) *)

\* Mutant: close() and flush() hand over complete segments only.
SegmentsOnly(m, b) == b.complete

\* How much of buffer b a compress call is to hand over.
InitialRemaining(m, b) ==
    IF m = "ZSTD_e_continue" THEN b.complete ELSE Size(b)

\* Enter compress(m) from operation op, with b in inputBuffer.  Only a write can
\* find nothing to do, and then it returns at once.
Compress(op, m, b) ==
    /\ inputBuffer' = b
    /\ mode' = m
    /\ inputRemaining' = InitialRemaining(m, b)
    /\ \/ /\ m = "ZSTD_e_continue"
          /\ InitialRemaining(m, b) = 0
          /\ writerPc' = "caller"
          /\ writerCall' = [op |-> op, outcome |-> "returned"]
       \/ /\ m # "ZSTD_e_continue" \/ InitialRemaining(m, b) > 0
          /\ writerPc' = "compress"
          /\ writerCall' = [op |-> op, outcome |-> "running"]

\* Mutants: the loop looks at the input alone, or at the result alone.
FinishedWithInput(m, remaining, result) == remaining = 0
FinishedOnZero(m, remaining, result) ==
    IF m = "ZSTD_e_continue" THEN remaining = 0 ELSE result = 0

\* All input handed over and, unless more is to come, nothing pending inside zstd.
Finished(m, remaining, result) ==
    remaining = 0 /\ (m = "ZSTD_e_continue" \/ result = 0)

\* compress() returns to write(), flush() or close().
CompressReturns ==
    \/ /\ writerCall.op = "write"
       /\ writerPc' = "caller"
       /\ writerCall' = [writerCall EXCEPT !.outcome = "returned"]
    \/ /\ writerCall.op = "flush"
       /\ writerPc' = "flush"
       /\ UNCHANGED writerCall
    \/ /\ writerCall.op = "close"
       /\ writerPc' = "closeCompressor"
       /\ UNCHANGED writerCall

\* Mutant: close() without its use blocks.
ThrowsToCaller ==
    /\ writerPc' = "caller"
    /\ writerCall' = [writerCall EXCEPT !.outcome = "IOException"]

\* compress() throws: out of write() and flush(), into the use blocks of close().
CompressThrows ==
    /\ writerPc' = IF writerCall.op = "close" THEN "closeCompressor" ELSE "caller"
    /\ writerCall' = [writerCall EXCEPT !.outcome = "IOException"]

\* The counts the binding stores in the compressor after a call.
WriterCalled(took, put) ==
    [compressor EXCEPT !.inputBytesProcessed = took, !.outputBytesProcessed = put]

\* The outcomes of compressStream2 on avail bytes of input and cap bytes of room.
Outcomes(avail, cap) ==
    Succeeded(cctx, mode, avail, cap) \cup (IF faults < MaxFaults THEN Failed(cctx) ELSE {})

\* Mutants: the count of the call before this one, no count, and the whole segment.
RemainingStale(c) == inputRemaining - compressor.inputBytesProcessed
RemainingAll(c) == inputRemaining
WriterSkippedSegment(avail, c) == Skip(inputBuffer, avail)

\* inputRemaining and inputBuffer after the call: both are read from the counts
\* that the call has just stored.
RemainingAfter(c) == inputRemaining - c.inputBytesProcessed
WriterSkippedInput(avail, c) == Skip(inputBuffer, c.inputBytesProcessed)

\* Mutant: all the room that was made stays in sink.buffer.
WriterKeptCapacity(cap, c) == Resized(sinkBuffer, cap, cap)

\* sink.buffer, cut back to what the call put out.
WriterKeptOutput(cap, c) == Resized(sinkBuffer, cap, c.outputBytesProcessed)

\* Mutant: nothing is emitted before flush() or close().
NotEmitted(b) == b

\* sink.emitCompleteSegments() that succeeds, on the resized sink.buffer b.
Emitted(b) == Skip(b, b.complete)

\* emitCompleteSegments() returns, and the result of the call is looked at.
EmitReturns(b, result) ==
    /\ sinkBuffer' = Emitted(b)
    /\ delivered' = delivered + Size(b) - Size(Emitted(b))
    /\ \/ /\ result = ErrorResult
          /\ CompressThrows
          /\ faults' = faults + 1
       \/ /\ result # ErrorResult
          /\ Finished(mode, inputRemaining', result)
          /\ CompressReturns
          /\ UNCHANGED faults
       \/ /\ result # ErrorResult
          /\ ~Finished(mode, inputRemaining', result)
          /\ UNCHANGED <<writerPc, writerCall, faults>>

\* emitCompleteSegments() throws, whatever the result of the call was; downstream may
\* have taken a part.
EmitThrows(b) ==
    /\ b.complete > 0
    /\ faults < MaxFaults
    /\ \E n \in 0 .. b.complete :
          /\ sinkBuffer' = Skip(b, n)
          /\ delivered' = delivered + n
    /\ CompressThrows
    /\ faults' = faults + 1

Iteration(avail, cap, out) ==
    /\ cctx' = out.cctx
    /\ compressor' = WriterCalled(out.took, out.put)
    /\ inputRemaining' = RemainingAfter(compressor')
    /\ inputBuffer' = WriterSkippedInput(avail, compressor')
    /\ EmitReturns(WriterKeptOutput(cap, compressor'), out.result)
            \/ EmitThrows(WriterKeptOutput(cap, compressor'))
    /\ UNCHANGED <<writerClosed, sinkClosed, mode, accepted, stale>>

\* One iteration of the loop: a call on the head segment of inputBuffer, or on no
\* input when none remains.
CompressPass ==
    /\ writerPc = "compress"
    /\ \E avail \in IF inputRemaining > 0 THEN HeadSegment(inputBuffer) ELSE {0},
          cap \in Capacity(sinkBuffer) :
        \E out \in Outcomes(avail, cap) : Iteration(avail, cap, out)

-----------------------------------------------------------------------------
(* The operations of the Sink interface *)

Write(n) ==
    /\ writerPc = "caller"
    /\ ~writerClosed
    /\ accepted + n =< MaxBytes
    /\ accepted' = accepted + n
    /\ \E b \in Appended(inputBuffer, n) : Compress("write", "ZSTD_e_continue", b)
    /\ UNCHANGED <<writerClosed, sinkBuffer, sinkClosed, compressor, cctx, delivered, stale,
                   faults>>

\* Mutant: flush() ends the frame.
FlushEndsFrame == "ZSTD_e_end"

FlushMode == "ZSTD_e_flush"

Flush ==
    /\ writerPc = "caller"
    /\ ~writerClosed
    /\ Compress("flush", FlushMode, inputBuffer)
    /\ UNCHANGED <<writerClosed, sinkBuffer, sinkClosed, compressor, cctx, accepted,
                   delivered, stale, faults>>

\* flush(), after compress() returned: sink.flush() writes out all of sink.buffer.
FlushSink ==
    /\ writerPc = "flush"
    /\ writerPc' = "caller"
    /\ \/ /\ sinkBuffer' = Empty
          /\ delivered' = delivered + Size(sinkBuffer)
          /\ writerCall' = [writerCall EXCEPT !.outcome = "returned"]
          /\ UNCHANGED faults
       \/ /\ faults < MaxFaults
          /\ \E n \in 0 .. Size(sinkBuffer) :
                /\ sinkBuffer' = Skip(sinkBuffer, n)
                /\ delivered' = delivered + n
          /\ writerCall' = [writerCall EXCEPT !.outcome = "IOException"]
          /\ faults' = faults + 1
    /\ UNCHANGED <<writerClosed, inputBuffer, sinkClosed, compressor, cctx, mode,
                   inputRemaining, accepted, stale>>

\* Mutant: close() does not set closed.
WriterNeverClosed == FALSE

\* close() sets closed before anything that can throw.
WriterClosedOnEntry == TRUE

WriterClose ==
    /\ writerPc = "caller"
    /\ ~writerClosed
    /\ writerClosed' = WriterClosedOnEntry
    /\ stale' = (inputBuffer.complete > 0)
    /\ Compress("close", "ZSTD_e_end", inputBuffer)
    /\ UNCHANGED <<sinkBuffer, sinkClosed, compressor, cctx, accepted, delivered, faults>>

\* A second close() does nothing.
WriterCloseAgain ==
    /\ writerPc = "caller"
    /\ writerClosed
    /\ writerCall' = [op |-> "closeAgain", outcome |-> "returned"]
    /\ UNCHANGED <<writerClosed, inputBuffer, sinkBuffer, sinkClosed, compressor, cctx,
                   writerPc, mode, inputRemaining, accepted, delivered, stale, faults>>

\* The handle is zeroed and freed once, whatever is closed how often.
WriterFreed(c) ==
    IF c.open THEN [c EXCEPT !.open = FALSE, !.frees = @ + 1] ELSE c

\* The inner use block of close(): compressor.close(), whether compress() threw or not.
CloseCompressor ==
    /\ writerPc = "closeCompressor"
    /\ writerPc' = "closeSink"
    /\ compressor' = WriterFreed(compressor)
    /\ UNCHANGED <<writerClosed, inputBuffer, sinkBuffer, sinkClosed, cctx, writerCall,
                   mode, inputRemaining, accepted, delivered, stale, faults>>

\* The outer use block: sink.close() writes out what it holds and closes downstream
\* even if that fails.  The first exception is the one the caller sees.
CloseSink ==
    /\ writerPc = "closeSink"
    /\ writerPc' = "caller"
    /\ sinkClosed' = TRUE
    /\ \/ /\ sinkBuffer' = Empty
          /\ delivered' = delivered + Size(sinkBuffer)
          /\ writerCall' = [writerCall EXCEPT
                                !.outcome = IF @ = "running" THEN "returned" ELSE @]
          /\ UNCHANGED faults
       \/ /\ faults < MaxFaults
          /\ \E n \in 0 .. Size(sinkBuffer) :
                /\ sinkBuffer' = Skip(sinkBuffer, n)
                /\ delivered' = delivered + n
          /\ writerCall' = [writerCall EXCEPT !.outcome = "IOException"]
          /\ faults' = faults + 1
    /\ UNCHANGED <<writerClosed, inputBuffer, compressor, cctx, mode, inputRemaining,
                   accepted, stale>>

\* write() and flush() on a closed sink.
WriterRejected(op) ==
    /\ writerPc = "caller"
    /\ writerClosed
    /\ writerCall' = [op |-> op, outcome |-> "IllegalStateException"]
    /\ UNCHANGED <<writerClosed, inputBuffer, sinkBuffer, sinkClosed, compressor, cctx,
                   writerPc, mode, inputRemaining, accepted, delivered, stale, faults>>

-----------------------------------------------------------------------------
WriterCallerStep ==
    \/ \E n \in 0 .. MaxBytes : Write(n)
    \/ Flush
    \/ WriterClose
    \/ WriterCloseAgain
    \/ \E op \in {"write", "flush"} : WriterRejected(op)

ProgramStep ==
    \/ CompressPass
    \/ FlushSink
    \/ CloseCompressor
    \/ CloseSink

WriterNext == WriterCallerStep \/ ProgramStep

WriterSpec == WriterInit /\ [][WriterNext]_writerVars

\* A call that was made runs on; nothing obliges the caller to make one.
WriterFairSpec == WriterSpec /\ WF_writerVars(ProgramStep)

-----------------------------------------------------------------------------
(* Properties *)

\* No byte is lost or duplicated, whatever fails: what write() accepted was taken by
\* zstd or is still staged, and what zstd put out was delivered or is in sink.buffer.
WriterNothingLost ==
    /\ cctx.fed + Size(inputBuffer) = accepted
    /\ delivered + Size(sinkBuffer) = cctx.flushed

\* A flush() that returns has handed downstream the compressed form of everything
\* written so far, also when earlier calls threw and left bytes behind.
FlushDelivers ==
    (/\ cctx.healthy /\ writerPc = "caller"
     /\ writerCall = [op |-> "flush", outcome |-> "returned"])
        => /\ cctx.coded = accepted
           /\ delivered = cctx.generated

\* A close() that returns has done so too, and has closed the last frame.
CloseDelivers ==
    (/\ cctx.healthy /\ writerPc = "caller"
     /\ writerCall = [op |-> "close", outcome |-> "returned"])
        => /\ cctx.coded = accepted
           /\ delivered = cctx.generated
           /\ cctx.frames > 0 /\ ~cctx.inFrame /\ ~cctx.ending

\* Between calls the handle and the downstream sink are open before close() and, as
\* soon as close() has ended in whatever way, freed once and closed.
WriterResourcesReleased ==
    writerPc = "caller" =>
        /\ sinkClosed = writerClosed
        /\ compressor.open = ~writerClosed
        /\ compressor.frees = IF writerClosed THEN 1 ELSE 0

\* compressStream2 never gets a zeroed handle, and nothing is delivered to a closed sink.
WriterNoUseAfterClose ==
    [][/\ cctx' # cctx => compressor.open
       /\ delivered' # delivered => ~sinkClosed]_writerVars

\* Once a frame has been ended, a failed close() included, zstd gets no directive but
\* ZSTD_e_end: a context whose last block is pending refuses the others.
EndDirectiveFinal ==
    [][(cctx.frames > 0 /\ cctx' # cctx) => mode = "ZSTD_e_end"]_writerVars

\* Staging costs memory only for failures: sink.buffer holds less than one segment
\* between calls, and one more for each failure, and a write() that returned leaves
\* less than one segment in inputBuffer.
BoundedBuffers ==
    /\ sinkBuffer.complete =< SegmentSize * faults
    /\ (writerPc = "caller" /\ writerCall = [op |-> "write", outcome |-> "returned"])
            => inputBuffer.complete = 0

\* An end of frame downstream is the end of the data, even if close() itself fails
\* after it, unless close() found segments that a failed call had left: compress() ends
\* a frame for each of these.
FrameIsWhole ==
    (cctx.frames > 0 /\ cctx.healthy /\ ~stale)
        => cctx.frames = 1 /\ ~cctx.inFrame /\ cctx.coded = accepted

\* The loop of compress() ends, with the caller back in control, as long as zstd keeps
\* its contract.
OperationsTerminate ==
    (writerPc # "caller") ~> (writerPc = "caller" \/ ~cctx.healthy)
=============================================================================
