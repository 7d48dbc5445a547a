------------------------ MODULE ZstdDecompressSource ------------------------
(***************************************************************************)
(* ZstdDecompressSource.kt: an okio Source that has a ZstdDecompressor     *)
(* turn the compressed bytes of an upstream BufferedSource into decoded    *)
(* bytes in outputBuffer, and serves reads from there.                     *)
(*                                                                         *)
(* One caller uses the source, one call at a time.  Upstream is another    *)
(* party: its bytes become available when it pleases, it may end anywhere, *)
(* mid-frame included, and it may fail; a read waits for it in request().  *)
(*                                                                         *)
(* What ZstdCompressSink has under the same name has the prefix Reader     *)
(* here and Writer there, so that ZstdPipeline can extend both.            *)
(***************************************************************************)
EXTENDS OkioBuffer, ZstdDCtx

CONSTANTS
    Streams,        \* the streams that upstream may hold
    MaxRead         \* bound: largest byteCount of a read

ASSUME SourceAssumption ==
    /\ \A s \in Streams : IsStream(s)
    /\ MaxRead \in Nat

VARIABLES
    stream,         \* the compressed stream
    available,      \* how much of it upstream has to give so far
    finished,       \* upstream has ended there
    sent,           \* how much of it source.buffer has received
    sourceBuffer,   \* source.buffer, of the upstream BufferedSource
    sourceClosed,   \* source.close() was called
    decompressor,   \* the ZstdDecompressor: its handle and the counts of its last call
    dctx,           \* the zstd context behind that handle
    outputBuffer,   \* ZstdDecompressSource.outputBuffer
    lastDecompressResult,
    readerClosed,   \* ZstdDecompressSource.closed
    readerPc,       \* where the current call is; "caller" when there is none
    readerCall,     \* the current or last call: operation and outcome
    byteCount,      \* read(sink, byteCount), its parameter; 0 when there is no read
    served          \* decoded bytes given to the caller

upstream == <<stream, available, finished>>

reader == <<sent, sourceBuffer, sourceClosed, decompressor, dctx, outputBuffer,
            lastDecompressResult, readerClosed, readerPc, readerCall, byteCount, served>>

readerVars == <<upstream, reader, faults>>

ReaderOutcome == {"running", "returned", "exhausted", "IOException", "EOFException",
                  "IllegalStateException", "IllegalArgumentException"}

\* A ZstdDecompressor; frees counts ZSTD_freeDCtx of its handle.
Decompressor ==
    [open : BOOLEAN, frees : Nat,
     inputBytesProcessed : Nat \cup {-1}, outputBytesProcessed : Nat \cup {-1}]

ReaderTypeOK ==
    /\ IsStream(stream)
    /\ available \in 0 .. Len(stream)
    /\ finished \in BOOLEAN
    /\ sent \in 0 .. available
    /\ sourceBuffer \in Buffer
    /\ sourceClosed \in BOOLEAN
    /\ decompressor \in Decompressor
    /\ dctx \in DCtx
    /\ outputBuffer \in Buffer
    /\ lastDecompressResult \in {0, 1, DecodeError}
    /\ readerClosed \in BOOLEAN
    /\ readerPc \in {"caller", "request", "decompress", "closeDecompressor", "closeSource"}
    /\ readerCall \in [op : {"none", "read", "close", "closeAgain"}, outcome : ReaderOutcome]
    /\ byteCount \in 0 .. MaxRead
    /\ served \in Nat
    /\ faults \in Nat

ReaderInit ==
    /\ stream \in Streams
    /\ available = 0
    /\ finished = FALSE
    /\ sent = 0
    /\ sourceBuffer = Empty
    /\ sourceClosed = FALSE
    /\ decompressor = [open |-> TRUE, frees |-> 0,
                       inputBytesProcessed |-> -1, outputBytesProcessed |-> -1]
    /\ dctx = NewDCtx
    /\ outputBuffer = Empty
    /\ lastDecompressResult = 0
    /\ readerClosed = FALSE
    /\ readerPc = "caller"
    /\ readerCall = [op |-> "none", outcome |-> "returned"]
    /\ byteCount = 0
    /\ served = 0
    /\ faults = 0

-----------------------------------------------------------------------------
(* Upstream.  What it does once the source is closed is not looked at. *)

Arrive ==
    /\ ~finished /\ ~readerClosed
    /\ available < Len(stream)
    /\ available' = available + 1
    /\ UNCHANGED <<stream, finished, sent, sourceBuffer, sourceClosed, decompressor, dctx,
                   outputBuffer, lastDecompressResult, readerClosed, readerPc, readerCall,
                   byteCount, served, faults>>

Finish ==
    /\ ~finished /\ ~readerClosed
    /\ finished' = TRUE
    /\ UNCHANGED <<stream, available, sent, sourceBuffer, sourceClosed, decompressor, dctx,
                   outputBuffer, lastDecompressResult, readerClosed, readerPc, readerCall,
                   byteCount, served, faults>>

-----------------------------------------------------------------------------
(* read(sink, byteCount) *)

\* The read ends: outputBuffer.read(sink, n) takes what buffer b has, up to n bytes,
\* or reports exhaustion.
Serve(b, n) ==
    /\ readerPc' = "caller"
    /\ byteCount' = 0
    /\ IF Size(b) = 0
       THEN /\ readerCall' = [op |-> "read", outcome |-> "exhausted"]
            /\ outputBuffer' = b
            /\ UNCHANGED served
       ELSE LET k == IF n < Size(b) THEN n ELSE Size(b)
            IN  /\ readerCall' = [op |-> "read", outcome |-> "returned"]
                /\ outputBuffer' = Skip(b, k)
                /\ served' = served + k

ReadThrows(exception) ==
    /\ readerPc' = "caller"
    /\ byteCount' = 0
    /\ readerCall' = [op |-> "read", outcome |-> exception]

Read(n) ==
    /\ readerPc = "caller"
    /\ ~readerClosed
    /\ \/ /\ n = 0
          /\ readerCall' = [op |-> "none", outcome |-> "returned"]
          /\ UNCHANGED <<readerPc, outputBuffer, byteCount, served>>
       \/ /\ n > 0
          /\ Size(outputBuffer) > 0
          /\ Serve(outputBuffer, n)
       \/ /\ n > 0
          /\ Size(outputBuffer) = 0
          /\ readerPc' = "request"
          /\ byteCount' = n
          /\ readerCall' = [op |-> "read", outcome |-> "running"]
          /\ UNCHANGED <<outputBuffer, served>>
    /\ UNCHANGED <<upstream, sent, sourceBuffer, sourceClosed, decompressor, dctx,
                   lastDecompressResult, readerClosed, faults>>

\* source.request(1) finds a byte in source.buffer.
RequestBuffered ==
    /\ readerPc = "request"
    /\ Size(sourceBuffer) > 0
    /\ readerPc' = "decompress"
    /\ UNCHANGED <<upstream, sent, sourceBuffer, sourceClosed, decompressor, dctx,
                   outputBuffer, lastDecompressResult, readerClosed, readerCall, byteCount,
                   served, faults>>

\* It reads from upstream, which gives some of what it has.
RequestReads ==
    /\ readerPc = "request"
    /\ Size(sourceBuffer) = 0
    /\ \E n \in 1 .. available - sent :
          /\ sourceBuffer' \in Appended(sourceBuffer, n)
          /\ sent' = sent + n
    /\ readerPc' = "decompress"
    /\ UNCHANGED <<upstream, sourceClosed, decompressor, dctx, outputBuffer,
                   lastDecompressResult, readerClosed, readerCall, byteCount, served,
                   faults>>

\* Upstream throws, before or after it gave some bytes.
RequestFails ==
    /\ readerPc = "request"
    /\ Size(sourceBuffer) = 0
    /\ faults < MaxFaults
    /\ faults' = faults + 1
    /\ \E n \in 0 .. available - sent :
          /\ sourceBuffer' \in Appended(sourceBuffer, n)
          /\ sent' = sent + n
    /\ ReadThrows("IOException")
    /\ UNCHANGED <<upstream, sourceClosed, decompressor, dctx, outputBuffer,
                   lastDecompressResult, readerClosed, served>>

\* Mutant: the result of request() is not looked at.
RequestIgnored ==
    /\ readerPc = "request"
    /\ Size(sourceBuffer) = 0
    /\ finished
    /\ sent = available
    /\ readerPc' = "decompress"
    /\ UNCHANGED <<upstream, sent, sourceBuffer, sourceClosed, decompressor, dctx,
                   outputBuffer, lastDecompressResult, readerClosed, readerCall, byteCount,
                   served, faults>>

\* Mutant: the end of upstream is never an error.
TruncationIgnored(result) == FALSE

\* A frame is open as far as the last result tells.
MidFrame(result) == result # 0

\* It returns false: upstream has ended and source.buffer is empty.
RequestExhausted ==
    /\ readerPc = "request"
    /\ Size(sourceBuffer) = 0
    /\ finished
    /\ sent = available
    /\ IF MidFrame(lastDecompressResult)
       THEN ReadThrows("EOFException") /\ UNCHANGED <<outputBuffer, served>>
       ELSE Serve(outputBuffer, byteCount)
    /\ UNCHANGED <<upstream, sent, sourceBuffer, sourceClosed, decompressor, dctx,
                   lastDecompressResult, readerClosed, faults>>

\* The counts the binding stores in the decompressor after a call.
ReaderCalled(took, put) ==
    [decompressor EXCEPT !.inputBytesProcessed = took, !.outputBytesProcessed = put]

\* Mutant: the whole head segment is skipped, whatever was processed.
ReaderSkippedSegment(avail, c) == Skip(sourceBuffer, avail)

\* source.skip(): the bytes processed leave source.buffer.
ReaderSkippedInput(avail, c) == Skip(sourceBuffer, c.inputBytesProcessed)

\* Mutants: all the room that was made stays in outputBuffer, and the count of the call
\* before this one.
ReaderKeptCapacity(cap, c) == Resized(outputBuffer, cap, cap)
KeptStale(cap, c) == Resized(outputBuffer, cap, decompressor.outputBytesProcessed)

\* outputBuffer, cut back to what the call put out.
ReaderKeptOutput(cap, c) == Resized(outputBuffer, cap, c.outputBytesProcessed)

\* Mutant: the result is kept only if it asks for more input.
ResultKept(result) == IF result = 0 THEN lastDecompressResult ELSE result

LastResult(result) == result

\* What the program does with the outcome out of a call on avail bytes, with room for cap.
Pass(avail, cap, out) ==
    LET b == ReaderKeptOutput(cap, decompressor')
    IN  /\ dctx' = out.dctx
        /\ decompressor' = ReaderCalled(out.took, out.put)
        /\ sourceBuffer' = ReaderSkippedInput(avail, decompressor')
        /\ lastDecompressResult' = LastResult(out.result)
        /\ \/ /\ out.result = DecodeError
              /\ ReadThrows("IOException")
              /\ outputBuffer' = b
              /\ faults' = IF dctx.healthy /\ dctx'.healthy THEN faults + 1 ELSE faults
              /\ UNCHANGED served
           \/ /\ out.result # DecodeError
              /\ Size(b) = 0
              /\ readerPc' = "request"
              /\ outputBuffer' = b
              /\ UNCHANGED <<readerCall, byteCount, served, faults>>
           \/ /\ out.result # DecodeError
              /\ Size(b) > 0
              /\ Serve(b, byteCount)
              /\ UNCHANGED faults

\* One iteration of the loop of refillIfNecessary(): a call on the head segment of
\* source.buffer, with a new segment of outputBuffer as its output.
DecompressPass ==
    /\ readerPc = "decompress"
    /\ \E avail \in HeadSegment(sourceBuffer), cap \in Capacity(outputBuffer) :
        \E out \in DecompressStream(stream, dctx, avail, cap)
                        \cup (IF faults < MaxFaults THEN {NotCalled(dctx)} ELSE {}) :
            Pass(avail, cap, out)
    /\ UNCHANGED <<upstream, sent, sourceClosed, readerClosed>>

\* A negative byteCount, and a read of a closed source.
ReaderRejected ==
    /\ readerPc = "caller"
    /\ \E exception \in {"IllegalArgumentException"}
                            \cup (IF readerClosed THEN {"IllegalStateException"} ELSE {}) :
          ReadThrows(exception)
    /\ UNCHANGED <<upstream, sent, sourceBuffer, sourceClosed, decompressor, dctx,
                   outputBuffer, lastDecompressResult, readerClosed, served, faults>>

-----------------------------------------------------------------------------
(* close() *)

\* Mutant: close() does not set closed.
ReaderNeverClosed == FALSE

\* close() sets closed before anything that can throw.
ReaderClosedOnEntry == TRUE

ReaderClose ==
    /\ readerPc = "caller"
    /\ ~readerClosed
    /\ readerClosed' = ReaderClosedOnEntry
    /\ outputBuffer' = Empty
    /\ readerPc' = "closeDecompressor"
    /\ readerCall' = [op |-> "close", outcome |-> "running"]
    /\ UNCHANGED <<upstream, sent, sourceBuffer, sourceClosed, decompressor, dctx,
                   lastDecompressResult, byteCount, served, faults>>

ReaderCloseAgain ==
    /\ readerPc = "caller"
    /\ readerClosed
    /\ readerCall' = [op |-> "closeAgain", outcome |-> "returned"]
    /\ UNCHANGED <<upstream, sent, sourceBuffer, sourceClosed, decompressor, dctx,
                   outputBuffer, lastDecompressResult, readerClosed, readerPc, byteCount,
                   served, faults>>

\* Mutant: the handle is freed and not zeroed.
FreedNotZeroed(c) == [c EXCEPT !.frees = @ + 1]

\* The handle is zeroed and freed once.
ReaderFreed(c) ==
    IF c.open THEN [c EXCEPT !.open = FALSE, !.frees = @ + 1] ELSE c

\* The inner use block: decompressor.close().
CloseDecompressor ==
    /\ readerPc = "closeDecompressor"
    /\ readerPc' = "closeSource"
    /\ decompressor' = ReaderFreed(decompressor)
    /\ UNCHANGED <<upstream, sent, sourceBuffer, sourceClosed, dctx, outputBuffer,
                   lastDecompressResult, readerClosed, readerCall, byteCount, served,
                   faults>>

\* The outer one: source.close() drops what is buffered; upstream's close may fail.
CloseSource ==
    /\ readerPc = "closeSource"
    /\ readerPc' = "caller"
    /\ sourceClosed' = TRUE
    /\ sourceBuffer' = Empty
    /\ \/ /\ readerCall' = [readerCall EXCEPT !.outcome = "returned"]
          /\ UNCHANGED faults
       \/ /\ faults < MaxFaults
          /\ faults' = faults + 1
          /\ readerCall' = [readerCall EXCEPT !.outcome = "IOException"]
    /\ UNCHANGED <<upstream, sent, decompressor, dctx, outputBuffer, lastDecompressResult,
                   readerClosed, byteCount, served>>

-----------------------------------------------------------------------------
ReaderCallerStep ==
    \/ \E n \in 0 .. MaxRead : Read(n)
    \/ ReaderRejected
    \/ ReaderClose
    \/ ReaderCloseAgain

Refill == RequestBuffered \/ RequestReads \/ RequestFails \/ RequestExhausted \/ DecompressPass

Release == CloseDecompressor \/ CloseSource

ReaderNext == Arrive \/ Finish \/ ReaderCallerStep \/ Refill \/ Release

ReaderSpec == ReaderInit /\ [][ReaderNext]_readerVars

\* A call that was made runs on when it can; nothing obliges upstream to give more.
ReaderFairSpec == ReaderSpec /\ WF_readerVars(Refill) /\ WF_readerVars(Release)

\* Upstream gives all it has and ends.
ReaderFairUpstreamSpec == ReaderFairSpec /\ WF_readerVars(Arrive) /\ WF_readerVars(Finish)

-----------------------------------------------------------------------------
(* Properties *)

\* No byte is lost, duplicated or overtaken: what source.buffer received was processed
\* or is still there, and what zstd put out was served or is in outputBuffer.
ReaderNothingLost ==
    ~readerClosed =>
        /\ sent = Reported(dctx) + Size(sourceBuffer)
        /\ served + Size(outputBuffer) = dctx.flushed

\* A read reports exhaustion only if upstream ended where a frame ended, and the caller
\* then has every byte that was encoded up to there.
CleanEnd ==
    (dctx.healthy /\ readerCall = [op |-> "read", outcome |-> "exhausted"])
        => /\ finished
           /\ AtBoundary(stream, available)
           /\ served = Decodable(stream, available)

\* A read blames a truncated stream only if upstream did end inside a frame.
TruncationIsReal ==
    (dctx.healthy /\ readerCall = [op |-> "read", outcome |-> "EOFException"])
        => finished /\ ~AtBoundary(stream, available)

\* The caller never gets a byte that the compressed bytes received so far, up to the
\* first corrupt one, do not determine.
ServedIsDecodable ==
    dctx.healthy =>
        /\ served =< Decodable(stream, sent)
        /\ \A i \in 1 .. dctx.taken : stream[i].kind # "bad"

\* decompressStream never gets a zeroed handle, and nothing is skipped in, or read into,
\* the buffer of a closed upstream.
ReaderNoUseAfterClose ==
    [][/\ dctx' # dctx => decompressor.open
       /\ sourceBuffer' # sourceBuffer => ~sourceClosed]_readerVars

\* Between calls the handle and upstream are open before close() and, as soon as
\* close() has ended in whatever way, freed once and closed.
ReaderResourcesReleased ==
    readerPc = "caller" =>
        /\ sourceClosed = readerClosed
        /\ decompressor.open = ~readerClosed
        /\ decompressor.frees = IF readerClosed THEN 1 ELSE 0

\* A read ends, as long as upstream goes on to its end and zstd keeps its contract.
ReadsTerminate ==
    (readerPc # "caller") ~> (readerPc = "caller" \/ ~dctx.healthy)

\* "Use flush() to force all data to be emitted immediately" (README.md:50): a waiting
\* read gets the data that the bytes sent so far determine, without waiting for more.
FlushedDataIsReadable ==
    (readerPc = "request" /\ served < Decodable(stream, available)) ~> (readerPc = "caller")
=============================================================================
