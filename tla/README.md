# TLA+ models of zstd-kmp

zstd-kmp binds the zstd C library to Kotlin Multiplatform. Its own logic is small and sits where
two foreign protocols meet: zstd's streaming calls, which take and give as many bytes as they like
and speak through one result, and okio's `Buffer`, whose segments are handed to zstd as raw arrays.
These modules model that logic, check it with TLC on small instances, and prove the safety results
about the two streams, the pipe between them, the bindings and the loading of the library with TLAPS
for all sizes.

Paths below are relative to the repository; `okio/` stands for
`zstd-kmp-okio/src/commonMain/kotlin/com/squareup/zstd/okio/`.

## 1. The system

| Component | Source | State | Operations | Model |
|---|---|---|---|---|
| `ZstdCompressSink` | `okio/ZstdCompressSink.kt` | `closed`, `inputBuffer`, the buffer of the downstream `BufferedSink` | `write`, `flush`, `close`, all through `compress(mode)` | `ZstdCompressSink` |
| `ZstdDecompressSource` | `okio/ZstdDecompressSource.kt` | `closed`, `outputBuffer`, `lastDecompressResult`, the buffer of the upstream `BufferedSource` | `read` (through `refillIfNecessary`), `close` | `ZstdDecompressSource` |
| Codec bindings (JNI) | `zstd-kmp/native/ZstdKmp.cpp`, `jniMain/JniZstd*.kt` | a native handle, the two counts of the last call | create, `setParameter`, `compressStream2`, `decompressStream`, `close`, `getErrorName` | `Bindings`, `SizeT` |
| Codec bindings (Kotlin/Native) | `nativeMain/NativeZstd*.kt` | the same | the same | `Bindings`, `SizeT` |
| The abstract classes | `commonMain/ZstdCompressor.kt`, `ZstdDecompressor.kt` | the counts | the same | `Codec`, which `Bindings` implements |
| Factories | `okio/Zstd.kt`, `commonMain/Zstd.kt` | none | `zstdCompress()`, `zstdDecompress()`, `zstdCompressor()`, ... | `ZstdPipeline`, `Bindings` |
| Library loading | `jniMain/JniZstd.kt`, `jvmMain/JvmZstd.kt`, `androidMain/AndroidZstd.kt`, `createJniZstd` in `ZstdKmp.cpp` | `jniZstdPointer`, set in a class initializer | first use from any thread | `NativeLibrary` |
| Both streams together | | a writer and a reader thread on one compressed stream | | `ZstdPipeline`, which implements `LosslessStream` |
| zstd, okio, the JVM | not in the repository | `ZSTD_CCtx`, `ZSTD_DCtx`, `Buffer`, class initialization | | external: `ZstdCCtx`, `ZstdDCtx`, `OkioBuffer`, parts of `NativeLibrary` |

How they interact. A caller writes into the sink; the sink stages bytes in `inputBuffer`, gives
the array of its head segment to `compressStream2`, which writes into the tail segment of the
downstream sink's own buffer; the binding stores how much was read and written in two fields of
the compressor object, and the sink reads these fields back to skip input and to cut the output
segment to size. Then it emits complete segments downstream, which may throw, and looks at the
result. The source does the mirror image, pulling from an upstream that may block, end or fail.

What is hard about it:

- A failure can come between any two of "zstd took the input", "the input was skipped", "the
  output was kept", "the output was emitted", "the result was looked at", and the caller may go on
  using the stream: write again, flush again, or close.
- `flush` and `close` may stop only when input and pending output are both used up, and these come
  true in different iterations.
- zstd holds bytes back: input not yet coded, compressed bytes not yet flushed, decoded bytes that
  did not fit, and the last byte of a frame "held hostage" until its output is out.
- A wrong order in `close` leaks the native context, frees it twice, or uses it when freed.
- Native memory gives a freed address to the next codec, so that a handle that outlives its context
  is not just dangling: it is somebody else's.
- The library is loaded inside a class initializer, by whichever thread comes first, and native code
  called there initializes further classes.
- The source must tell a stream that ended from one that was cut off, from a single remembered
  result.

What makes each component correct:

- Sink: no byte lost or duplicated whatever fails; a `flush` or `close` that returned has delivered
  everything; `close` releases the handle and the downstream sink exactly once; the frame it writes
  is whole; memory stays bounded; every operation ends.
- Source: it serves exactly what the received bytes determine; it reports a clean end exactly at a
  frame boundary and a truncation only inside a frame; `close` releases exactly once; reads end
  when upstream goes on.
- Bindings: the counts always describe the last call, also if it failed before zstd was called; an
  error result stays an error through the conversions `size_t` to `jlong` and back; a handle is
  freed once.
- Loading: one `JniZstd` per process, no native call before the library is loaded, no two threads
  that disagree on whether there is a library, and no thread that waits for ever.
- Both streams: the reader gets what was written, is never told of an end that is none or of a
  truncation that is none, and gets what was flushed.

## 2. Modules

| Module | Lines of code it stands for | Correspondence |
|---|---|---|
| `OkioBuffer` | external (okio) | a buffer is `[complete, tail]`: bytes outside and inside the writable tail segment. Which sizes the complete segments have depends on sharing and compaction in okio and is left open: `HeadSegment` and `Appended` are sets of possibilities |
| `ZstdCCtx` | `ZstdKmp.cpp` 57-61, 80-94 and zstd's contract for `ZSTD_compressStream2` | counters of bytes fed, coded, generated and flushed, and the frame state. `Drained`, `FrameFinished` and `Encoded` are the ways a healthy call ends, `Failed` the error branch of the binding, `Garbage` a call after a zstd error |
| `ZstdCompressSink` | `ZstdCompressSink.kt`, whole class | one action per operation; one `CompressPass` per iteration of the `do` loop, then `FlushSink`, or `CloseCompressor` and `CloseSink` for the two nested `use` blocks. `writerCall` remembers the operation and how it ended |
| `ZstdDCtx` | `ZstdKmp.cpp` 103-107, 120-133 and zstd's contract for `ZSTD_decompressStream` | a compressed stream is a sequence of bytes, each with the number of decoded bytes determined so far and whether it ends a frame or shows corruption |
| `ZstdDecompressSource` | `ZstdDecompressSource.kt`, whole class | `Read` enters the loop of `refillIfNecessary`; `Request*` are the outcomes of `source.request(1)`, `DecompressPass` the rest of an iteration |
| `MCZstdDecompressSource` | | the set of all small streams, for TLC |
| `Failures` | | how many failures a behaviour has, and what a broken context may still put out: the bounds and the counter both streams share |
| `SizeT` | `ZstdKmp.cpp` 41-47, 85, 88-94 and the integer types of `jni_md.h` | the conversions between `size_t`, `jint`/`Int` and `jlong`/`Long`, with the widths as constants |
| `Codec` | `ZstdCompressor.kt`, `ZstdDecompressor.kt` | abstract: open, closed, how far it got, what the last call was and what its user is told |
| `Bindings` | `ZstdKmp.cpp` 57-140, `JniZstdCompressor.kt`, `JniZstdDecompressor.kt`, `NativeZstd*.kt` | several codecs over one native memory whose addresses are used again; `JniCall`, `NativeCall` and `NativeThrows` are the two streaming functions, `SetParameter` and `Close` the others; `platform` chooses the binding |
| `MCBindings` | | the arrays of a call, for TLC |
| `NativeLibrary` | `JniZstd.kt` 18-21, `JvmZstd.kt` 26-46, `AndroidZstd.kt` 18-20, `ZstdKmp.cpp` 24-55 | threads with a program counter; one step for each thing the initializer does that can fail or be seen from outside, and the JVM's rules for initializing a class |
| `LosslessStream` | | abstract: bytes written, bytes read, the end |
| `ZstdPipeline` | `okio/Zstd.kt` 29, 32, and the two stream classes | sink and source, whole, by `EXTENDS`; what the sink delivered is what upstream has, and `Generated` gives the bytes that a step of the writer's zstd put out the meaning they have for the reader's |
| `MCZstdPipeline` | | the empty pipe, for TLC |
| `*_proofs` | | theorems and proofs about the module of that name |

`ZstdCompressSink` extends `OkioBuffer` and `ZstdCCtx`; `ZstdDecompressSource` extends `OkioBuffer` and
`ZstdDCtx`; both contexts extend `Failures`; `Bindings` extends `SizeT`. `ZstdPipeline` extends the two
streams, so that its proofs can cite theirs: a proof cannot cite the lemmas of a module that is
instantiated. What both streams have under the same name (`closed`, `call`, `close()`, `TypeOK`, `Spec`,
...) therefore begins with `Writer` in the sink and with `Reader` in the source. The writer's and the
reader's variables are the tuples `writer` and `reader`; `upstream` (the stream, how much of it is
available, and whether it has ended) is what a pipe sets, and `faults` is counted together. Definitions
commented "Mutant" are deliberate mistakes: each one, put in place of the definition below it, makes TLC
report the property it was written against.

Abstractions. Bytes are counted, not spelled out: every property is about how many bytes are where,
and both streams are FIFO by the shape of a buffer. All zstd errors are one value. Exceptions are the
`outcome` of a call. One thread uses a stream at a time: neither class synchronizes, and okio's
contract for `Sink` and `Source` asks for that. Arguments that okio itself rejects (a `write` of more
than the source buffer holds) are left out.

After a call that returned a zstd error, zstd promises nothing until the session is reset, and the
sink never resets it. The models let such a context do anything that keeps the counts within the
arrays (`Garbage`, `Undefined`). Conservation and release hold there too; the properties about what
the bytes mean are stated for contexts that are `healthy`. In the pipe, too, what a broken context of the
writer puts out is anything (`Generated`): bytes that decode to nothing or to data that nobody wrote,
that end a frame, or that are corrupt; and the reader's context, which is sound, decodes them. A failure inside the binding
(`GetByteArrayElements` gives NULL) leaves the context healthy.

`Bindings` looks at the same calls from the other side: it leaves open what zstd does with the
bytes, other than that positions stay in their ranges, and spells out what the binding does around
the call. A call may use an array without elements, an empty range, or a range that starts inside
the array. The user it assumes may call anything in any order but does not call a closed codec,
except to close it again: what zstd does with a NULL context is undefined, and no binding guards
against it. That the two streams are such users is `WriterNoUseAfterClose` and `ReaderNoUseAfterClose`.

`NativeLibrary` has the JVM's rules as actions: the first thread that needs a class initializes it and
may use it meanwhile, others wait, and after an exception the class is erroneous for good. The codec
classes need their own initialization when a codec is created and when `GetFieldID` is called.

The writer and the reader of `ZstdPipeline` are two threads, each step of a stream class is one step,
and the pipe between them is unbounded: a bounded one delays the writer and changes nothing else.

## 3. Runs

| Run | Instance | Shows |
|---|---|---|
| `ZstdCompressSink` | segments of 3 bytes, 5 bytes written, bursts of up to 4 compressed bytes, 2 failures | safety of the sink, below |
| `ZstdCompressSink_live` | segments of 2, 4 bytes, bursts of 3, 1 failure | `OperationsTerminate` |
| `ZstdDecompressSource` | all streams of up to 3 compressed bytes that determine 0, 1 or 5 decoded bytes, segments of 2, reads of up to 2, 1 failure | safety of the source |
| `ZstdDecompressSource_live` | the same streams with 0 or 5 decoded bytes, reads of 1, no failure | `ReadsTerminate` |
| `ZstdDecompressSource_flushed` | streams of up to 2 bytes, no failure | violates `FlushedDataIsReadable`, see 5 |
| `Bindings` | 64 bits: two codecs, two addresses, three kinds of arrays of up to 2 bytes, `Int` of 4 bits, `Long` and `size_t` of 6 bits, one error code | safety of the bindings, and that they implement `Codec` |
| `Bindings_32` | a `size_t` of 4 bits and a `Long` of 8 bits, two error codes | `ErrorIsSeen` where the widths differ |
| `NativeLibrary` | three threads, JVM and Android | loading, and `RequestsEnd` |
| `ZstdPipeline` | 2 bytes written, segments of 2, 2 failures | `ReadWasWritten`, `BothSidesAgree`, `NoSilentTruncation` |
| `ZstdPipeline_lossless` | 3 bytes written, no failure | the pipeline implements `LosslessStream` |
| `ZstdPipeline_flush` | 4 bytes written, segments of 2, bursts of 1, no failure, reads of 1 | `FlushArrives` |
| `ZstdPipeline_close` | 3 bytes written, segments of 2, bursts of 2, no failure, reads of 1 | `EverythingArrives` |

Sink: `WriterNothingLost` (bytes accepted = fed + staged; bytes delivered + staged downstream = flushed
by zstd), `FlushDelivers`, `CloseDelivers`, `WriterResourcesReleased`, `WriterNoUseAfterClose`,
`EndDirectiveFinal` (nothing but `ZSTD_e_end` reaches a context that ended a frame), `BoundedBuffers`,
`FrameIsWhole`, `OperationsTerminate`.

Source: `ReaderNothingLost`, `CleanEnd`, `TruncationIsReal`, `ServedIsDecodable`,
`ReaderResourcesReleased`, `ReaderNoUseAfterClose`, `ReadsTerminate`.

Bindings: `ContextsOwned` (no leak, and no `close()` frees the context of another codec),
`ErrorIsSeen`, `OutputArrives` (copies of arrays are written back and released), and `ImplementsCodec`: the
counts are those of the most recent call also when zstd was not called, and a call that throws on
Kotlin/Native changed nothing.

Loading: `BroughtUpOnce`, `NativeCodeIsThere`, `AllOrNone`, and `RequestsEnd`, which is about the
three class initializations not waiting for each other in a circle.

Pipeline: `ReadWasWritten`, with calls that fail and are made again, as long as neither context is
broken; `BothSidesAgree` after a `close()` that returned; `NoSilentTruncation` after one that did not;
`FlushArrives` for the first segment of what was flushed (section 5 says what may become of the rest);
`EverythingArrives`.

Why the bounds are enough. Five bytes with segments of three give an `inputBuffer` with several
complete segments and a tail, also short segments in the middle; a burst of four overflows an
output segment, so pending output, the empty-input call and two emits in one operation happen. Two
failures give every pair: a failed write followed by a failed flush or close. Five decoded bytes
with segments of two need three output segments, so the hostage byte and the call with full output
happen, and streams of three bytes hold an empty frame between others, two frames, a corrupt byte
after a frame and every truncation. `MaxGarbage` caps the output of a broken context.

Two codecs and two addresses are what it takes for one codec to get the address another one freed, and
for the other to close itself again. The widths of the integers are small but keep the relations of
the real ones: `Int` narrower than `size_t`, `size_t` as wide as `Long` or at most half of it; the
theorems hold for any such widths. With three threads one initializes, one waits, and one comes after
the failure; the proofs cover any number. In the pipeline two failures are the least that leave a
segment behind and then cut the stream; two bytes with segments of two make `close` and `flush` take
more than one iteration, and the run without failures crosses a segment boundary on each side.

Fairness. `WriterFairSpec` of the sink is weak fairness of the program's own steps: a call that was made
runs on its thread, while nothing obliges the caller to make one. For the source, `ReaderFairSpec` is
weak fairness of `Refill` and of `Release`; the reader waits while `source.request` blocks because
no action of `Refill` is enabled then. `ReaderFairUpstreamSpec` adds that upstream delivers all it has
and ends, and only `ReadsTerminate` uses it. `OperationsTerminate` needs that zstd keeps its contract (a
call with room and input or pending output makes progress), so both liveness properties give up when
a context is broken: there, an endless loop is possible.

`FairSpec` of `NativeLibrary` says that a thread which can go on does so: the operating system
schedules it, and the JVM wakes those that wait for a class. Nothing obliges a thread to ask.
`FairSpec` of `ZstdPipeline` adds to the fairness of the two streams what is said of their
environment: there is a reader, and it reads as long as the source is open. Nothing obliges the
writer to write, flush or close. Of the two runs that use it `ZstdPipeline_close` writes three bytes
with segments of two: the decoder has more than its output has room for, and holds back the last byte of
the frame until the rest is out, while the end of upstream is still to come; and a burst of two leaves
output pending in the writer's zstd when there is room for one byte. `ZstdPipeline_flush` flushes up to
two segments; its bursts are of one byte, because that a `flush` goes on until zstd has nothing pending
is `FlushDelivers`, which does not need fairness and is proved.

Deadlock is checked in every run but that of `NativeLibrary`, whose threads may all end; elsewhere the
caller can always call `close` again.

## 4. Proofs

Each theorem is of the form `Spec => []P`, `Spec => [][A]_vars` or `Spec => A` with an abstract specification `A`, for every
value of the constants that the named assumptions allow. Together they state every safety property
and both refinements that the passing runs check. `Spec` is `WriterSpec` for the sink and
`ReaderSpec` for the source.

### The sink (`ZstdCompressSink_proofs`)

For every segment size, every bound and every number of failures, from `SegmentSizeAssumption`,
`FailuresAssumption`, `CCtxAssumption` and `SinkAssumption`: `WriterTypeCorrect` (`WriterTypeOK`),
`Conservation` (`WriterNothingLost`), `WriterReleased` (`WriterResourcesReleased`),
`WriterUseBeforeClose` (`WriterNoUseAfterClose`), `FinalDirective` (`EndDirectiveFinal`),
`FlushPromise` (`FlushDelivers`), `ClosePromise` (`CloseDelivers`), `Memory` (`BoundedBuffers`),
`OneFrame` (`FrameIsWhole`).

The argument has layers: the
first is an inductive invariant, the second is inductive given the first, the others given these two.

1. `Conserved` is `WriterTypeOK`, `WriterNothingLost`, `WriterWellFormed(cctx)` (zstd's counters are
   ordered) and `RemainingExact`: inside the loop, `inputRemaining` is what `compress` would compute if
   it were entered now. Without the last, neither `WriterTypeOK` nor `WriterNothingLost` is inductive:
   subtracting what a call reports could make `inputRemaining` negative, or skip past the complete
   segments. That a call reports no more than it was given is `SucceededLemma`, from the contract in
   `ZstdCCtx`; that skipping and resizing a buffer keep it a buffer is `SkipLemma` and `ResizedLemma`.
2. `Protocol` says which call is at which `writerPc`, what is open there, and that a frame has ended
   only if `writerClosed` is set. The last conjunct is the reason for `EndDirectiveFinal`: `close` sets
   `closed` before anything that can throw, so that no `write` or `flush` follows.
3. `Delivery` carries what the loop has achieved when it stops (`FinishedLemma`: all input was handed
   over, zstd took it and reported nothing pending) through `sink.flush()`, or through the two `use`
   blocks, to the end of the call.
4. `BoundedBuffers` is inductive itself: an iteration adds at most one complete segment
   (`ResizedLemma`), and either emits all of them or adds a failure.
5. `Whole` adds to `FrameIsWhole` that a `close` without left-over segments has all its input in the
   head segment, so that the call which ends the frame takes the last input, and that the loop goes on
   afterwards only to flush (`FrameStep` says what one call can do to a frame).

### The source (`ZstdDecompressSource_proofs`)

For every set of streams, every segment size and every number of failures, from `SourceAssumption`,
`FailuresAssumption` and `SegmentSizeAssumption`: `ReaderTypeCorrect` (`ReaderTypeOK`), `Lossless`
(`ReaderNothingLost`), `EndIsClean` (`CleanEnd`), `TruncationReported` (`TruncationIsReal`), `Decoding`
(`ServedIsDecodable`), `ReaderReleased` (`ReaderResourcesReleased`), `ReaderUseBeforeClose`
(`ReaderNoUseAfterClose`).

`CleanEnd` and `TruncationIsReal` speak of the end of upstream, but the code decides on
`lastDecompressResult`, set by a call that may lie many reads and failures back. What connects them
is `Result`: a remembered 0 means that the decoder holds nothing back and stands at a frame
boundary; another value means, *once `source.buffer` is empty*, that it does not. The second half
fails without the condition: after an error in the binding the remembered result is the error
although the decoder may be at a boundary, but then the input it was given is still in
`source.buffer`, and a read makes another call before it can find upstream exhausted. `Phase`
supplies this: `decompress` is reached only with input. `Flow` is `ReaderNothingLost` with the
order of the decoder's counters and holds also for a broken context; `Resources` is who is open at
each `readerPc`. `ReaderInv` is the conjunction of all of them.

What a call to zstd does enters only through `DecompressStreamLemma`: every outcome is `Proper`, that
is, it counts correctly (`Accounted`), leaves a well-formed context, and its result is `Truthful`. The
lemma is proved from the four cases of `ZstdDCtx`.

### The bindings (`Bindings_proofs`, `SizeT_proofs`)

For any number of codecs and addresses, every set of arrays and all widths that `SizeTAssumption` and
`BindingsAssumption` allow: `TypeCorrect`, `Ownership` (`ContextsOwned`), `Errors` (`ErrorIsSeen`),
`Output` (`OutputArrives`), and `Refinement`: `Spec => ImplementsCodec`, the bindings implement `Codec`.

The invariant is `TypeOK`, `Owned`, `ErrorIsSeen` and `OutputArrives`. `Owned` strengthens
`ContextsOwned`: a codec is open exactly if its handle is not NULL, also when it is absent or closed,
which is what makes a repeated `close()` harmless. `StepKinds` reduces `Next` to six kinds of
steps, one of which, `Moved`, is every streaming call of either binding; the refinement maps it to
`Codec!Call`, and `NativeThrows` to a stutter.

They rest on theorems of `SizeT_proofs`: `RoundTrip` (a `size_t` survives the way through `Long`),
`ErrorSurvives` and `ZeroSurvives` (so do its meanings), and `CountsExact` (narrowing before or after
the subtraction gives the same count, for arrays indexed by `Int`).

### Loading (`NativeLibrary_proofs`)

For any set of threads: `TypeCorrect` (`TypeOK`, with: a class is being initialized just as long as
some thread will end it), `Once` (`BroughtUpOnce`), `LinkedFirst`
(`NativeCodeIsThere`), `Final` (`AllOrNone`). `BroughtUpOnce` alone is not inductive: the invariant
adds that only the thread which initializes `JniZstdKt` is at a step of its initializer
(`OneInitializer`), how far each step has come (`Progress`), and what there is in each state of the
class (`ByClass`).

### The pipe (`ZstdPipeline_proofs`)

For every segment size, every number of bytes written and read, every size of a burst and every number
of failures on either side, from the assumptions of both streams and `PipelineAssumption`
(`Streams = {<<>>}`: the reader's upstream is empty before the writer has put anything into it; what
follows is the writer's):

- `NothingInvented`: `Spec => []ReadWasWritten`, for any number of failures that leave both contexts
  sound; of what comes out of a broken one nothing is assumed and nothing is claimed
- `Agreement`: `Spec => []BothSidesAgree`
- `NoTruncation`: `Spec => []NoSilentTruncation`
- `WriterInPipe`, `ReaderInPipe` and `OrderInPipe`: what each stream promises alone it also promises
  here, for any interleaving with the other: of the sink `WriterNothingLost`, `FlushDelivers`,
  `CloseDelivers`, `FrameIsWhole`, `WriterResourcesReleased`, `WriterNoUseAfterClose` and
  `EndDirectiveFinal`, of the source `ReaderNothingLost`, `CleanEnd`, `TruncationIsReal`,
  `ServedIsDecodable`, `ReaderResourcesReleased` and `ReaderNoUseAfterClose`
- `Refinement`: `Spec => ImplementsLosslessStream`, when `MaxFaults = 0`. With failures it is not so: when either
  context broke, the reader may have bytes nobody wrote, and a failed `close()` may be followed by an end.

The inductive invariant is `PipelineInv`, four conjuncts:

1. `WriterInv`, the invariant of the sink. A step of the reader leaves it alone (`LeavesWriter`), all
   but the count of failures, which only grows.
2. `ReaderInv`, the invariant of the source. It does not follow from the source's own theorems, which
   are about a stream that is there from the start: here a step of the writer appends to it.
   `StreamGrows` shows that what is known of the bytes taken so far stays true of a longer stream
   (`Decodable` and `AtBoundary` of a prefix, `PrefixLemma`), and that the end, once reached, stays.
3. `Pipe`: what is available is what was delivered, upstream has ended when the downstream sink of the
   writer is closed, and the stream has as many bytes as zstd generated.
4. `Encoding`: as long as no call of the writer to zstd failed, the stream determines just what zstd
   has coded, holds no corrupt byte, stands at a frame boundary when no frame is
   open, and holds the end of a frame only if one was ended: with all the data, unless segments were
   left behind. `Encoding` is what the writer's zstd and the reader's have in common, and without it
   neither stream's invariant says anything of the other's counters. That a step of the writer keeps
   it needs to know what the step generated: `PassProgress` and `NextProgress` give it from the
   sink's lemmas, `BurstsLemma` and `BurstLemma` from the shape of the bytes.

The invariants of the two streams then give the three properties: `served` is at most what the decoder
flushed, which is at most what the bytes it took determine (`Flow`), which is what was coded
(`Encoding`, of a healthy writer), which is at most what was accepted (`Conserved`). A reader that is told of the end has
served all that the available bytes determine (`CleanEnd`), and they end at a frame boundary; the sink
says what a `close()` that returned has delivered (`CloseDelivers`) and what is in a frame that has
ended (`Whole`).

For the refinement `Faultless` is added: nothing fails, both contexts stay healthy (the
stream has no corrupt byte, `SoundStream`), no exception is on its way through the `use` blocks, and
the downstream sink is closed only with everything delivered. `FaultlessEnd` concludes that an end the
reader is told of is real. A step of the writer is then `Write`, `Shut` or a stutter of
`LosslessStream` (`WriterImplements`), one of the reader `Read`, `End`, `Other` or a stutter
(`ReaderImplements`). TLC was asked first whether `PipelineInv` holds on the instance with failures,
and with it `Faultless` on the one without.

### Only model-checked

- Liveness under fairness (`OperationsTerminate`, `ReadsTerminate`, `RequestsEnd`, `FlushArrives`,
  `EverythingArrives`): the provers used do not handle `ENABLED` and fairness.
- `FlushedDataIsReadable` is violated (section 5), so that there is nothing to prove.

## 5. What the checks found

`FlushedDataIsReadable`. The README says of the sink "Use `flush()` to force all data to be emitted
immediately", and the test `flushedDataIsReadable` (`JniZstdDecompressSourceTest.kt` 39-56) reads
such data while upstream stays open. `refillIfNecessary` asks upstream for a byte before it asks the
decompressor for what that still holds. If a flushed block decodes to more than the output segment
has room for, and its last compressed byte was processed by that call, the read that finds
`outputBuffer` used up waits for upstream although more data is decoded. If upstream ends there
instead, the read throws `EOFException` before these bytes were served. The test's data fits one
segment.

Not a disagreement, but worth knowing: `FrameIsWhole` excludes a `close` that finds complete segments
left by a failed `write`. There `compress(ZSTD_e_end)` gives the end directive with each head
segment, and each of them becomes a frame; the data is still complete (`CloseDelivers`).

The same holds for the exception that `NoSilentTruncation` makes: if a `write` failed and left
segments behind (`stale`), and the following `close` fails after some of them became frames, a reader
finds a clean end at a frame boundary with data missing. The writer was told by two exceptions; the
reader cannot know. Without the conjunct `~stale` the run reports this with two failures.

If `close` failed before anything was delivered, the reader sees an empty upstream, which it takes
for an empty stream (`lastDecompressResult` is 0 at the start): `delivered = 0` in
`NoSilentTruncation`.

On Kotlin/Native the decompressor takes the address of element 0 of both arrays without the check
that the compressor has, so that a call with an array without elements throws. It throws before
anything has changed (`NativeThrows`, a stutter of `Codec`), and the source never passes such an
array.

## 6. Not modelled

- `timeout()` of both streams: forwards, no state.
- Byte contents, compression parameters, checksums, dictionaries: zstd's own.
- Build scripts and the tests.
- `jni.h` and the two `jni_md.h` are the JDK's headers, kept in the repository to compile against.
  They are most of the C and C++ lines there, and they are declarations: only the integer types and
  the release modes mean something here (`SizeT`, `Bindings`). Every function of `ZstdKmp.cpp` is
  modelled.
- A call on a closed codec: zstd gets NULL, and what it does is not defined. No class of the library
  makes such a call (`NoUseAfterClose`).
- `FindClass` that fails in `createJniZstd`, which then calls `GetFieldID` with NULL: not defined by
  JNI, and the classes are in the same JAR. `ReleaseByteArrayElements` with the NULL that
  `GetByteArrayElements` returned is not defined by JNI either. With `JNI_ABORT` there is nothing to
  do; with mode 0 a JVM may crash, and the models say what holds if it does not.
- An Error thrown by the JVM between `expandBuffer` and `resizeBuffer`: see the hazards in
  `PROJECT.json`.
- The temporary file of `loadNativeLibrary` when the process ends abnormally: `deleteOnExit` does
  not run.
- What happens when a stream or a codec is shared between threads: no class supports it.

## 7. What could come next

In this order:

1. A bounded pipe, and a reader that closes its end while the writer writes.
2. The refinement with failures: what `LosslessStream` must allow for `Spec => ImplementsLosslessStream` to hold for
   every `MaxFaults`, which is `NoSilentTruncation` as a state machine.
