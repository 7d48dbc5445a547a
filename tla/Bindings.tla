------------------------------ MODULE Bindings ------------------------------
(***************************************************************************)
(* The codec objects of JniZstdCompressor.kt and JniZstdDecompressor.kt    *)
(* with ZstdKmp.cpp under them, and of NativeZstdCompressor.kt and         *)
(* NativeZstdDecompressor.kt.  An object holds the address of a zstd       *)
(* context in native memory, where an address that was freed is given out  *)
(* again.  A user of these objects calls one after the other, any of them  *)
(* in any order, and does not use a codec after closing it except to close *)
(* it again.                                                               *)
(*                                                                         *)
(* What zstd does in a call is open here: it moves the positions in the    *)
(* two arrays within their ranges, and succeeds or fails.                  *)
(***************************************************************************)
EXTENDS SizeT, FiniteSets

CONSTANTS
    Codecs,         \* objects of the process
    Addresses,      \* addresses that native memory has for a context
    NULL,           \* no address: the handle 0, or null
    Spans,          \* arrays of a call, with the ranges it may use
    MaxLength,      \* bound: length of an array
    MaxPosition     \* bound: how far a context gets

\* A length, and the range of the array that a call may use.
Span == {s \in [length : 0 .. MaxLength, start : 0 .. MaxLength, end : 0 .. MaxLength] :
            s.start =< s.end /\ s.end =< s.length}

ASSUME BindingsAssumption ==
    /\ NULL \notin Addresses
    /\ Spans \subseteq Span
    /\ MaxLength \in Nat /\ MaxPosition \in Nat
    /\ 2 * MaxLength < IntModulus

VARIABLES
    platform,       \* "jni" or "native"; all targets of the latter have 64 bits
    object,         \* of each codec: the fields of the Kotlin object
    contexts,       \* of each address: the context there
    last,           \* of each codec: the last call on it
    borrowed        \* copies of arrays that JNI made and was not told to free

vars == <<platform, object, contexts, last, borrowed>>

Kind == {"compressor", "decompressor"}

Free == [kind |-> "free", in |-> 0, out |-> 0]

Absent == [state |-> "absent", kind |-> "compressor", handle |-> NULL,
           inputBytesProcessed |-> -1, outputBytesProcessed |-> -1]

\* A new codec of kind k with its context at a.
Opened(k, a) == [state |-> "open", kind |-> k, handle |-> a,
                 inputBytesProcessed |-> -1, outputBytesProcessed |-> -1]

\* of is what was called, zstd the outcome as zstd or the binding meant it, result the Long
\* that the caller got, and missing the bytes put out that are not in the caller's array.
NoCall == [of |-> "nothing", zstd |-> [error |-> NoName, finished |-> FALSE],
           result |-> 1, missing |-> 0]

\* What a function of zstd may return: 0, the numbers up to the greatest that is no error,
\* and the errors.
Results == {0, SizeModulus - MaxCode} \cup {Error(code) : code \in 1 .. MaxCode - 1}

\* What zstd means by a result.
Meaning(n) == [error |-> IF n > SizeModulus - MaxCode THEN SizeModulus - n ELSE NoName,
               finished |-> n = 0]

Object == [state : {"absent", "open", "closed"}, kind : Kind, handle : Addresses \cup {NULL},
           inputBytesProcessed : -1 .. MaxLength, outputBytesProcessed : -1 .. MaxLength]

Context == [kind : Kind \cup {"free"}, in : 0 .. MaxPosition, out : 0 .. MaxPosition]

LastCall == [of : {"nothing", "stream", "setParameter"},
             zstd : [error : 0 .. MaxCode - 1, finished : BOOLEAN],
             result : Long, missing : 0 .. MaxLength]

TypeOK ==
    /\ platform \in {"jni", "native"}
    /\ object \in [Codecs -> Object]
    /\ contexts \in [Addresses -> Context]
    /\ last \in [Codecs -> LastCall]
    /\ borrowed \in Nat

Init ==
    /\ platform \in IF SizeModulus = LongModulus THEN {"jni", "native"} ELSE {"jni"}
    /\ object = [c \in Codecs |-> Absent]
    /\ contexts = [a \in Addresses |-> Free]
    /\ last = [c \in Codecs |-> NoCall]
    /\ borrowed = 0

-----------------------------------------------------------------------------
(* Creation *)

\* zstdCompressor() or zstdDecompressor(): a context at any free address.
Create(c, k) ==
    /\ object[c].state # "open"
    /\ \E a \in Addresses :
          /\ contexts[a] = Free
          /\ contexts' = [contexts EXCEPT ![a].kind = k]
          /\ object' = [object EXCEPT ![c] = Opened(k, a)]
    /\ last' = [last EXCEPT ![c] = NoCall]
    /\ UNCHANGED <<platform, borrowed>>

\* ZSTD_createCCtx() or ZSTD_createDCtx() gives NULL: the constructor throws an
\* OutOfMemoryError, and there is no object.
CreateFails(c) ==
    /\ object[c].state # "open"
    /\ object' = [object EXCEPT ![c] = Absent]
    /\ last' = [last EXCEPT ![c] = NoCall]
    /\ UNCHANGED <<platform, contexts, borrowed>>

-----------------------------------------------------------------------------
(* compressStream2 and decompressStream *)

\* Mutant: the fields are set only if zstd was called.
StoredIfCalled(c, took, put, called) ==
    IF called THEN [object EXCEPT ![c].inputBytesProcessed = took,
                                  ![c].outputBytesProcessed = put]
    ELSE object

\* Both fields, set on every way through the call.
Stored(c, took, put, called) ==
    [object EXCEPT ![c].inputBytesProcessed = took, ![c].outputBytesProcessed = put]

\* zstd moves from the start of each span to a place in it and returns n.
ZstdCalled(c, took, put) ==
    LET a == object[c].handle
    IN  /\ contexts[a].in + took =< MaxPosition
        /\ contexts[a].out + put =< MaxPosition
        /\ contexts' = [contexts EXCEPT ![a].in = @ + took, ![a].out = @ + put]

\* GetByteArrayElements: the array itself, pinned, or a copy of it, or NULL.
Elements == {"array", "copy", "NULL"}

JNI_COMMIT == 1
JNI_ABORT == 2

\* Mutant: the output is released like the input.
AbortMode == JNI_ABORT

InputReleaseMode == JNI_ABORT
OutputReleaseMode == 0

\* ReleaseByteArrayElements: how many of n bytes written are not in the array afterwards,
\* and how many copies stay allocated.
Missing(elements, mode, n) == IF elements = "copy" /\ mode = JNI_ABORT THEN n ELSE 0
Kept(elements, mode) == IF elements = "copy" /\ mode = JNI_COMMIT THEN 1 ELSE 0

JniReturns(c, in, out, inPos, outPos, n, inElements, outElements) ==
    /\ object' = Stored(c, CountJni(inPos, in.start), CountJni(outPos, out.start),
                        inElements # "NULL" /\ outElements # "NULL")
    /\ last' = [last EXCEPT ![c] =
                   [of |-> "stream", zstd |-> Meaning(n), result |-> ToLong(n),
                    missing |-> Missing(outElements, OutputReleaseMode,
                                        outPos - out.start)]]
    /\ borrowed' = borrowed + Kept(inElements, InputReleaseMode)
                            + Kept(outElements, OutputReleaseMode)
    /\ UNCHANGED platform

\* Java_com_squareup_zstd_JniZstdCompressor_compressStream2 and
\* Java_com_squareup_zstd_JniZstdDecompressor_decompressStream.
JniCall(c, in, out) ==
    /\ platform = "jni"
    /\ object[c].state = "open"
    /\ \E inElements, outElements \in Elements :
        \/ /\ inElements # "NULL" /\ outElements # "NULL"
           /\ \E inPos \in in.start .. in.end, outPos \in out.start .. out.end,
                 n \in Results :
                /\ ZstdCalled(c, inPos - in.start, outPos - out.start)
                /\ JniReturns(c, in, out, inPos, outPos, n, inElements, outElements)
        \/ /\ inElements = "NULL" \/ outElements = "NULL"
           /\ JniReturns(c, in, out, in.start, out.start, GenericError,
                         inElements, outElements)
           /\ UNCHANGED contexts

\* The compressor takes an address in an array only for a range that is not empty, the
\* decompressor always.
AddressTaken(c, s) == object[c].kind = "decompressor" \/ s.start < s.end

\* compressStream2 and decompressStream of Kotlin/Native, on pinned arrays.
NativeCall(c, in, out) ==
    /\ platform = "native"
    /\ object[c].state = "open"
    /\ \A s \in {in, out} : AddressTaken(c, s) => s.length > 0
    /\ \E inPos \in in.start .. in.end, outPos \in out.start .. out.end, n \in Results :
        /\ ZstdCalled(c, inPos - in.start, outPos - out.start)
        /\ object' = Stored(c, CountNative(inPos, in.start),
                            CountNative(outPos, out.start), TRUE)
        /\ last' = [last EXCEPT ![c] =
                       [of |-> "stream", zstd |-> Meaning(n), result |-> ToLong(n),
                        missing |-> 0]]
    /\ UNCHANGED <<platform, borrowed>>

\* addressOf(0) of an array without elements throws, before anything has changed.
NativeThrows(c, in, out) ==
    /\ platform = "native"
    /\ object[c].state = "open"
    /\ \E s \in {in, out} : AddressTaken(c, s) /\ s.length = 0
    /\ UNCHANGED vars

-----------------------------------------------------------------------------
(* setParameter and close *)

SetParameter(c) ==
    /\ object[c].state = "open"
    /\ object[c].kind = "compressor"
    /\ \E n \in Results :
          last' = [last EXCEPT ![c].of = "setParameter", ![c].zstd = Meaning(n),
                               ![c].result = ToLong(n)]
    /\ UNCHANGED <<platform, object, contexts, borrowed>>

\* Mutant: the handle is freed and not zeroed.
NotZeroed(o) == [o EXCEPT !.state = "closed"]

\* The handle is zeroed before it is freed.
Zeroed(o) == [o EXCEPT !.state = "closed", !.handle = NULL]

\* The first close() and every later one.
Close(c) ==
    /\ object[c].state # "absent"
    /\ IF object[c].handle = NULL
       THEN UNCHANGED <<object, contexts>>
       ELSE /\ object' = [object EXCEPT ![c] = Zeroed(@)]
            /\ contexts' = [contexts EXCEPT ![object[c].handle] = Free]
    /\ UNCHANGED <<platform, last, borrowed>>

-----------------------------------------------------------------------------
Next ==
    \E c \in Codecs :
        \/ \E k \in Kind : Create(c, k)
        \/ CreateFails(c)
        \/ \E in, out \in Spans : JniCall(c, in, out)
        \/ \E in, out \in Spans : NativeCall(c, in, out)
        \/ \E in, out \in Spans : NativeThrows(c, in, out)
        \/ SetParameter(c)
        \/ Close(c)

Spec == Init /\ [][Next]_vars

-----------------------------------------------------------------------------
(* Properties *)

\* Every context in native memory is that of one open codec, and every open codec has one
\* of its kind: none leaks, and no close(), repeated or not, frees the context that
\* another codec got at the same address.
ContextsOwned ==
    /\ \A c \in Codecs : object[c].state = "open" =>
           object[c].handle \in Addresses /\ contexts[object[c].handle].kind = object[c].kind
    /\ \A a \in Addresses : contexts[a].kind # "free" =>
           \E c \in Codecs : /\ object[c].state = "open" /\ object[c].handle = a
                             /\ \A d \in Codecs : object[d].handle = a => d = c

\* getErrorName(result) names the error that occurred, and only then one, and result is
\* zero when zstd meant zero, whatever the widths of size_t and Long.
ErrorIsSeen ==
    \A c \in Codecs :
        /\ ErrorName(last[c].result) = last[c].zstd.error
        /\ last[c].result = 0 <=> last[c].zstd.finished

\* After a call the caller's array has all bytes that zstd put out, and no copy of an
\* array stays allocated.
OutputArrives ==
    /\ \A c \in Codecs : last[c].missing = 0
    /\ borrowed = 0

\* The codec that the user has in mind.
Position(c) == IF object[c].state # "open" THEN [in |-> 0, out |-> 0]
               ELSE [in |-> contexts[object[c].handle].in,
                     out |-> contexts[object[c].handle].out]

Outcome(c) == [of |-> last[c].of, error |-> last[c].zstd.error,
               finished |-> last[c].zstd.finished]

Advance(c) == [in |-> object[c].inputBytesProcessed, out |-> object[c].outputBytesProcessed]

Told(c) == [of |-> last[c].of, error |-> ErrorName(last[c].result),
            finished |-> last[c].result = 0]

Promise == INSTANCE Codec WITH
    state <- [c \in Codecs |-> object[c].state],
    position <- [c \in Codecs |-> Position(c)],
    outcome <- [c \in Codecs |-> Outcome(c)],
    advance <- [c \in Codecs |-> Advance(c)],
    told <- [c \in Codecs |-> Told(c)]

\* Both bindings are such codecs: the counts are those of the most recent call, also when
\* an array could not be obtained, and a call that throws is none.
ImplementsCodec == Promise!Spec
=============================================================================
