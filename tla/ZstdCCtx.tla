------------------------------ MODULE ZstdCCtx ------------------------------
(***************************************************************************)
(* A ZSTD_CCtx and one compressStream2 call on it, as the bindings make    *)
(* that call (ZstdKmp.cpp, NativeZstdCompressor.kt).  The zstd library is  *)
(* not in the repository: the contract below is the part of it that the    *)
(* callers rely on.  Compressed bytes are counted, not spelled out.  A     *)
(* context is a record of                                                  *)
(*    fed        input bytes taken so far                                  *)
(*    coded      input bytes whose blocks have been generated              *)
(*    generated  compressed bytes generated so far                         *)
(*    flushed    compressed bytes already copied to the caller's output    *)
(*    frames     frames whose last block has been generated                *)
(*    inFrame    a frame has been begun and not been given its last block  *)
(*    ending     the last block is generated and not yet all flushed       *)
(*    healthy    no call has returned a zstd error: after one, zstd gives  *)
(*               no promise until the session is reset                     *)
(***************************************************************************)
EXTENDS Integers, Failures

CONSTANT
    MaxBurst        \* most compressed bytes that one call generates

ASSUME CCtxAssumption == MaxBurst \in Nat

EndDirective == {"ZSTD_e_continue", "ZSTD_e_flush", "ZSTD_e_end"}

CCtx == [fed : Nat, coded : Nat, generated : Nat, flushed : Nat, frames : Nat,
         inFrame : BOOLEAN, ending : BOOLEAN, healthy : BOOLEAN]

\* Both bindings return size_t in a Long; every error is one value here.
ErrorResult == -1

\* A context that was created.  If ZSTD_createCCtx gives NULL the constructor of the
\* binding throws, and there is no stream that could use it.
NewCCtx == [fed |-> 0, coded |-> 0, generated |-> 0, flushed |-> 0, frames |-> 0,
            inFrame |-> FALSE, ending |-> FALSE, healthy |-> TRUE]

Pending(c) == c.generated - c.flushed

Least(a, b) == IF a < b THEN a ELSE b

\* Generated bytes do not fit in the cap bytes of output: copy what fits.
Drained(c, cap) ==
    IF Pending(c) =< cap THEN {}
    ELSE {[cctx |-> [c EXCEPT !.flushed = @ + cap],
           took |-> 0, put |-> cap, result |-> Pending(c) - cap]}

\* The rest of a last block fits: the frame is over, and 0 says so.  No input is
\* taken in this call even if there is some.
FrameFinished(c, cap) ==
    IF ~c.ending \/ Pending(c) > cap THEN {}
    ELSE {[cctx |-> [c EXCEPT !.flushed = c.generated, !.ending = FALSE],
           took |-> 0, put |-> Pending(c), result |-> 0]}

\* What blocks are generated after taking took of avail bytes: n input bytes in p
\* output bytes, and whether the last of them closes the frame.  Continue codes
\* when it pleases, flush and end code all they took.
Blocks(c, mode, avail, took) ==
    {b \in [n : 0 .. c.fed + took - c.coded, p : 0 .. MaxBurst, last : BOOLEAN] :
        /\ b.last <=> (mode = "ZSTD_e_end" /\ took = avail)
        /\ b.p = 0 <=> (b.n = 0 /\ ~b.last)
        /\ mode # "ZSTD_e_continue" => b.n = c.fed + took - c.coded}

\* Take input, code, and copy out.  Input is left over only if the output is full.
Encoded(c, mode, avail, cap) ==
    IF c.ending \/ Pending(c) > cap THEN {}
    ELSE UNION {
        {LET put == Least(cap, Pending(c) + b.p)
             rest == Pending(c) + b.p - put
         IN [cctx |-> [fed |-> c.fed + took,
                       coded |-> c.coded + b.n,
                       generated |-> c.generated + b.p,
                       flushed |-> c.flushed + put,
                       frames |-> IF b.last THEN c.frames + 1 ELSE c.frames,
                       inFrame |-> ~b.last /\ (c.inFrame \/ took > 0),
                       ending |-> b.last /\ rest > 0,
                       healthy |-> TRUE],
             took |-> took, put |-> put, result |-> rest] :
         b \in {x \in Blocks(c, mode, avail, took) :
                    took = avail \/ Pending(c) + x.p >= cap}} :
        took \in 0 .. avail}

\* The call fails.  Either GetByteArrayElements returned NULL and zstd was never
\* called, or zstd did (allocation, parameters) and the context is broken.  The
\* binding then computes both counts from positions that did not move.
Failed(c) ==
    {[cctx |-> [c EXCEPT !.healthy = h], took |-> 0, put |-> 0, result |-> ErrorResult] :
        h \in {FALSE, c.healthy}}

\* A call on a context that failed earlier and that returns no error: anything.
Garbage(c, avail) ==
    {[cctx |-> [c EXCEPT !.fed = @ + x.took, !.generated = @ + x.put, !.flushed = @ + x.put],
      took |-> x.took, put |-> x.put, result |-> x.result] :
        x \in [took : {0, avail}, put : IF c.generated < MaxGarbage THEN {0, 1} ELSE {0},
               result : {0, 1}]}

\* The outcomes of a call with avail bytes of input and cap bytes of output.
Succeeded(c, mode, avail, cap) ==
    IF c.healthy
    THEN Drained(c, cap) \cup FrameFinished(c, cap) \cup Encoded(c, mode, avail, cap)
    ELSE Garbage(c, avail)
=============================================================================
