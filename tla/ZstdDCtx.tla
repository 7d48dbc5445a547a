------------------------------ MODULE ZstdDCtx ------------------------------
(***************************************************************************)
(* A ZSTD_DCtx and one decompressStream call on it, as the bindings make   *)
(* that call.  The zstd library is not in the repository: the contract     *)
(* below is the part of it that the caller relies on.                      *)
(*                                                                         *)
(* A compressed stream s is a sequence of bytes.  s[i].upto is how many    *)
(* decoded bytes the first i of them determine; s[i].kind is "end" for the *)
(* last byte of a frame, "bad" for the byte at which a decoder notices     *)
(* that the stream is corrupt, "mid" otherwise.  A context is a record of  *)
(*    taken    compressed bytes read, one held hostage included            *)
(*    flushed  decoded bytes copied to the caller's output                 *)
(*    hostage  the last byte of a frame was read but is not reported as    *)
(*             processed, so that the caller comes back for pending output *)
(*    healthy  no call has returned a zstd error                           *)
(***************************************************************************)
EXTENDS Integers, Sequences, Failures

DCtx == [taken : Nat, flushed : Nat, hostage : BOOLEAN, healthy : BOOLEAN]

\* A context that was created; without one the constructor of the binding throws.
NewDCtx == [taken |-> 0, flushed |-> 0, hostage |-> FALSE, healthy |-> TRUE]

DecodeError == -1

IsStream(s) ==
    /\ s \in Seq([upto : Nat, kind : {"mid", "end", "bad"}])
    /\ \A i, j \in 1 .. Len(s) : i < j => s[i].upto =< s[j].upto

Decodable(s, n) == IF n = 0 THEN 0 ELSE s[n].upto

\* After n bytes no frame is open.
AtBoundary(s, n) == n = 0 \/ s[n].kind = "end"

Unflushed(s, d) == Decodable(s, d.taken) - d.flushed

\* The bytes that a caller was told are processed.
Reported(d) == IF d.hostage THEN d.taken - 1 ELSE d.taken

\* Decoded bytes fill the output: no input is looked at.
OutputFull(s, d, cap) ==
    IF Unflushed(s, d) =< cap THEN {}
    ELSE {[dctx |-> [d EXCEPT !.flushed = @ + cap], took |-> 0, put |-> cap, result |-> 1]}

\* The rest of a frame fits: the hostage is released.
HostageReleased(s, d, cap) ==
    IF ~d.hostage \/ Unflushed(s, d) > cap THEN {}
    ELSE {[dctx |-> [d EXCEPT !.flushed = Decodable(s, d.taken), !.hostage = FALSE],
           took |-> 1, put |-> Unflushed(s, d), result |-> 0]}

\* How many of avail bytes a call reads: up to a frame's end, a corrupt byte or the
\* first byte whose decoded output no longer fits, and to the end of the input if
\* there is none of these.
Reads(s, d, avail, cap) ==
    LET held(k) == Decodable(s, d.taken + k) - d.flushed
    IN  {k \in 1 .. avail :
            /\ \A j \in 1 .. k - 1 : s[d.taken + j].kind = "mid" /\ held(j) =< cap
            /\ k = avail \/ s[d.taken + k].kind # "mid" \/ held(k) >= cap}

\* The outcome of reading k bytes.
Decoded(s, d, k, cap) ==
    LET kind == s[d.taken + k].kind
        held == Decodable(s, d.taken + k) - d.flushed
        put == IF held =< cap THEN held ELSE cap
        hostage == kind = "end" /\ held > cap
    IN  IF kind = "bad"
        THEN [dctx |-> [d EXCEPT !.healthy = FALSE],
              took |-> 0, put |-> 0, result |-> DecodeError]
        ELSE [dctx |-> [d EXCEPT !.taken = @ + k, !.flushed = @ + put, !.hostage = hostage],
              took |-> IF hostage THEN k - 1 ELSE k, put |-> put,
              result |-> IF kind = "end" /\ ~hostage THEN 0 ELSE 1]

\* A context that failed promises nothing; the run lets it read on without output,
\* emit a byte, report any result, or fail again.
RunOn(d, took, put, r) ==
    [dctx |-> [d EXCEPT !.taken = @ + took, !.flushed = @ + put],
     took |-> took, put |-> put, result |-> r]

FailAgain(d) == [dctx |-> d, took |-> 0, put |-> 0, result |-> DecodeError]

Undefined(d, avail) ==
    {RunOn(d, took, put, r) : took \in {0, avail},
                              put \in 0 .. (IF d.flushed < MaxGarbage THEN 1 ELSE 0),
                              r \in {0, 1}}
    \cup {FailAgain(d)}

\* The outcomes of a call on avail > 0 bytes of input and cap bytes of output.
DecompressStream(s, d, avail, cap) ==
    IF ~d.healthy THEN Undefined(d, avail)
    ELSE OutputFull(s, d, cap) \cup HostageReleased(s, d, cap)
            \cup (IF d.hostage \/ Unflushed(s, d) > cap THEN {}
                  ELSE {Decoded(s, d, k, cap) : k \in Reads(s, d, avail, cap)})

\* GetByteArrayElements returned NULL: zstd is not called, the context is as it was,
\* and the binding computes both counts from positions that did not move.
NotCalled(d) == [dctx |-> d, took |-> 0, put |-> 0, result |-> DecodeError]
=============================================================================
