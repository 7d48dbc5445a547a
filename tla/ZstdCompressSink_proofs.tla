----------------------- MODULE ZstdCompressSink_proofs -----------------------
(***************************************************************************)
(* Theorems about ZstdCompressSink, for every segment size, every number   *)
(* of bytes written and every number of failures.                          *)
(***************************************************************************)
EXTENDS ZstdCompressSink, OkioBuffer_proofs

-----------------------------------------------------------------------------
(* Lemmas about compressStream2 *)

\* What holds of the counts of a context after any number of calls.
WriterWellFormed(c) ==
    /\ c.flushed =< c.generated
    /\ c.coded =< c.fed
    /\ (c.healthy /\ c.ending) => c.coded = c.fed /\ ~c.inFrame /\ c.frames > 0

\* What a call that returns no error does to the counts.
WriterAccounted(c, avail, cap, out) ==
    /\ out.cctx \in CCtx
    /\ WriterWellFormed(out.cctx)
    /\ out.took \in 0 .. avail
    /\ out.put \in 0 .. cap
    /\ out.result \in Nat
    /\ out.cctx.fed = c.fed + out.took
    /\ out.cctx.flushed = c.flushed + out.put

\* What a flush or end call that reports 0 has achieved, if it also took all its input.
Complete(c, mode_, avail, out) ==
    (c.healthy /\ out.result = 0 /\ out.took = avail /\ mode_ # "ZSTD_e_continue")
        => /\ out.cctx.coded = out.cctx.fed
           /\ out.cctx.generated = out.cctx.flushed
           /\ mode_ = "ZSTD_e_end" =>
                /\ out.cctx.frames > 0 /\ ~out.cctx.inFrame /\ ~out.cctx.ending

\* What a call does to the frame: it ends the frame, with everything it was given coded
\* and the rest pending or out, or it leaves a frame that was ended as it is.
FrameStep(c, avail, out) ==
    /\ out.cctx.healthy
    /\ \/ /\ out.cctx.frames = c.frames
          /\ c.ending => /\ out.cctx.coded = c.coded
                         /\ out.cctx.inFrame <=> c.inFrame
                         /\ out.result = 0 \/ out.cctx.ending
       \/ /\ ~c.ending
          /\ out.cctx.frames = c.frames + 1
          /\ ~out.cctx.inFrame
          /\ out.cctx.coded = out.cctx.fed
          /\ out.took = avail
          /\ out.result = 0 \/ out.cctx.ending

\* A healthy context begins a frame with the first byte that it takes.
Tight(c) == ~c.inFrame => c.coded = c.fed

\* What a call does to the compressed stream, from context c to o: it only adds to it,
\* with nothing coded that adds no byte, and bytes without an end of frame leave a frame
\* open.
Grown(c, o) ==
    /\ o.generated >= c.generated /\ o.coded >= c.coded /\ o.frames >= c.frames
    /\ ~c.healthy => ~o.healthy /\ o.coded = c.coded
    /\ o.generated = c.generated =>
        /\ o.coded = c.coded /\ o.frames = c.frames
        /\ c.inFrame => o.inFrame
    /\ (c.healthy /\ Tight(c)) =>
        /\ Tight(o)
        /\ (o.generated > c.generated /\ ~o.inFrame) => o.frames > c.frames

LEMMA DrainedLemma ==
    ASSUME NEW c \in CCtx, WriterWellFormed(c), c.healthy, NEW m \in EndDirective,
           NEW avail \in Nat, NEW cap \in Nat, cap > 0, NEW out \in Drained(c, cap)
    PROVE  WriterAccounted(c, avail, cap, out) /\ Complete(c, m, avail, out)
           /\ out.cctx.frames = c.frames /\ FrameStep(c, avail, out) /\ Grown(c, out.cctx)
<1>1. /\ Pending(c) > cap
      /\ out.cctx = [c EXCEPT !.flushed = c.flushed + cap]
      /\ out.took = 0 /\ out.put = cap /\ out.result = Pending(c) - cap
  BY DEF Drained, Pending, CCtx, WriterWellFormed
<1>2. WriterAccounted(c, avail, cap, out) /\ Complete(c, m, avail, out)
  BY <1>1 DEF Pending, CCtx, WriterWellFormed, WriterAccounted, Complete
<1>3. /\ out.cctx.frames = c.frames /\ out.cctx.coded = c.coded
      /\ out.cctx.inFrame = c.inFrame /\ out.cctx.ending = c.ending
      /\ out.cctx.healthy = c.healthy
      /\ out.cctx.generated = c.generated /\ out.cctx.fed = c.fed
  BY <1>1 DEF CCtx
<1>4. Grown(c, out.cctx)
  BY <1>3 DEF Grown, Tight, CCtx
<1> QED BY <1>2, <1>3, <1>4 DEF FrameStep

LEMMA FrameFinishedLemma ==
    ASSUME NEW c \in CCtx, WriterWellFormed(c), c.healthy, NEW m \in EndDirective,
           NEW avail \in Nat, NEW cap \in Nat, cap > 0, NEW out \in FrameFinished(c, cap)
    PROVE  WriterAccounted(c, avail, cap, out) /\ Complete(c, m, avail, out)
           /\ out.cctx.frames = c.frames /\ FrameStep(c, avail, out) /\ Grown(c, out.cctx)
<1>1. /\ c.ending /\ ~(Pending(c) > cap)
      /\ out = [cctx |-> [c EXCEPT !.flushed = c.generated, !.ending = FALSE],
                took |-> 0, put |-> Pending(c), result |-> 0]
  BY Zenon DEF FrameFinished
<1>2. /\ out.cctx = [c EXCEPT !.flushed = c.generated, !.ending = FALSE]
      /\ out.took = 0 /\ out.put = Pending(c) /\ out.result = 0
  BY <1>1
<1>3. /\ out.cctx \in CCtx /\ out.cctx.flushed = c.generated
      /\ out.cctx.generated = c.generated /\ out.cctx.fed = c.fed
      /\ out.cctx.coded = c.coded /\ out.cctx.frames = c.frames
      /\ out.cctx.inFrame <=> c.inFrame
      /\ ~out.cctx.ending
      /\ out.cctx.healthy <=> c.healthy
  <2>1. out.cctx \in CCtx
    BY <1>2 DEF CCtx
  <2>2. /\ out.cctx.flushed = c.generated
        /\ out.cctx.generated = c.generated /\ out.cctx.fed = c.fed
        /\ out.cctx.coded = c.coded /\ out.cctx.frames = c.frames
    BY <1>2 DEF CCtx
  <2>3. /\ out.cctx.inFrame <=> c.inFrame
        /\ ~out.cctx.ending
        /\ out.cctx.healthy <=> c.healthy
    BY <1>2 DEF CCtx
  <2> QED BY <2>1, <2>2, <2>3
<1>4. /\ Pending(c) \in 0 .. cap /\ Pending(c) = c.generated - c.flushed
      /\ c.coded = c.fed /\ ~c.inFrame /\ c.frames > 0
  BY <1>1 DEF Pending, CCtx, WriterWellFormed
<1>5. WriterWellFormed(out.cctx)
  BY <1>3, <1>4 DEF WriterWellFormed, CCtx
<1>6. WriterAccounted(c, avail, cap, out)
  BY <1>2, <1>3, <1>4, <1>5 DEF WriterAccounted, CCtx
<1>7. Complete(c, m, avail, out)
  BY <1>2, <1>3, <1>4 DEF Complete
<1>8. FrameStep(c, avail, out)
  BY <1>2, <1>3 DEF FrameStep
<1>9. Grown(c, out.cctx)
  BY <1>3 DEF Grown, Tight, CCtx
<1> QED BY <1>3, <1>6, <1>7, <1>8, <1>9

LEMMA EncodedLemma ==
    ASSUME NEW c \in CCtx, WriterWellFormed(c), c.healthy, NEW m \in EndDirective,
           NEW avail \in Nat, NEW cap \in Nat, cap > 0, NEW out \in Encoded(c, m, avail, cap)
    PROVE  /\ WriterAccounted(c, avail, cap, out)
           /\ Complete(c, m, avail, out)
           /\ m # "ZSTD_e_end" => out.cctx.frames = c.frames
           /\ FrameStep(c, avail, out)
           /\ Grown(c, out.cctx)
<1> USE CCtxAssumption
<1>1. ~(c.ending \/ Pending(c) > cap)
  BY Zenon DEF Encoded
<1> DEFINE Outcome_(t, x) ==
        LET put == Least(cap, Pending(c) + x.p)
            rest == Pending(c) + x.p - put
        IN [cctx |-> [fed |-> c.fed + t,
                      coded |-> c.coded + x.n,
                      generated |-> c.generated + x.p,
                      flushed |-> c.flushed + put,
                      frames |-> IF x.last THEN c.frames + 1 ELSE c.frames,
                      inFrame |-> ~x.last /\ (c.inFrame \/ t > 0),
                      ending |-> x.last /\ rest > 0,
                      healthy |-> TRUE],
            took |-> t, put |-> put, result |-> rest]
<1>2a. PICK took \in 0 .. avail : \E x \in Blocks(c, m, avail, took) : out = Outcome_(took, x)
  BY <1>1 DEF Encoded
<1>2. PICK b \in Blocks(c, m, avail, took) : out = Outcome_(took, b)
  BY <1>2a
<1>3. /\ c.fed \in Nat /\ c.coded \in Nat /\ c.generated \in Nat /\ c.flushed \in Nat
      /\ c.frames \in Nat /\ c.flushed =< c.generated /\ c.coded =< c.fed
      /\ c.inFrame \in BOOLEAN
  BY DEF CCtx, WriterWellFormed
<1>4. /\ b.n \in Nat /\ b.n =< c.fed + took - c.coded /\ b.p \in Nat /\ b.last \in BOOLEAN
      /\ b.last <=> (m = "ZSTD_e_end" /\ took = avail)
      /\ b.p = 0 <=> (b.n = 0 /\ ~b.last)
      /\ m # "ZSTD_e_continue" => b.n = c.fed + took - c.coded
  BY <1>3 DEF Blocks
<1>5. /\ Pending(c) = c.generated - c.flushed
      /\ Pending(c) \in Nat
  BY <1>3 DEF Pending
<1> DEFINE put == Least(cap, Pending(c) + b.p)
           rest == Pending(c) + b.p - put
<1>6. /\ put \in 0 .. cap /\ rest \in Nat
      /\ rest = Pending(c) + b.p - put
  BY <1>4, <1>5 DEF Least
<1>7. /\ out.took = took /\ out.put = put /\ out.result = rest
      /\ out.cctx.fed = c.fed + took /\ out.cctx.coded = c.coded + b.n
      /\ out.cctx.generated = c.generated + b.p /\ out.cctx.flushed = c.flushed + put
      /\ out.cctx.frames = IF b.last THEN c.frames + 1 ELSE c.frames
      /\ out.cctx.inFrame <=> (~b.last /\ (c.inFrame \/ took > 0))
      /\ out.cctx.ending <=> (b.last /\ rest > 0)
      /\ out.cctx.healthy
  BY <1>2
<1>8. out.cctx \in CCtx
  <2> HIDE DEF put, rest
  <2>1. /\ c.fed + took \in Nat /\ c.coded + b.n \in Nat /\ c.generated + b.p \in Nat
        /\ c.flushed + put \in Nat
        /\ (IF b.last THEN c.frames + 1 ELSE c.frames) \in Nat
        /\ (~b.last /\ (c.inFrame \/ took > 0)) \in BOOLEAN
        /\ (b.last /\ rest > 0) \in BOOLEAN
    BY <1>3, <1>4, <1>6
  <2> QED BY <2>1, <1>2 DEF CCtx, put, rest
<1> HIDE DEF put, rest
<1>9. WriterWellFormed(out.cctx)
  BY <1>3, <1>4, <1>5, <1>6, <1>7 DEF WriterWellFormed
<1>10. WriterAccounted(c, avail, cap, out)
  BY <1>6, <1>7, <1>8, <1>9 DEF WriterAccounted
<1>11. Complete(c, m, avail, out)
  <2> SUFFICES ASSUME rest = 0, took = avail, m # "ZSTD_e_continue"
               PROVE  /\ out.cctx.coded = out.cctx.fed
                      /\ out.cctx.generated = out.cctx.flushed
                      /\ m = "ZSTD_e_end" =>
                            out.cctx.frames > 0 /\ ~out.cctx.inFrame /\ ~out.cctx.ending
    BY <1>7 DEF Complete
  <2>1. out.cctx.coded = out.cctx.fed /\ out.cctx.generated = out.cctx.flushed
    <3>1. out.cctx.coded = out.cctx.fed
      BY <1>3, <1>4, <1>7
    <3>2. out.cctx.generated = out.cctx.flushed + rest
      BY <1>3, <1>4, <1>5, <1>6, <1>7
    <3>3. out.cctx.flushed \in Nat
      BY <1>3, <1>6, <1>7
    <3> QED BY <3>1, <3>2, <3>3
  <2>2. ASSUME m = "ZSTD_e_end"
        PROVE  out.cctx.frames > 0 /\ ~out.cctx.inFrame /\ ~out.cctx.ending
    <3>1. b.last
      BY <2>2, <1>4
    <3>2. out.cctx.frames > 0
      BY <3>1, <1>3, <1>7
    <3> QED BY <3>1, <3>2, <1>6, <1>7
  <2> QED BY <2>1, <2>2
<1>12. FrameStep(c, avail, out)
  <2>1. CASE b.last
    <3>1. took = avail /\ out.cctx.coded = out.cctx.fed
      BY <2>1, <1>3, <1>4, <1>7
    <3>2. out.result = 0 \/ out.cctx.ending
      BY <2>1, <1>6, <1>7
    <3> QED BY <2>1, <1>1, <1>7, <3>1, <3>2 DEF FrameStep
  <2>2. CASE ~b.last
    BY <2>2, <1>1, <1>7 DEF FrameStep
  <2> QED BY <2>1, <2>2
<1>13. Grown(c, out.cctx)
  <2>1. /\ out.cctx.generated >= c.generated /\ out.cctx.coded >= c.coded
        /\ out.cctx.frames >= c.frames
    BY <1>3, <1>4, <1>7
  <2>2. ASSUME out.cctx.generated = c.generated
        PROVE  /\ out.cctx.coded = c.coded /\ out.cctx.frames = c.frames
               /\ c.inFrame => out.cctx.inFrame
    <3>1. b.p = 0
      BY <1>3, <1>4, <1>7, <2>2
    <3>2. b.n = 0 /\ ~b.last
      BY <1>4, <3>1
    <3>3. out.cctx.coded = c.coded /\ out.cctx.frames = c.frames
      BY <1>3, <1>7, <3>2
    <3>4. c.inFrame => out.cctx.inFrame
      BY <1>7, <3>2, Zenon
    <3> QED BY <3>3, <3>4
  <2>3. ASSUME Tight(c), ~out.cctx.inFrame
        PROVE  /\ out.cctx.coded = out.cctx.fed
               /\ out.cctx.generated > c.generated => out.cctx.frames > c.frames
    <3>1. CASE b.last
      BY <1>3, <1>4, <1>7, <3>1
    <3>2. CASE ~b.last
      <4>1. ~c.inFrame /\ took = 0
        BY <1>7, <2>3, <3>2
      <4>2. b.n = 0
        BY <1>3, <1>4, <2>3, <4>1 DEF Tight
      <4> QED BY <1>3, <1>4, <1>7, <2>3, <3>2, <4>1, <4>2 DEF Tight
    <3> QED BY <3>1, <3>2
  <2> QED BY <2>1, <2>2, <2>3 DEF Grown, Tight
<1> QED BY <1>4, <1>7, <1>10, <1>11, <1>12, <1>13

LEMMA GarbageLemma ==
    ASSUME NEW c \in CCtx, WriterWellFormed(c), ~c.healthy,
           NEW avail \in Nat, NEW cap \in Nat, cap > 0, NEW out \in Garbage(c, avail)
    PROVE  WriterAccounted(c, avail, cap, out) /\ ~out.cctx.healthy
           /\ out.cctx.frames = c.frames /\ Grown(c, out.cctx)
<1> DEFINE X == [took : {0, avail}, put : IF c.generated < MaxGarbage THEN {0, 1} ELSE {0},
                 result : {0, 1}]
<1>1. PICK x \in X :
        out = [cctx |-> [c EXCEPT !.fed = c.fed + x.took, !.generated = c.generated + x.put,
                                  !.flushed = c.flushed + x.put],
               took |-> x.took, put |-> x.put, result |-> x.result]
  BY DEF Garbage
<1>2. /\ x.took \in 0 .. avail /\ x.put \in 0 .. cap /\ x.result \in Nat
      /\ x.took \in Nat /\ x.put \in Nat
  BY <1>1
<1> HIDE DEF X
<1>3. /\ out.cctx = [c EXCEPT !.fed = c.fed + x.took, !.generated = c.generated + x.put,
                              !.flushed = c.flushed + x.put]
      /\ out.took = x.took /\ out.put = x.put /\ out.result = x.result
  BY <1>1
<1>4. /\ out.cctx.fed = c.fed + x.took
      /\ out.cctx.generated = c.generated + x.put /\ out.cctx.flushed = c.flushed + x.put
      /\ out.cctx.coded = c.coded /\ out.cctx.frames = c.frames
      /\ out.cctx.inFrame = c.inFrame
      /\ ~out.cctx.healthy
  BY <1>3 DEF CCtx
<1>5. out.cctx \in CCtx
  <2> DEFINE f == c.fed + x.took
             g == c.generated + x.put
             h == c.flushed + x.put
  <2>1. f \in Nat /\ g \in Nat /\ h \in Nat
    BY <1>2 DEF CCtx
  <2>2. out.cctx = [c EXCEPT !.fed = f, !.generated = g, !.flushed = h]
    BY <1>3, Zenon
  <2> HIDE DEF f, g, h
  <2> QED BY <2>1, <2>2 DEF CCtx
<1>6. WriterWellFormed(out.cctx)
  BY <1>2, <1>4 DEF WriterWellFormed, CCtx
<1>7. Grown(c, out.cctx)
  BY <1>2, <1>4 DEF Grown, CCtx
<1> QED BY <1>2, <1>3, <1>4, <1>5, <1>6, <1>7 DEF WriterAccounted

\* A call that returns no error takes no more than it was given, writes no more than it
\* had room for and reports exactly that, whatever state the context is in; on a healthy
\* context 0 means all done, and only ZSTD_e_end ends a frame.
LEMMA SucceededLemma ==
    ASSUME NEW c \in CCtx, WriterWellFormed(c), NEW m \in EndDirective,
           NEW avail \in Nat, NEW cap \in Nat, cap > 0, NEW out \in Succeeded(c, m, avail, cap)
    PROVE  /\ WriterAccounted(c, avail, cap, out)
           /\ Complete(c, m, avail, out)
           /\ ~c.healthy => ~out.cctx.healthy
           /\ m # "ZSTD_e_end" => out.cctx.frames = c.frames
           /\ c.healthy => FrameStep(c, avail, out)
           /\ Grown(c, out.cctx)
<1>1. CASE c.healthy
  <2>1. out \in Drained(c, cap) \/ out \in FrameFinished(c, cap)
          \/ out \in Encoded(c, m, avail, cap)
    BY <1>1, Zenon DEF Succeeded
  <2>2. CASE out \in Drained(c, cap)
    BY <1>1, <2>2, DrainedLemma
  <2>3. CASE out \in FrameFinished(c, cap)
    BY <1>1, <2>3, FrameFinishedLemma
  <2>4. CASE out \in Encoded(c, m, avail, cap)
    BY <1>1, <2>4, EncodedLemma
  <2> QED BY <2>1, <2>2, <2>3, <2>4
<1>2. CASE ~c.healthy
  BY <1>2, GarbageLemma DEF Succeeded, Complete
<1> QED BY <1>1, <1>2 DEF CCtx

\* A failed call changes nothing but the health of the context.
LEMMA FailedLemma ==
    ASSUME NEW c \in CCtx, WriterWellFormed(c), NEW out \in Failed(c)
    PROVE  /\ out.cctx \in CCtx /\ WriterWellFormed(out.cctx)
           /\ out.took = 0 /\ out.put = 0 /\ out.result = ErrorResult
           /\ out.cctx.fed = c.fed /\ out.cctx.flushed = c.flushed
           /\ out.cctx.generated = c.generated /\ out.cctx.coded = c.coded
           /\ out.cctx.frames = c.frames /\ out.cctx.inFrame = c.inFrame
           /\ ~c.healthy => ~out.cctx.healthy
           /\ Grown(c, out.cctx)
<1>1. PICK h \in {FALSE, c.healthy} :
        out = [cctx |-> [c EXCEPT !.healthy = h], took |-> 0, put |-> 0,
               result |-> ErrorResult]
  BY DEF Failed
<1>2. /\ out.cctx = [c EXCEPT !.healthy = h]
      /\ out.took = 0 /\ out.put = 0 /\ out.result = ErrorResult
  BY <1>1
<1>3. /\ out.cctx \in CCtx /\ out.cctx.fed = c.fed /\ out.cctx.coded = c.coded
      /\ out.cctx.generated = c.generated /\ out.cctx.flushed = c.flushed
      /\ out.cctx.frames = c.frames /\ out.cctx.inFrame = c.inFrame
      /\ out.cctx.ending = c.ending /\ out.cctx.healthy = h
  BY <1>2 DEF CCtx
<1>4. /\ out.cctx.healthy => c.healthy
      /\ Tight(c) => Tight(out.cctx)
      /\ c.inFrame => out.cctx.inFrame
  BY <1>1, <1>3, Zenon DEF Tight
<1>5. Grown(c, out.cctx)
  BY <1>3, <1>4 DEF Grown, CCtx
<1> QED BY <1>2, <1>3, <1>4, <1>5 DEF WriterWellFormed

-----------------------------------------------------------------------------
(* Types and conservation of bytes *)

\* In the loop, inputRemaining is what a compress call entered now would find: skip()
\* and the subtraction go together.  Without this, neither inputRemaining nor the size
\* of inputBuffer is known to stay non-negative.
RemainingExact ==
    writerPc = "compress" => inputRemaining = InitialRemaining(mode, inputBuffer)

\* The inductive invariant for types and conservation.
Conserved == WriterTypeOK /\ WriterNothingLost /\ WriterWellFormed(cctx) /\ RemainingExact

LEMMA InitConserved == WriterInit => Conserved
<1> SUFFICES ASSUME WriterInit PROVE Conserved
  OBVIOUS
<1> USE SegmentSizeAssumption DEF WriterInit, Empty, NewCCtx
<1>1. WriterTypeOK
  <2>1. inputBuffer \in Buffer /\ sinkBuffer \in Buffer
    BY DEF Buffer
  <2>2. cctx \in CCtx
    BY DEF CCtx
  <2>3. compressor \in [open : BOOLEAN, frees : Nat,
                        inputBytesProcessed : Nat \cup {-1},
                        outputBytesProcessed : Nat \cup {-1}]
    OBVIOUS
  <2>4. writerCall \in [op : Operation, outcome : WriterOutcome] /\ mode \in EndDirective
    BY DEF Operation, WriterOutcome, EndDirective
  <2> QED BY <2>1, <2>2, <2>3, <2>4 DEF WriterTypeOK
<1>2. WriterNothingLost /\ WriterWellFormed(cctx) /\ RemainingExact
  BY DEF WriterNothingLost, WriterWellFormed, RemainingExact, Size
<1> QED BY <1>1, <1>2 DEF Conserved

\* The input of an iteration: a part of inputBuffer, of its complete segments when these
\* are all that is to be handed over, and never more than inputRemaining.
LEMMA AvailLemma ==
    ASSUME Conserved, writerPc = "compress",
           NEW avail \in IF inputRemaining > 0 THEN HeadSegment(inputBuffer) ELSE {0}
    PROVE  /\ avail \in 0 .. inputRemaining
           /\ avail =< Size(inputBuffer)
           /\ mode = "ZSTD_e_continue" => avail =< inputBuffer.complete
           /\ (mode # "ZSTD_e_continue" /\ inputBuffer.complete = 0) => avail = inputRemaining
<1>1. /\ inputBuffer \in Buffer /\ inputRemaining \in Nat
      /\ inputRemaining = InitialRemaining(mode, inputBuffer)
  BY DEF Conserved, WriterTypeOK, RemainingExact
<1>2. CASE inputRemaining > 0
  <2>1. avail \in HeadSegment(inputBuffer)
    BY <1>2
  <2>2. /\ avail \in 0 .. Size(inputBuffer)
        /\ inputBuffer.complete > 0 => avail =< inputBuffer.complete
        /\ inputBuffer.complete = 0 => avail = Size(inputBuffer)
    BY <1>1, <2>1, HeadSegmentLemma
  <2> QED BY <1>1, <1>2, <2>2 DEF InitialRemaining, Size, Buffer
<1>3. CASE ~(inputRemaining > 0)
  BY <1>1, <1>3 DEF Size, Buffer
<1> QED BY <1>2, <1>3

\* What any outcome of an iteration's call is known to be.
LEMMA OutcomeLemma ==
    ASSUME Conserved, NEW avail \in Nat, NEW cap \in Capacity(sinkBuffer),
           NEW out \in Outcomes(avail, cap)
    PROVE  /\ out.cctx \in CCtx /\ WriterWellFormed(out.cctx)
           /\ out.took \in 0 .. avail /\ out.put \in 0 .. cap
           /\ out.result \in Nat \cup {ErrorResult}
           /\ out.cctx.fed = cctx.fed + out.took
           /\ out.cctx.flushed = cctx.flushed + out.put
           /\ ~cctx.healthy => ~out.cctx.healthy
           /\ mode # "ZSTD_e_end" => out.cctx.frames = cctx.frames
           /\ out.result # ErrorResult => Complete(cctx, mode, avail, out)
           /\ (out.result # ErrorResult /\ cctx.healthy) => FrameStep(cctx, avail, out)
           /\ out.result = ErrorResult =>
                /\ out.cctx.frames = cctx.frames /\ out.cctx.coded = cctx.coded
                /\ out.cctx.inFrame = cctx.inFrame
           /\ Grown(cctx, out.cctx)
<1>1. /\ cctx \in CCtx /\ WriterWellFormed(cctx) /\ mode \in EndDirective /\ sinkBuffer \in Buffer
      /\ faults \in Nat
  BY DEF Conserved, WriterTypeOK
<1>2. cap \in Nat /\ cap > 0
  BY <1>1, CapacityLemma
<1>3. CASE out \in Succeeded(cctx, mode, avail, cap)
  <2>1. /\ WriterAccounted(cctx, avail, cap, out) /\ Complete(cctx, mode, avail, out)
        /\ ~cctx.healthy => ~out.cctx.healthy
        /\ mode # "ZSTD_e_end" => out.cctx.frames = cctx.frames
        /\ cctx.healthy => FrameStep(cctx, avail, out)
        /\ Grown(cctx, out.cctx)
    BY <1>1, <1>2, <1>3, SucceededLemma
  <2>2. out.result \in Nat /\ out.result # ErrorResult
    BY <2>1 DEF WriterAccounted, ErrorResult
  <2> QED BY <2>1, <2>2 DEF WriterAccounted
<1>4. CASE out \in Failed(cctx)
  BY <1>1, <1>2, <1>4, FailedLemma DEF CCtx, ErrorResult
<1> QED BY <1>3, <1>4, Zenon DEF Outcomes

\* compress() is entered with any buffer b, by write(), flush() or close().
LEMMA CompressLemma ==
    ASSUME NEW op \in Operation, NEW m \in EndDirective, NEW b \in Buffer, Compress(op, m, b)
    PROVE  /\ inputBuffer' = b /\ inputRemaining' \in Nat /\ mode' \in EndDirective
           /\ writerPc' \in {"caller", "compress"}
           /\ writerCall' \in [op : Operation, outcome : WriterOutcome]
           /\ RemainingExact'
BY DEF Compress, InitialRemaining, Buffer, Size, RemainingExact, WriterOutcome

\* Leaving or staying in the loop sets the program counter and the call to proper values.
LEMMA LeaveLemma ==
    ASSUME Conserved, CompressReturns \/ CompressThrows \/ UNCHANGED <<writerPc,
                                                                       writerCall>>
    PROVE  /\ writerPc' \in {"caller", "compress", "flush", "closeCompressor", "closeSink"}
           /\ writerCall' \in [op : Operation, outcome : WriterOutcome]
BY DEF Conserved, WriterTypeOK, CompressReturns, CompressThrows, WriterOutcome, Operation

\* An iteration, with what is known of its call.
IterationOf(avail, cap, out) ==
    /\ avail \in 0 .. inputRemaining /\ avail =< Size(inputBuffer)
    /\ mode = "ZSTD_e_continue" => avail =< inputBuffer.complete
    /\ (mode # "ZSTD_e_continue" /\ inputBuffer.complete = 0) => avail = inputRemaining
    /\ compressor' = WriterCalled(out.took, out.put) /\ cctx' = out.cctx
    /\ inputRemaining' = inputRemaining - out.took
    /\ inputBuffer' = Skip(inputBuffer, out.took)
    /\ EmitReturns(Resized(sinkBuffer, cap, out.put), out.result)
            \/ EmitThrows(Resized(sinkBuffer, cap, out.put))
    /\ UNCHANGED <<writerClosed, sinkClosed, mode, accepted, stale>>

LEMMA IterationLemma ==
    ASSUME Conserved, CompressPass
    PROVE  \E avail \in Nat, cap \in Capacity(sinkBuffer) :
              \E out \in Outcomes(avail, cap) : IterationOf(avail, cap, out)
<1>1. PICK avail \in IF inputRemaining > 0 THEN HeadSegment(inputBuffer) ELSE {0},
           cap \in Capacity(sinkBuffer) : \E o \in Outcomes(avail, cap) : Iteration(avail, cap, o)
  BY DEF CompressPass
<1>2. PICK out \in Outcomes(avail, cap) : Iteration(avail, cap, out)
  BY <1>1
<1>3. /\ writerPc = "compress" /\ inputBuffer \in Buffer /\ inputRemaining \in Nat
      /\ compressor \in [open : BOOLEAN, frees : Nat,
                          inputBytesProcessed : Nat \cup {-1},
                          outputBytesProcessed : Nat \cup {-1}]
  BY DEF Conserved, WriterTypeOK, CompressPass
<1>4. /\ avail \in 0 .. inputRemaining /\ avail =< Size(inputBuffer)
      /\ mode = "ZSTD_e_continue" => avail =< inputBuffer.complete
      /\ (mode # "ZSTD_e_continue" /\ inputBuffer.complete = 0) => avail = inputRemaining
      /\ avail \in Nat
  BY <1>3, AvailLemma
<1>5. /\ compressor' = WriterCalled(out.took, out.put) /\ cctx' = out.cctx
      /\ compressor'.inputBytesProcessed = out.took
      /\ compressor'.outputBytesProcessed = out.put
      /\ UNCHANGED <<writerClosed, sinkClosed, mode, accepted, stale>>
  BY <1>2, <1>3 DEF Iteration, WriterCalled
<1>6. /\ inputRemaining' = inputRemaining - out.took
      /\ inputBuffer' = Skip(inputBuffer, out.took)
      /\ EmitReturns(Resized(sinkBuffer, cap, out.put), out.result)
            \/ EmitThrows(Resized(sinkBuffer, cap, out.put))
  BY <1>2, <1>5 DEF Iteration, RemainingAfter, WriterSkippedInput, WriterKeptOutput
<1> QED BY <1>4, <1>5, <1>6 DEF IterationOf

LEMMA PassConserved ==
    ASSUME Conserved, CompressPass
    PROVE  Conserved' /\ inputRemaining' = InitialRemaining(mode', inputBuffer')
<1>1. PICK avail \in Nat, cap \in Capacity(sinkBuffer) :
        \E out \in Outcomes(avail, cap) : IterationOf(avail, cap, out)
  BY IterationLemma
<1>2. PICK out \in Outcomes(avail, cap) : IterationOf(avail, cap, out)
  BY <1>1
<1> DEFINE b == Resized(sinkBuffer, cap, out.put)
<1>3. /\ writerPc = "compress" /\ inputBuffer \in Buffer /\ sinkBuffer \in Buffer
      /\ inputRemaining \in Nat /\ delivered \in Nat /\ faults \in Nat /\ accepted \in Nat
      /\ mode \in EndDirective /\ cctx \in CCtx
      /\ compressor \in [open : BOOLEAN, frees : Nat,
                          inputBytesProcessed : Nat \cup {-1},
                          outputBytesProcessed : Nat \cup {-1}]
      /\ inputRemaining = InitialRemaining(mode, inputBuffer)
      /\ cctx.fed + Size(inputBuffer) = accepted
      /\ delivered + Size(sinkBuffer) = cctx.flushed
  BY DEF Conserved, WriterTypeOK, WriterNothingLost, RemainingExact, CompressPass
<1>4. /\ avail \in 0 .. inputRemaining /\ avail =< Size(inputBuffer)
      /\ mode = "ZSTD_e_continue" => avail =< inputBuffer.complete
  BY <1>2 DEF IterationOf
<1>5. /\ out.cctx \in CCtx /\ WriterWellFormed(out.cctx)
      /\ out.took \in 0 .. avail /\ out.put \in 0 .. cap
      /\ out.cctx.fed = cctx.fed + out.took
      /\ out.cctx.flushed = cctx.flushed + out.put
  BY OutcomeLemma
<1>6. cap \in Nat /\ cap > 0
  BY <1>3, CapacityLemma
<1>7. /\ compressor' = WriterCalled(out.took, out.put) /\ cctx' = out.cctx
      /\ UNCHANGED <<writerClosed, sinkClosed, mode, accepted, stale>>
  BY <1>2 DEF IterationOf
<1>8. /\ inputRemaining' = inputRemaining - out.took
      /\ inputBuffer' = Skip(inputBuffer, out.took)
      /\ EmitReturns(b, out.result) \/ EmitThrows(b)
  BY <1>2 DEF IterationOf
<1>9. /\ b \in Buffer /\ Size(b) = Size(sinkBuffer) + out.put
  BY <1>3, <1>5, ResizedLemma
<1> HIDE DEF b
<1>10. out.took \in 0 .. Size(inputBuffer) /\ out.took \in Nat
  BY <1>3, <1>4, <1>5 DEF Size, Buffer
<1>11. /\ inputBuffer' \in Buffer /\ Size(inputBuffer') = Size(inputBuffer) - out.took
       /\ out.took =< inputBuffer.complete =>
            inputBuffer'.complete = inputBuffer.complete - out.took
  BY <1>3, <1>8, <1>10, SkipLemma
<1>12. inputRemaining' \in Nat
  BY <1>3, <1>4, <1>5, <1>8
<1>13. inputRemaining' = InitialRemaining(mode', inputBuffer')
  <2>1. CASE mode = "ZSTD_e_continue"
    BY <2>1, <1>3, <1>4, <1>5, <1>7, <1>8, <1>10, <1>11 DEF InitialRemaining, Buffer
  <2>2. CASE mode # "ZSTD_e_continue"
    BY <2>2, <1>3, <1>7, <1>8, <1>11 DEF InitialRemaining
  <2> QED BY <2>1, <2>2
<1>14. /\ sinkBuffer' \in Buffer /\ delivered' \in Nat
       /\ delivered' + Size(sinkBuffer') = delivered + Size(b)
       /\ faults' \in Nat
  <2>1. CASE EmitReturns(b, out.result)
    <3>1. b.complete \in 0 .. Size(b)
      BY <1>9 DEF Buffer, Size
    <3>2. Emitted(b) \in Buffer /\ Size(Emitted(b)) = Size(b) - b.complete
      BY <1>9, <3>1, SkipLemma DEF Emitted
    <3>3. /\ sinkBuffer' = Emitted(b)
          /\ delivered' = delivered + Size(b) - Size(Emitted(b))
          /\ faults' \in {faults, faults + 1}
      BY <2>1 DEF EmitReturns
    <3>4. /\ Size(b) \in Nat /\ b.complete \in Nat /\ Size(Emitted(b)) \in Nat
          /\ Size(Emitted(b)) =< Size(b)
      BY <1>9, <3>1, <3>2 DEF Size, Buffer
    <3> QED BY <1>3, <3>2, <3>3, <3>4
  <2>2. CASE EmitThrows(b)
    <3>1. PICK n \in 0 .. b.complete : sinkBuffer' = Skip(b, n) /\ delivered' = delivered + n
      BY <2>2 DEF EmitThrows
    <3>2. n \in 0 .. Size(b) /\ n \in Nat
      BY <1>9 DEF Buffer, Size
    <3>3. Skip(b, n) \in Buffer /\ Size(Skip(b, n)) = Size(b) - n
      BY <1>9, <3>2, SkipLemma
    <3>4. faults' = faults + 1
      BY <2>2 DEF EmitThrows
    <3> QED BY <1>3, <1>9, <3>1, <3>2, <3>3, <3>4 DEF Size, Buffer
  <2> QED BY <1>8, <2>1, <2>2
<1>15. /\ writerPc' \in {"caller", "compress", "flush", "closeCompressor", "closeSink"}
       /\ writerCall' \in [op : Operation, outcome : WriterOutcome]
  BY <1>8, LeaveLemma DEF EmitReturns, EmitThrows
<1>16. compressor' \in [open : BOOLEAN, frees : Nat,
                         inputBytesProcessed : Nat \cup {-1},
                         outputBytesProcessed : Nat \cup {-1}]
  <2>1. out.took \in Nat \cup {-1} /\ out.put \in Nat \cup {-1}
    BY <1>5, <1>6, <1>10
  <2> QED BY <2>1, <1>3, <1>7 DEF WriterCalled
<1>17. WriterTypeOK'
  BY <1>3, <1>5, <1>7, <1>11, <1>12, <1>14, <1>15, <1>16 DEF Conserved, WriterTypeOK
<1>18. WriterNothingLost'
  BY <1>3, <1>5, <1>6, <1>7, <1>9, <1>10, <1>11, <1>14
     DEF WriterNothingLost, CCtx, Size, Buffer
<1> QED BY <1>5, <1>7, <1>13, <1>17, <1>18 DEF Conserved, RemainingExact

LEMMA WriteConserved ==
    ASSUME Conserved, NEW n \in 0 .. MaxBytes, Write(n) PROVE Conserved'
<1>1. PICK b \in Appended(inputBuffer, n) : Compress("write", "ZSTD_e_continue", b)
  BY DEF Write
<1>2. /\ inputBuffer \in Buffer /\ accepted \in Nat /\ n \in Nat
      /\ cctx.fed + Size(inputBuffer) = accepted /\ cctx \in CCtx
  BY SinkAssumption DEF Conserved, WriterTypeOK, WriterNothingLost
<1>3. b \in Buffer /\ Size(b) = Size(inputBuffer) + n
  BY <1>2, AppendedLemma
<1>4. /\ inputBuffer' = b /\ inputRemaining' \in Nat /\ mode' \in EndDirective
      /\ writerPc' \in {"caller", "compress"}
      /\ writerCall' \in [op : Operation, outcome : WriterOutcome]
      /\ RemainingExact'
  BY <1>1, <1>3, CompressLemma DEF Operation, EndDirective
<1>5. WriterTypeOK'
  BY <1>2, <1>3, <1>4 DEF Conserved, WriterTypeOK, Write
<1>6. WriterNothingLost' /\ WriterWellFormed(cctx)'
  BY <1>2, <1>3, <1>4 DEF Conserved, WriterNothingLost, Write, CCtx, Size, Buffer
<1> QED BY <1>4, <1>5, <1>6 DEF Conserved

LEMMA FlushConserved ==
    ASSUME Conserved, Flush PROVE Conserved'
<1>1. Compress("flush", "ZSTD_e_flush", inputBuffer) /\ inputBuffer \in Buffer
  BY DEF Flush, FlushMode, Conserved, WriterTypeOK
<1>2. /\ inputBuffer' = inputBuffer /\ inputRemaining' \in Nat /\ mode' \in EndDirective
      /\ writerPc' \in {"caller", "compress"}
      /\ writerCall' \in [op : Operation, outcome : WriterOutcome]
      /\ RemainingExact'
  BY <1>1, CompressLemma DEF Operation, EndDirective
<1> QED BY <1>1, <1>2
           DEF Conserved, WriterTypeOK, WriterNothingLost, WriterWellFormed, Flush

LEMMA CloseConserved ==
    ASSUME Conserved, WriterClose PROVE Conserved'
<1>1. Compress("close", "ZSTD_e_end", inputBuffer) /\ inputBuffer \in Buffer
  BY DEF WriterClose, Conserved, WriterTypeOK
<1>2. /\ inputBuffer' = inputBuffer /\ inputRemaining' \in Nat /\ mode' \in EndDirective
      /\ writerPc' \in {"caller", "compress"}
      /\ writerCall' \in [op : Operation, outcome : WriterOutcome]
      /\ RemainingExact'
  BY <1>1, CompressLemma DEF Operation, EndDirective
<1> QED BY <1>1, <1>2
           DEF Conserved, WriterTypeOK, WriterNothingLost, WriterWellFormed, WriterClose,
               WriterClosedOnEntry

\* sink.flush() and sink.close() move bytes from sink.buffer downstream, all or some.
LEMMA DrainSinkLemma ==
    ASSUME Conserved,
           \/ sinkBuffer' = Empty /\ delivered' = delivered + Size(sinkBuffer)
           \/ \E n \in 0 .. Size(sinkBuffer) :
                 sinkBuffer' = Skip(sinkBuffer, n) /\ delivered' = delivered + n
    PROVE  /\ sinkBuffer' \in Buffer /\ delivered' \in Nat
           /\ delivered' + Size(sinkBuffer') = delivered + Size(sinkBuffer)
           /\ sinkBuffer'.complete =< sinkBuffer.complete
<1>1. sinkBuffer \in Buffer /\ delivered \in Nat /\ Size(sinkBuffer) \in Nat
  BY DEF Conserved, WriterTypeOK, Buffer, Size
<1>2. CASE sinkBuffer' = Empty /\ delivered' = delivered + Size(sinkBuffer)
  BY <1>1, <1>2, SegmentSizeAssumption DEF Empty, Buffer, Size
<1>3. CASE \E n \in 0 .. Size(sinkBuffer) :
              sinkBuffer' = Skip(sinkBuffer, n) /\ delivered' = delivered + n
  <2>1. PICK n \in 0 .. Size(sinkBuffer) :
              sinkBuffer' = Skip(sinkBuffer, n) /\ delivered' = delivered + n
    BY <1>3
  <2>2. /\ Skip(sinkBuffer, n) \in Buffer /\ Size(Skip(sinkBuffer, n)) = Size(sinkBuffer) - n
        /\ Skip(sinkBuffer, n).complete =< sinkBuffer.complete
    BY <1>1, <2>1, SkipLemma
  <2> QED BY <1>1, <2>1, <2>2
<1> QED BY <1>2, <1>3

LEMMA FlushSinkConserved ==
    ASSUME Conserved, FlushSink PROVE Conserved'
<1>1. /\ sinkBuffer' \in Buffer /\ delivered' \in Nat
      /\ delivered' + Size(sinkBuffer') = delivered + Size(sinkBuffer)
  BY DrainSinkLemma DEF FlushSink
<1>2. writerCall' \in [op : Operation, outcome : WriterOutcome] /\ faults' \in Nat
  BY DEF FlushSink, Conserved, WriterTypeOK, WriterOutcome
<1>3. WriterTypeOK'
  BY <1>1, <1>2 DEF Conserved, WriterTypeOK, FlushSink
<1> QED BY <1>1, <1>3
           DEF Conserved, WriterNothingLost, WriterWellFormed, RemainingExact, FlushSink

LEMMA CloseSinkConserved ==
    ASSUME Conserved, CloseSink PROVE Conserved'
<1>1. /\ sinkBuffer' \in Buffer /\ delivered' \in Nat
      /\ delivered' + Size(sinkBuffer') = delivered + Size(sinkBuffer)
  BY DrainSinkLemma DEF CloseSink
<1>2. writerCall' \in [op : Operation, outcome : WriterOutcome] /\ faults' \in Nat
  BY DEF CloseSink, Conserved, WriterTypeOK, WriterOutcome
<1>3. WriterTypeOK'
  BY <1>1, <1>2 DEF Conserved, WriterTypeOK, CloseSink
<1> QED BY <1>1, <1>3
           DEF Conserved, WriterNothingLost, WriterWellFormed, RemainingExact, CloseSink

LEMMA CloseCompressorConserved ==
    ASSUME Conserved, CloseCompressor PROVE Conserved'
<1>1. compressor' \in [open : BOOLEAN, frees : Nat,
                        inputBytesProcessed : Nat \cup {-1},
                        outputBytesProcessed : Nat \cup {-1}]
  <2>1. compressor' = WriterFreed(compressor)
    BY DEF CloseCompressor
  <2>2. compressor \in [open : BOOLEAN, frees : Nat,
                        inputBytesProcessed : Nat \cup {-1},
                        outputBytesProcessed : Nat \cup {-1}]
    BY DEF Conserved, WriterTypeOK
  <2>3. compressor.frees + 1 \in Nat
    BY <2>2
  <2> DEFINE n == compressor.frees + 1
  <2>4. compressor' = compressor \/ compressor' = [compressor EXCEPT !.open = FALSE, !.frees = n]
    BY <2>1, Zenon DEF WriterFreed
  <2> HIDE DEF n
  <2>5. n \in Nat
    BY <2>3 DEF n
  <2>6. [compressor EXCEPT !.open = FALSE, !.frees = n]
            \in [open : BOOLEAN, frees : Nat,
                 inputBytesProcessed : Nat \cup {-1},
                 outputBytesProcessed : Nat \cup {-1}]
    BY <2>2, <2>5
  <2> QED BY <2>2, <2>4, <2>6
<1> QED BY <1>1
           DEF CloseCompressor, Conserved, WriterTypeOK, WriterNothingLost,
               WriterWellFormed, RemainingExact

\* The other operations of a closed sink change nothing but call.
LEMMA ClosedConserved ==
    ASSUME Conserved, WriterCloseAgain \/ \E op \in {"write", "flush"} : WriterRejected(op)
    PROVE  Conserved'
BY DEF WriterCloseAgain, WriterRejected, Conserved, WriterTypeOK, WriterNothingLost,
       WriterWellFormed, RemainingExact, Operation, WriterOutcome

LEMMA NextConserved == Conserved /\ [WriterNext]_writerVars => Conserved'
<1> SUFFICES ASSUME Conserved, [WriterNext]_writerVars PROVE Conserved'
  OBVIOUS
<1>1. ASSUME NEW n \in 0 .. MaxBytes, Write(n) PROVE Conserved'
  BY <1>1, WriteConserved
<1>2. CASE Flush
  BY <1>2, FlushConserved
<1>3. CASE WriterClose
  BY <1>3, CloseConserved
<1>4. CASE WriterCloseAgain \/ \E op \in {"write", "flush"} : WriterRejected(op)
  BY <1>4, ClosedConserved
<1>5. CASE CompressPass
  BY <1>5, PassConserved
<1>6. CASE FlushSink
  BY <1>6, FlushSinkConserved
<1>7. CASE CloseCompressor
  BY <1>7, CloseCompressorConserved
<1>8. CASE CloseSink
  BY <1>8, CloseSinkConserved
<1>9. CASE UNCHANGED writerVars
  BY <1>9
     DEF writer, writerVars, Conserved, WriterTypeOK, WriterNothingLost, WriterWellFormed,
         RemainingExact
<1> QED BY <1>1, <1>2, <1>3, <1>4, <1>5, <1>6, <1>7, <1>8, <1>9
        DEF WriterNext, WriterCallerStep, ProgramStep

\* Every variable keeps its type: in particular inputRemaining never goes negative,
\* although it is decremented by what a native call reports.
THEOREM WriterTypeCorrect == WriterSpec => []WriterTypeOK
<1>1. Conserved => WriterTypeOK
  BY DEF Conserved
<1> QED BY InitConserved, NextConserved, <1>1, PTL DEF WriterSpec

\* ZstdCompressSink neither loses nor duplicates a byte, whatever fails and whatever the
\* caller does next.
THEOREM Conservation == WriterSpec => []WriterNothingLost
<1>1. Conserved => WriterNothingLost
  BY DEF Conserved
<1> QED BY InitConserved, NextConserved, <1>1, PTL DEF WriterSpec

-----------------------------------------------------------------------------
(* The handle, the downstream sink and the directives *)

ModeOf(op) ==
    CASE op = "write" -> "ZSTD_e_continue"
      [] op = "flush" -> "ZSTD_e_flush"
      [] OTHER -> "ZSTD_e_end"

\* Which call is under way where, and what is open there.  The last conjunct is why no
\* directive follows ZSTD_e_end: only close() ends a frame, and it sets closed first.
Protocol ==
    /\ WriterResourcesReleased
    /\ writerPc \in {"compress", "flush", "closeCompressor"} =>
            compressor.open /\ compressor.frees = 0 /\ ~sinkClosed
    /\ writerPc = "closeSink" => ~compressor.open /\ compressor.frees = 1 /\ ~sinkClosed
    /\ writerPc = "compress" =>
            /\ writerCall.op \in {"write", "flush", "close"} /\ writerCall.outcome = "running"
            /\ mode = ModeOf(writerCall.op)
            /\ writerClosed <=> writerCall.op = "close"
    /\ writerPc = "flush" => ~writerClosed /\ writerCall.op = "flush"
    /\ writerPc \in {"closeCompressor", "closeSink"} => writerClosed /\ writerCall.op = "close"
    /\ cctx.frames > 0 => writerClosed

LEMMA InitProtocol == WriterInit => Protocol
<1> SUFFICES ASSUME WriterInit PROVE Protocol
  OBVIOUS
<1>1. /\ writerPc = "caller" /\ sinkClosed = FALSE /\ writerClosed = FALSE
      /\ compressor.open = TRUE /\ compressor.frees = 0
      /\ cctx.frames = 0
  BY DEF WriterInit, NewCCtx
<1>2. WriterResourcesReleased
  BY <1>1 DEF WriterResourcesReleased
<1> QED BY <1>1, <1>2 DEF Protocol

LEMMA PassProtocol ==
    ASSUME Conserved, Protocol, CompressPass PROVE Protocol'
<1>1. PICK avail \in Nat, cap \in Capacity(sinkBuffer) :
        \E out \in Outcomes(avail, cap) : IterationOf(avail, cap, out)
  BY IterationLemma
<1>2. PICK out \in Outcomes(avail, cap) : IterationOf(avail, cap, out)
  BY <1>1
<1>3. /\ compressor'.open <=> compressor.open
      /\ compressor'.frees = compressor.frees
      /\ cctx' = out.cctx
      /\ UNCHANGED <<writerClosed, sinkClosed, mode, accepted, stale>>
  BY <1>2 DEF IterationOf, WriterCalled, Conserved, WriterTypeOK
<1>4. mode # "ZSTD_e_end" => cctx'.frames = cctx.frames
  BY <1>3, OutcomeLemma
<1>5. /\ writerPc = "compress" /\ compressor.open /\ compressor.frees = 0 /\ ~sinkClosed
      /\ writerCall.op \in {"write", "flush", "close"} /\ writerCall.outcome = "running"
      /\ mode = ModeOf(writerCall.op) /\ (writerClosed <=> writerCall.op = "close")
      /\ sinkClosed \in BOOLEAN /\ writerClosed \in BOOLEAN
  BY DEF Protocol, CompressPass, Conserved, WriterTypeOK
<1>6. cctx'.frames > 0 => writerClosed'
  BY <1>3, <1>4, <1>5 DEF Protocol, ModeOf
<1>7. CompressReturns \/ CompressThrows \/ UNCHANGED <<writerPc, writerCall>>
  BY <1>2 DEF IterationOf, EmitReturns, EmitThrows
<1>8. writerCall'.op = writerCall.op
  BY <1>7 DEF CompressReturns, CompressThrows, Conserved, WriterTypeOK
<1>9. CASE CompressReturns
  BY <1>3, <1>5, <1>6, <1>8, <1>9 DEF Protocol, WriterResourcesReleased, CompressReturns
<1>10. CASE CompressThrows
  BY <1>3, <1>5, <1>6, <1>8, <1>10 DEF Protocol, WriterResourcesReleased, CompressThrows
<1>11. CASE UNCHANGED <<writerPc, writerCall>>
  BY <1>3, <1>5, <1>6, <1>11 DEF Protocol, WriterResourcesReleased
<1> QED BY <1>7, <1>9, <1>10, <1>11

LEMMA NextProtocol == Conserved /\ Protocol /\ [WriterNext]_writerVars => Protocol'
<1> SUFFICES ASSUME Conserved, Protocol, [WriterNext]_writerVars PROVE Protocol'
  OBVIOUS
<1>0. /\ writerClosed \in BOOLEAN /\ sinkClosed \in BOOLEAN
      /\ compressor \in [open : BOOLEAN, frees : Nat,
                          inputBytesProcessed : Nat \cup {-1},
                          outputBytesProcessed : Nat \cup {-1}]
      /\ writerCall \in [op : Operation, outcome : WriterOutcome]
  BY DEF Conserved, WriterTypeOK
<1>1. ASSUME NEW n \in 0 .. MaxBytes, Write(n) PROVE Protocol'
  BY <1>0, <1>1 DEF Write, Compress, Protocol, WriterResourcesReleased, ModeOf
<1>2. CASE Flush
  BY <1>0, <1>2 DEF Flush, FlushMode, Compress, Protocol, WriterResourcesReleased, ModeOf
<1>3. CASE WriterClose
  BY <1>0, <1>3
     DEF WriterClose, WriterClosedOnEntry, Compress, Protocol, WriterResourcesReleased,
         ModeOf
<1>4. CASE WriterCloseAgain \/ \E op \in {"write", "flush"} : WriterRejected(op)
  BY <1>0, <1>4 DEF WriterCloseAgain, WriterRejected, Protocol, WriterResourcesReleased
<1>5. CASE CompressPass
  BY <1>5, PassProtocol
<1>6. CASE FlushSink
  BY <1>0, <1>6 DEF FlushSink, Protocol, WriterResourcesReleased
<1>7. CASE CloseCompressor
  BY <1>0, <1>7 DEF CloseCompressor, WriterFreed, Protocol, WriterResourcesReleased
<1>8. CASE CloseSink
  BY <1>0, <1>8 DEF CloseSink, Protocol, WriterResourcesReleased
<1>9. CASE UNCHANGED writerVars
  BY <1>9 DEF writer, writerVars, Protocol, WriterResourcesReleased
<1> QED BY <1>1, <1>2, <1>3, <1>4, <1>5, <1>6, <1>7, <1>8, <1>9
        DEF WriterNext, WriterCallerStep, ProgramStep

\* However a close() ends, the native context is freed once and the downstream sink is
\* closed; before it, neither is.
THEOREM WriterReleased == WriterSpec => []WriterResourcesReleased
<1>1. Protocol => WriterResourcesReleased
  BY DEF Protocol
<1> QED BY InitConserved, NextConserved, InitProtocol, NextProtocol, <1>1, PTL
           DEF WriterSpec

\* The steps that WriterNoUseAfterClose and EndDirectiveFinal allow.
UsesOpen ==
    /\ cctx' # cctx => compressor.open
    /\ delivered' # delivered => ~sinkClosed

DirectsInOrder == (cctx.frames > 0 /\ cctx' # cctx) => mode = "ZSTD_e_end"

LEMMA StepUsesOpen == Protocol /\ [WriterNext]_writerVars => UsesOpen
<1> SUFFICES ASSUME Protocol, [WriterNext]_writerVars PROVE UsesOpen
  OBVIOUS
<1>1. CASE CompressPass \/ FlushSink \/ CloseSink
  BY <1>1 DEF CompressPass, FlushSink, CloseSink, Protocol, UsesOpen
<1>2. CASE UNCHANGED <<cctx, delivered>>
  BY <1>2 DEF UsesOpen
<1> QED BY <1>1, <1>2
           DEF WriterNext, WriterCallerStep, ProgramStep, Write, Flush, WriterClose,
               WriterCloseAgain, WriterRejected, CloseCompressor, writer, writerVars

LEMMA StepDirects == Protocol /\ [WriterNext]_writerVars => DirectsInOrder
<1> SUFFICES ASSUME Protocol, [WriterNext]_writerVars PROVE DirectsInOrder
  OBVIOUS
<1>1. CASE CompressPass
  BY <1>1 DEF CompressPass, Protocol, ModeOf, DirectsInOrder
<1>2. CASE UNCHANGED cctx
  BY <1>2 DEF DirectsInOrder
<1> QED BY <1>1, <1>2
           DEF WriterNext, WriterCallerStep, ProgramStep, Write, Flush, WriterClose,
               WriterCloseAgain, WriterRejected, CloseCompressor, FlushSink, CloseSink,
               writer, writerVars

\* compressStream2 is never called with a zeroed handle, nor is a closed sink written to.
THEOREM WriterUseBeforeClose == WriterSpec => WriterNoUseAfterClose
BY InitConserved, NextConserved, InitProtocol, NextProtocol, StepUsesOpen, PTL
   DEF WriterSpec, WriterNoUseAfterClose, UsesOpen

\* Once a frame was ended no directive but ZSTD_e_end reaches zstd.
THEOREM FinalDirective == WriterSpec => EndDirectiveFinal
BY InitConserved, NextConserved, InitProtocol, NextProtocol, StepDirects, PTL
   DEF WriterSpec, EndDirectiveFinal, DirectsInOrder

-----------------------------------------------------------------------------
(* What flush() and close() promise *)

AllCoded == cctx.coded = accepted /\ cctx.generated = cctx.flushed

LastFrameClosed == cctx.frames > 0 /\ ~cctx.inFrame /\ ~cctx.ending

\* What compress() has achieved when it returned, carried to the end of the call.
Delivery ==
    /\ (writerPc = "flush" /\ cctx.healthy) => AllCoded
    /\ writerPc \in {"closeCompressor", "closeSink"} => writerCall.outcome # "returned"
    /\ (/\ writerPc \in {"closeCompressor", "closeSink"}
        /\ cctx.healthy /\ writerCall.outcome = "running")
            => AllCoded /\ LastFrameClosed
    /\ FlushDelivers
    /\ CloseDelivers

LEMMA InitDelivery == WriterInit => Delivery
<1> SUFFICES ASSUME WriterInit PROVE Delivery
  OBVIOUS
<1>1. writerPc = "caller" /\ writerCall.op = "none"
  BY DEF WriterInit
<1>2. FlushDelivers /\ CloseDelivers
  BY <1>1 DEF FlushDelivers, CloseDelivers
<1> QED BY <1>1, <1>2 DEF Delivery

\* An iteration that ends the loop of flush() or close() has had everything coded: its
\* input was all that remained, zstd took it, and reported nothing pending.
LEMMA FinishedLemma ==
    ASSUME Conserved, Conserved', inputRemaining' = InitialRemaining(mode', inputBuffer'),
           NEW avail \in Nat, NEW cap \in Capacity(sinkBuffer),
           NEW out \in Outcomes(avail, cap), IterationOf(avail, cap, out), writerPc = "compress",
           out.result # ErrorResult, Finished(mode, inputRemaining', out.result),
           mode # "ZSTD_e_continue", cctx'.healthy
    PROVE  AllCoded' /\ (mode = "ZSTD_e_end" => LastFrameClosed')
<1>1. /\ out.took \in 0 .. avail /\ avail \in 0 .. inputRemaining
      /\ inputRemaining' = inputRemaining - out.took /\ inputRemaining \in Nat
      /\ cctx' = out.cctx /\ mode' = mode
  BY OutcomeLemma DEF IterationOf, Conserved, WriterTypeOK
<1>2. inputRemaining' = 0 /\ out.result = 0
  BY DEF Finished
<1>3. out.took = avail
  BY <1>1, <1>2
<1>4. cctx.healthy
  BY <1>1, OutcomeLemma DEF Conserved, WriterTypeOK, CCtx
<1>5. /\ cctx'.coded = cctx'.fed /\ cctx'.generated = cctx'.flushed
      /\ mode = "ZSTD_e_end" => LastFrameClosed'
  <2>1. Complete(cctx, mode, avail, out)
    BY OutcomeLemma
  <2> QED BY <1>1, <1>2, <1>3, <1>4, <2>1 DEF Complete, LastFrameClosed
<1>6. Size(inputBuffer)' = 0 /\ cctx'.fed + Size(inputBuffer)' = accepted'
  BY <1>1, <1>2 DEF Conserved, WriterNothingLost, InitialRemaining
<1>7. cctx'.fed \in Nat /\ Size(inputBuffer') = Size(inputBuffer)'
  BY DEF Conserved, WriterTypeOK, CCtx
<1> QED BY <1>5, <1>6, <1>7 DEF AllCoded, Conserved, WriterTypeOK

LEMMA PassDelivery ==
    ASSUME Conserved, Protocol, CompressPass PROVE Delivery'
<1>1. PICK avail \in Nat, cap \in Capacity(sinkBuffer) :
        \E out \in Outcomes(avail, cap) : IterationOf(avail, cap, out)
  BY IterationLemma
<1>2. PICK out \in Outcomes(avail, cap) : IterationOf(avail, cap, out)
  BY <1>1
<1>3. /\ writerPc = "compress" /\ writerCall.op \in {"write", "flush", "close"}
      /\ writerCall.outcome = "running" /\ mode = ModeOf(writerCall.op)
      /\ writerCall \in [op : Operation, outcome : WriterOutcome]
  BY DEF CompressPass, Protocol, Conserved, WriterTypeOK
<1>4. Conserved' /\ inputRemaining' = InitialRemaining(mode', inputBuffer')
  BY PassConserved
<1>5. CASE CompressThrows
  <2>1. /\ writerCall'.op = writerCall.op /\ writerCall'.outcome = "IOException"
        /\ writerPc' # "flush"
    BY <1>3, <1>5 DEF CompressThrows
  <2> QED BY <2>1 DEF Delivery, FlushDelivers, CloseDelivers
<1>6. CASE UNCHANGED <<writerPc, writerCall>>
  BY <1>3, <1>6 DEF Delivery, FlushDelivers, CloseDelivers
<1>7. CASE /\ CompressReturns
           /\ out.result # ErrorResult
           /\ Finished(mode, inputRemaining', out.result)
  <2>1. CASE writerCall.op = "write"
    <3>1. writerPc' = "caller" /\ writerCall'.op = "write"
      BY <1>3, <1>7, <2>1 DEF CompressReturns
    <3> QED BY <3>1 DEF Delivery, FlushDelivers, CloseDelivers
  <2>2. CASE writerCall.op = "flush"
    <3>1. writerPc' = "flush"
      BY <1>3, <1>7, <2>2 DEF CompressReturns
    <3>2. mode = "ZSTD_e_flush"
      BY <1>3, <2>2 DEF ModeOf
    <3>3. cctx'.healthy => AllCoded'
      BY <1>2, <1>3, <1>4, <1>7, <3>2, FinishedLemma
    <3> QED BY <3>1, <3>3 DEF Delivery, FlushDelivers, CloseDelivers
  <2>3. CASE writerCall.op = "close"
    <3>1. writerPc' = "closeCompressor" /\ writerCall' = writerCall
      BY <1>3, <1>7, <2>3 DEF CompressReturns
    <3>2. mode = "ZSTD_e_end"
      BY <1>3, <2>3 DEF ModeOf
    <3>3. cctx'.healthy => AllCoded' /\ LastFrameClosed'
      BY <1>2, <1>3, <1>4, <1>7, <3>2, FinishedLemma
    <3> QED BY <1>3, <3>1, <3>3 DEF Delivery, FlushDelivers, CloseDelivers
  <2> QED BY <1>3, <2>1, <2>2, <2>3
<1> QED BY <1>2, <1>5, <1>6, <1>7 DEF IterationOf, EmitReturns, EmitThrows

LEMMA NextDelivery == Conserved /\ Protocol /\ Delivery /\ [WriterNext]_writerVars => Delivery'
<1> SUFFICES ASSUME Conserved, Protocol, Delivery, [WriterNext]_writerVars PROVE Delivery'
  OBVIOUS
<1>0. /\ writerCall \in [op : Operation, outcome : WriterOutcome] /\ cctx \in CCtx
      /\ delivered + Size(sinkBuffer) = cctx.flushed
  BY DEF Conserved, WriterTypeOK, WriterNothingLost
<1>1. ASSUME NEW n \in 0 .. MaxBytes, Write(n) PROVE Delivery'
  <2>1. writerPc' \in {"caller", "compress"} /\ writerCall'.op = "write"
    BY <1>1 DEF Write, Compress
  <2> QED BY <2>1 DEF Delivery, FlushDelivers, CloseDelivers
<1>2. CASE Flush \/ WriterClose
  <2>1. writerPc' = "compress"
    BY <1>2 DEF Flush, WriterClose, FlushMode, Compress
  <2> QED BY <2>1 DEF Delivery, FlushDelivers, CloseDelivers
<1>3. CASE WriterCloseAgain
  <2>1. writerPc' = "caller" /\ writerCall'.op = "closeAgain"
    BY <1>3 DEF WriterCloseAgain
  <2> QED BY <2>1 DEF Delivery, FlushDelivers, CloseDelivers
<1>4. CASE \E op \in {"write", "flush"} : WriterRejected(op)
  <2>1. writerPc' = "caller" /\ writerCall'.outcome = "IllegalStateException"
    BY <1>4 DEF WriterRejected
  <2> QED BY <2>1 DEF Delivery, FlushDelivers, CloseDelivers
<1>5. CASE CompressPass
  BY <1>5, PassDelivery
<1>6. CASE FlushSink
  <2>1. /\ writerPc = "flush" /\ writerPc' = "caller"
        /\ writerCall.op = "flush" /\ writerCall'.op = writerCall.op
        /\ UNCHANGED <<cctx, accepted>>
    BY <1>0, <1>6 DEF FlushSink, Protocol
  <2>2. cctx.healthy => AllCoded
    BY <2>1 DEF Delivery
  <2>3. writerCall'.outcome = "returned" => delivered' = cctx.flushed
    BY <1>0, <1>6 DEF FlushSink
  <2> QED BY <2>1, <2>2, <2>3 DEF Delivery, FlushDelivers, CloseDelivers, AllCoded
<1>7. CASE CloseCompressor
  <2>1. writerPc = "closeCompressor" /\ writerPc' = "closeSink" /\ UNCHANGED <<cctx,
                                                                               accepted,
                                                                               writerCall>>
    BY <1>7 DEF CloseCompressor
  <2> QED BY <2>1
          DEF Delivery, FlushDelivers, CloseDelivers, AllCoded, LastFrameClosed
<1>8. CASE CloseSink
  <2>1. /\ writerPc = "closeSink" /\ writerPc' = "caller"
        /\ writerCall.op = "close" /\ writerCall'.op = writerCall.op
        /\ UNCHANGED <<cctx, accepted>>
    BY <1>0, <1>8 DEF CloseSink, Protocol
  <2>2. writerCall'.outcome = "returned" =>
            writerCall.outcome \in {"running", "returned"} /\ delivered' = cctx.flushed
    BY <1>0, <1>8 DEF CloseSink
  <2>3. (cctx.healthy /\ writerCall'.outcome = "returned") => AllCoded /\ LastFrameClosed
    BY <2>1, <2>2 DEF Delivery
  <2> QED BY <2>1, <2>2, <2>3
          DEF Delivery, FlushDelivers, CloseDelivers, AllCoded, LastFrameClosed
<1>9. CASE UNCHANGED writerVars
  BY <1>9 DEF writer, writerVars, Delivery, FlushDelivers, CloseDelivers, AllCoded, LastFrameClosed
<1> QED BY <1>1, <1>2, <1>3, <1>4, <1>5, <1>6, <1>7, <1>8, <1>9
        DEF WriterNext, WriterCallerStep, ProgramStep

\* After a flush() that returned, everything written so far has been coded and has left
\* sink.buffer, whatever failed before.
THEOREM FlushPromise == WriterSpec => []FlushDelivers
<1>1. Delivery => FlushDelivers
  BY DEF Delivery
<1> QED BY InitConserved, NextConserved, InitProtocol, NextProtocol, InitDelivery,
           NextDelivery, <1>1, PTL DEF WriterSpec

\* After a close() that returned the same holds, and the last frame is closed.
THEOREM ClosePromise == WriterSpec => []CloseDelivers
<1>1. Delivery => CloseDelivers
  BY DEF Delivery
<1> QED BY InitConserved, NextConserved, InitProtocol, NextProtocol, InitDelivery,
           NextDelivery, <1>1, PTL DEF WriterSpec

-----------------------------------------------------------------------------
(* Memory *)

LEMMA InitBounded == WriterInit => BoundedBuffers
<1> SUFFICES ASSUME WriterInit PROVE BoundedBuffers
  OBVIOUS
<1>1. sinkBuffer.complete = 0 /\ faults = 0 /\ writerCall.op = "none"
  BY DEF WriterInit, Empty
<1> QED BY <1>1, SegmentSizeAssumption DEF BoundedBuffers

\* A segment for each failure: the bound never shrinks, and grows by one segment.
LEMMA SegmentsLemma ==
    ASSUME NEW f \in Nat
    PROVE  /\ SegmentSize * f \in Nat
           /\ SegmentSize * (f + 1) = SegmentSize * f + SegmentSize
BY SegmentSizeAssumption

LEMMA PassBounded ==
    ASSUME Conserved, Protocol, BoundedBuffers, CompressPass PROVE BoundedBuffers'
<1>1. PICK avail \in Nat, cap \in Capacity(sinkBuffer) :
        \E out \in Outcomes(avail, cap) : IterationOf(avail, cap, out)
  BY IterationLemma
<1>2. PICK out \in Outcomes(avail, cap) : IterationOf(avail, cap, out)
  BY <1>1
<1> DEFINE b == Resized(sinkBuffer, cap, out.put)
<1>3. /\ sinkBuffer \in Buffer /\ faults \in Nat /\ writerPc = "compress"
      /\ writerCall.outcome = "running" /\ mode = ModeOf(writerCall.op)
      /\ writerCall \in [op : Operation, outcome : WriterOutcome]
      /\ sinkBuffer.complete =< SegmentSize * faults
      /\ sinkBuffer.complete \in Nat
  BY DEF Conserved, WriterTypeOK, CompressPass, Protocol, BoundedBuffers, Buffer
<1>4. /\ b \in Buffer /\ b.complete =< sinkBuffer.complete + SegmentSize
      /\ b.complete \in Nat /\ b.complete =< Size(b)
  BY <1>3, OutcomeLemma, ResizedLemma DEF Buffer, Size
<1>5. EmitReturns(b, out.result) \/ EmitThrows(b)
  BY <1>2 DEF IterationOf
<1> HIDE DEF b
<1>6. sinkBuffer'.complete =< SegmentSize * faults'
  <2>1. CASE EmitReturns(b, out.result)
    <3>1. sinkBuffer' = Skip(b, b.complete) /\ faults' \in Nat
      BY <1>3, <2>1 DEF EmitReturns, Emitted
    <3>2. b.complete \in 0 .. Size(b)
      BY <1>4 DEF Size, Buffer
    <3>3. sinkBuffer'.complete = 0
      BY <1>4, <3>1, <3>2, SkipLemma
    <3> QED BY <3>1, <3>3, SegmentsLemma
  <2>2. CASE EmitThrows(b)
    <3>1. PICK n \in 0 .. b.complete : sinkBuffer' = Skip(b, n)
      BY <2>2 DEF EmitThrows
    <3>2. n \in 0 .. Size(b)
      BY <1>4 DEF Size, Buffer
    <3>3. sinkBuffer'.complete =< b.complete /\ sinkBuffer' \in Buffer
      BY <1>4, <3>1, <3>2, SkipLemma
    <3>4. faults' = faults + 1
      BY <2>2 DEF EmitThrows
    <3>5. sinkBuffer'.complete \in Nat /\ SegmentSize \in Nat
      BY <3>3, SegmentSizeAssumption DEF Buffer
    <3> QED BY <1>3, <1>4, <3>3, <3>4, <3>5, SegmentsLemma
  <2> QED BY <1>5, <2>1, <2>2
<1>7. ASSUME writerPc' = "caller", writerCall'.op = "write", writerCall'.outcome = "returned"
      PROVE  inputBuffer'.complete = 0
  <2>1. CompressReturns /\ Finished(mode, inputRemaining', out.result)
    BY <1>3, <1>5, <1>7 DEF EmitReturns, EmitThrows, CompressThrows
  <2>2. writerCall.op = "write" /\ inputRemaining' = 0
    BY <1>3, <1>7, <2>1 DEF CompressReturns, Finished
  <2>3. mode' = "ZSTD_e_continue"
    BY <1>2, <1>3, <2>2 DEF IterationOf, ModeOf
  <2>4. inputRemaining' = InitialRemaining(mode', inputBuffer')
    BY PassConserved
  <2> QED BY <2>2, <2>3, <2>4 DEF InitialRemaining
<1> QED BY <1>6, <1>7 DEF BoundedBuffers

LEMMA NextBounded ==
    Conserved /\ Protocol /\ BoundedBuffers /\ [WriterNext]_writerVars => BoundedBuffers'
<1> SUFFICES ASSUME Conserved, Protocol, BoundedBuffers, [WriterNext]_writerVars
             PROVE  BoundedBuffers'
  OBVIOUS
<1>0. /\ writerCall \in [op : Operation, outcome : WriterOutcome] /\ faults \in Nat
      /\ sinkBuffer.complete \in Nat /\ sinkBuffer.complete =< SegmentSize * faults
      /\ SegmentSize \in Nat
  BY SegmentSizeAssumption DEF Conserved, WriterTypeOK, BoundedBuffers, Buffer
<1>1. ASSUME NEW n \in 0 .. MaxBytes, Write(n) PROVE BoundedBuffers'
  <2>1. PICK b \in Appended(inputBuffer, n) : Compress("write", "ZSTD_e_continue", b)
    BY <1>1 DEF Write
  <2>2. writerPc' = "caller" => inputBuffer'.complete = 0
    BY <2>1 DEF Compress, InitialRemaining
  <2> QED BY <1>0, <1>1, <2>2 DEF Write, BoundedBuffers
<1>2. CASE Flush \/ WriterClose
  <2>1. writerPc' = "compress" /\ UNCHANGED <<sinkBuffer, faults>>
    BY <1>2 DEF Flush, WriterClose, FlushMode, Compress
  <2> QED BY <1>0, <2>1 DEF BoundedBuffers
<1>3. CASE WriterCloseAgain
  <2>1. writerCall'.op = "closeAgain" /\ UNCHANGED <<sinkBuffer, faults>>
    BY <1>3 DEF WriterCloseAgain
  <2> QED BY <1>0, <2>1 DEF BoundedBuffers
<1>4. CASE \E op \in {"write", "flush"} : WriterRejected(op)
  <2>1. writerCall'.outcome = "IllegalStateException" /\ UNCHANGED <<sinkBuffer, faults>>
    BY <1>4 DEF WriterRejected
  <2> QED BY <1>0, <2>1 DEF BoundedBuffers
<1>5. CASE CompressPass
  BY <1>5, PassBounded
<1>6. CASE FlushSink \/ CloseSink
  <2>1. sinkBuffer'.complete =< sinkBuffer.complete /\ sinkBuffer' \in Buffer
    BY <1>6, DrainSinkLemma DEF FlushSink, CloseSink
  <2>2. faults' \in {faults, faults + 1}
    BY <1>6 DEF FlushSink, CloseSink
  <2>3. writerCall'.op = writerCall.op /\ writerCall.op # "write"
    BY <1>0, <1>6 DEF FlushSink, CloseSink, Protocol
  <2>4. sinkBuffer'.complete \in Nat
    BY <2>1 DEF Buffer
  <2>5. /\ SegmentSize * faults \in Nat
        /\ SegmentSize * (faults + 1) = SegmentSize * faults + SegmentSize
    BY <1>0, SegmentsLemma
  <2>6. sinkBuffer'.complete =< SegmentSize * faults'
    <3>1. CASE faults' = faults
      BY <1>0, <2>1, <2>4, <2>5, <3>1
    <3>2. CASE faults' = faults + 1
      <4>1. sinkBuffer'.complete =< SegmentSize * faults + SegmentSize
        BY <1>0, <2>1, <2>4, <2>5
      <4> QED BY <2>5, <3>2, <4>1
    <3> QED BY <2>2, <3>1, <3>2
  <2> QED BY <2>3, <2>6 DEF BoundedBuffers
<1>7. CASE CloseCompressor
  BY <1>0, <1>7 DEF CloseCompressor, BoundedBuffers
<1>8. CASE UNCHANGED writerVars
  BY <1>8 DEF writer, writerVars, BoundedBuffers
<1> QED BY <1>1, <1>2, <1>3, <1>4, <1>5, <1>6, <1>7, <1>8
        DEF WriterNext, WriterCallerStep, ProgramStep

\* sink.buffer holds less than a segment, and one more for each failure; a write() that
\* returned leaves less than a segment in inputBuffer.
THEOREM Memory == WriterSpec => []BoundedBuffers
BY InitConserved, NextConserved, InitProtocol, NextProtocol, InitBounded, NextBounded, PTL
   DEF WriterSpec

-----------------------------------------------------------------------------
(* The frame *)

\* A close() that found no complete segment hands over all its input in one call, so that
\* the call that ends the frame ends the data; after it, the frame's rest is all there is
\* to do in the loop.
Whole ==
    /\ FrameIsWhole
    /\ (writerClosed /\ ~stale) => inputBuffer.complete = 0
    /\ (writerPc = "compress" /\ cctx.frames > 0 /\ cctx.healthy /\ ~stale) => cctx.ending

LEMMA InitWhole == WriterInit => Whole
<1> SUFFICES ASSUME WriterInit PROVE Whole
  OBVIOUS
<1>1. writerPc = "caller" /\ writerClosed = FALSE /\ cctx.frames = 0
  BY DEF WriterInit, NewCCtx
<1> QED BY <1>1 DEF Whole, FrameIsWhole

LEMMA PassWhole ==
    ASSUME Conserved, Protocol, Whole, CompressPass PROVE Whole'
<1>1. PICK avail \in Nat, cap \in Capacity(sinkBuffer) :
        \E out \in Outcomes(avail, cap) : IterationOf(avail, cap, out)
  BY IterationLemma
<1>2. PICK out \in Outcomes(avail, cap) : IterationOf(avail, cap, out)
  BY <1>1
<1>3. /\ writerPc = "compress" /\ inputBuffer \in Buffer /\ cctx \in CCtx /\ WriterWellFormed(cctx)
      /\ inputRemaining \in Nat /\ inputRemaining = InitialRemaining(mode, inputBuffer)
      /\ cctx.fed + Size(inputBuffer) = accepted
      /\ writerCall.op \in {"write", "flush", "close"} /\ mode = ModeOf(writerCall.op)
      /\ writerClosed <=> writerCall.op = "close"
  BY DEF CompressPass, Conserved, WriterTypeOK, WriterNothingLost, RemainingExact, Protocol
<1>4. /\ cctx' = out.cctx /\ inputRemaining' = inputRemaining - out.took
      /\ inputBuffer' = Skip(inputBuffer, out.took)
      /\ writerClosed' = writerClosed /\ stale' = stale /\ mode' = mode /\ accepted' = accepted
      /\ out.took \in 0 .. avail /\ avail \in 0 .. inputRemaining
      /\ avail =< Size(inputBuffer) /\ Size(inputBuffer) \in Nat
  BY <1>2, <1>3, OutcomeLemma DEF IterationOf, Buffer, Size
<1>5. (writerClosed /\ ~stale) => inputBuffer.complete = 0
  BY DEF Whole
<1>6. inputBuffer'.complete =< inputBuffer.complete /\ inputBuffer' \in Buffer
  <2>1. out.took \in 0 .. Size(inputBuffer)
    BY <1>3, <1>4
  <2> QED BY <1>3, <1>4, <2>1, SkipLemma
<1>7. (writerClosed' /\ ~stale') => inputBuffer'.complete = 0
  BY <1>3, <1>4, <1>5, <1>6 DEF Buffer
<1> SUFFICES ASSUME cctx'.frames > 0, cctx'.healthy, ~stale'
             PROVE  /\ cctx'.frames = 1 /\ ~cctx'.inFrame /\ cctx'.coded = accepted'
                    /\ writerPc' = "compress" => cctx'.ending
  BY <1>7 DEF Whole, FrameIsWhole
<1>8. /\ cctx.healthy /\ ~stale /\ writerClosed /\ mode = "ZSTD_e_end"
      /\ writerCall.op = "close" /\ inputBuffer.complete = 0
      /\ avail = inputRemaining /\ inputRemaining = Size(inputBuffer)
  <2>1. cctx.healthy /\ ~stale
    BY <1>3, <1>4, OutcomeLemma DEF CCtx
  <2>2. writerClosed /\ writerCall.op = "close"
    BY <1>3, <1>4, OutcomeLemma DEF Protocol, ModeOf
  <2> QED BY <2>1, <2>2, <1>2, <1>3, <1>5 DEF ModeOf, InitialRemaining, IterationOf
<1>9. \/ EmitReturns(Resized(sinkBuffer, cap, out.put), out.result)
      \/ EmitThrows(Resized(sinkBuffer, cap, out.put))
  BY <1>2 DEF IterationOf
\* What the context held before this iteration, if its frame was ended then.
<1>10. ASSUME cctx.frames > 0
       PROVE  /\ cctx.frames = 1 /\ ~cctx.inFrame /\ cctx.coded = accepted /\ cctx.ending
              /\ inputRemaining = 0
  <2>1. /\ cctx.frames = 1 /\ ~cctx.inFrame /\ cctx.coded = accepted /\ cctx.ending
    BY <1>3, <1>8, <1>10 DEF Whole, FrameIsWhole
  <2>2. cctx.coded = cctx.fed /\ cctx.fed \in Nat
    BY <1>3, <1>8, <2>1 DEF WriterWellFormed, CCtx
  <2> QED BY <1>3, <1>4, <1>8, <2>1, <2>2
<1>11. CASE out.result = ErrorResult
  <2>1. cctx'.frames = cctx.frames /\ cctx'.coded = cctx.coded /\ cctx'.inFrame = cctx.inFrame
    BY <1>4, <1>11, OutcomeLemma
  <2>2. writerPc' # "compress"
    BY <1>8, <1>9, <1>11 DEF EmitReturns, EmitThrows, CompressThrows
  <2> QED BY <1>4, <1>10, <2>1, <2>2
<1>12. CASE out.result # ErrorResult
  <2>1. FrameStep(cctx, avail, out)
    BY <1>8, <1>12, OutcomeLemma
  <2>2. CASE out.cctx.frames = cctx.frames
    <3>1. cctx.frames > 0
      BY <1>4, <2>2
    <3>2. /\ cctx'.coded = cctx.coded /\ (cctx'.inFrame <=> cctx.inFrame)
          /\ out.result = 0 \/ cctx'.ending
      BY <1>4, <1>10, <2>1, <2>2, <3>1 DEF FrameStep, CCtx
    <3>3. inputRemaining' = 0
      BY <1>4, <1>10, <3>1
    <3>4. writerPc' = "compress" => cctx'.ending
      BY <1>3, <1>8, <1>9, <1>12, <3>2, <3>3
         DEF EmitReturns, EmitThrows, Finished, CompressReturns, CompressThrows
    <3> QED BY <1>4, <1>10, <2>2, <3>1, <3>2, <3>4
  <2>3. CASE out.cctx.frames # cctx.frames
    <3>1. /\ ~cctx.ending /\ cctx'.frames = cctx.frames + 1 /\ ~cctx'.inFrame
          /\ cctx'.coded = cctx'.fed /\ out.took = avail
          /\ out.result = 0 \/ cctx'.ending
      BY <1>4, <2>1, <2>3 DEF FrameStep
    <3>2. cctx.frames = 0
      BY <1>3, <1>10, <3>1 DEF CCtx
    <3>3. inputRemaining' = 0
      BY <1>4, <1>8, <3>1
    <3>4. cctx'.fed = cctx.fed + out.took
      BY <1>4, OutcomeLemma
    <3>5. cctx'.coded = accepted'
      BY <1>3, <1>4, <1>8, <3>1, <3>4
    <3>6. writerPc' = "compress" => cctx'.ending
      BY <1>3, <1>8, <1>9, <1>12, <3>1, <3>3
         DEF EmitReturns, EmitThrows, Finished, CompressReturns, CompressThrows
    <3> QED BY <3>1, <3>2, <3>5, <3>6
  <2> QED BY <2>2, <2>3
<1> QED BY <1>11, <1>12

LEMMA NextWhole == Conserved /\ Protocol /\ Whole /\ [WriterNext]_writerVars => Whole'
<1> SUFFICES ASSUME Conserved, Protocol, Whole, [WriterNext]_writerVars PROVE Whole'
  OBVIOUS
<1>0. /\ cctx \in CCtx /\ writerClosed \in BOOLEAN /\ inputBuffer.complete \in Nat
      /\ cctx.frames > 0 => writerClosed
      /\ writerPc = "caller" => (sinkClosed <=> writerClosed)
  BY DEF Conserved, WriterTypeOK, Buffer, Protocol, WriterResourcesReleased
<1>1. ASSUME NEW n \in 0 .. MaxBytes, Write(n) PROVE Whole'
  <2>1. ~writerClosed /\ UNCHANGED <<writerClosed, cctx>>
    BY <1>1 DEF Write
  <2>2. ~(cctx.frames > 0)
    BY <1>0, <2>1
  <2> QED BY <2>1, <2>2 DEF Whole, FrameIsWhole
<1>2. CASE Flush
  <2>1. ~writerClosed /\ UNCHANGED <<writerClosed, cctx>>
    BY <1>2 DEF Flush
  <2>2. ~(cctx.frames > 0)
    BY <1>0, <2>1
  <2> QED BY <2>1, <2>2 DEF Whole, FrameIsWhole
<1>3. CASE WriterClose
  <2>1. ~writerClosed /\ cctx' = cctx /\ inputBuffer' = inputBuffer
    BY <1>3 DEF WriterClose, Compress
  <2>2. ~(cctx.frames > 0)
    BY <1>0, <2>1
  <2>3. ~stale' => ~(inputBuffer.complete > 0)
    BY <1>3, Zenon DEF WriterClose
  <2>4. ~stale' => inputBuffer'.complete = 0
    BY <1>0, <2>1, <2>3
  <2> QED BY <2>1, <2>2, <2>4 DEF Whole, FrameIsWhole
<1>4. CASE WriterCloseAgain \/ (\E op \in {"write", "flush"} : WriterRejected(op)) \/ FlushSink
            \/ CloseCompressor \/ CloseSink
  <2>1. writerPc' # "compress" \/ writerPc' = writerPc
    BY <1>4 DEF WriterCloseAgain, WriterRejected, FlushSink, CloseCompressor, CloseSink
  <2>2. UNCHANGED <<writerClosed, stale, cctx, inputBuffer, accepted>>
    BY <1>4 DEF WriterCloseAgain, WriterRejected, FlushSink, CloseCompressor, CloseSink
  <2> QED BY <2>1, <2>2 DEF Whole, FrameIsWhole
<1>5. CASE CompressPass
  BY <1>5, PassWhole
<1>6. CASE UNCHANGED writerVars
  BY <1>6 DEF writer, writerVars, Whole, FrameIsWhole
<1> QED BY <1>1, <1>2, <1>3, <1>4, <1>5, <1>6 DEF WriterNext, WriterCallerStep, ProgramStep

\* An end of frame is the end of the data, unless close() found complete segments that a
\* failed call had left.
THEOREM OneFrame == WriterSpec => []FrameIsWhole
<1>1. Whole => FrameIsWhole
  BY DEF Whole
<1> QED BY InitConserved, NextConserved, InitProtocol, NextProtocol, InitWhole, NextWhole,
           <1>1, PTL DEF WriterSpec
=============================================================================
