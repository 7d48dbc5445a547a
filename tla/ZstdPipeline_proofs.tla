------------------------- MODULE ZstdPipeline_proofs -------------------------
(***************************************************************************)
(* Theorems about ZstdPipeline, for every segment size, every number of    *)
(* bytes written and read and every number of failures on either side.     *)
(***************************************************************************)
EXTENDS ZstdPipeline, ZstdCompressSink_proofs, ZstdDecompressSource_proofs

-----------------------------------------------------------------------------
(* Lemmas about the bytes of a step *)

\* What is known of n bytes that take a decoder from "from" to "upto".
BurstOf(b, n, from, upto, kind) ==
    /\ b \in Seq(Mark) /\ Len(b) = n
    /\ \A i \in 1 .. n :
        /\ from =< b[i].upto /\ b[i].upto =< upto
        /\ b[i].kind = IF i = n THEN kind ELSE "mid"
    /\ n > 0 => b[n].upto = upto
    /\ \A i, j \in 1 .. n : i < j => b[i].upto =< b[j].upto

LEMMA BurstsLemma ==
    ASSUME NEW n \in Nat, NEW from \in Nat, NEW upto \in Nat, from =< upto,
           NEW kind \in {"mid", "end", "bad"}, NEW b \in Bursts(n, from, upto, kind)
    PROVE  BurstOf(b, n, from, upto, kind)
<1>1. CASE n = 0
  <2>1. b = <<>>
    BY <1>1 DEF Bursts
  <2> QED BY <1>1, <2>1 DEF BurstOf
<1>2. CASE n # 0
  <2> DEFINE Marks_ == {f \in [1 .. n - 1 -> from .. upto] :
                          \A i, j \in 1 .. n - 1 : i < j => f[i] =< f[j]}
             Byte(mark, i) == [upto |-> IF i = n THEN upto ELSE mark[i],
                               kind |-> IF i = n THEN kind ELSE "mid"]
  <2>1. PICK mark \in Marks_ : b = [i \in 1 .. n |-> Byte(mark, i)]
    BY <1>2 DEF Bursts
  <2>2. /\ \A i \in 1 .. n - 1 : mark[i] \in from .. upto
        /\ \A i, j \in 1 .. n - 1 : i < j => mark[i] =< mark[j]
    BY <2>1
  <2>3. \A i \in 1 .. n : i # n => i \in 1 .. n - 1
    OBVIOUS
  <2>4. \A i \in 1 .. n : /\ b[i].upto = IF i = n THEN upto ELSE mark[i]
                          /\ b[i].kind = IF i = n THEN kind ELSE "mid"
                          /\ b[i] \in Mark
    <3> TAKE i \in 1 .. n
    <3>1. b[i] = Byte(mark, i)
      BY <2>1
    <3>2. (IF i = n THEN upto ELSE mark[i]) \in Nat
      BY <2>2, <2>3
    <3>3. (IF i = n THEN kind ELSE "mid") \in {"mid", "end", "bad"}
      OBVIOUS
    <3> QED BY <3>1, <3>2, <3>3 DEF Mark
  <2>5. b \in Seq(Mark) /\ Len(b) = n
    <3>1. b = [i \in 1 .. n |-> b[i]]
      BY <2>1
    <3>2. [i \in 1 .. n |-> b[i]] \in Seq(Mark) /\ Len([i \in 1 .. n |-> b[i]]) = n
      BY <2>4
    <3> QED BY <3>1, <3>2
  <2>6. \A i \in 1 .. n : from =< b[i].upto /\ b[i].upto =< upto
    BY <2>2, <2>3, <2>4
  <2>7. b[n].upto = upto
    BY <1>2, <2>4
  <2>8. \A i, j \in 1 .. n : i < j => b[i].upto =< b[j].upto
    <3> SUFFICES ASSUME NEW i \in 1 .. n, NEW j \in 1 .. n, i < j
                 PROVE  b[i].upto =< b[j].upto
      OBVIOUS
    <3>1. CASE j = n
      BY <2>6, <2>7, <3>1
    <3>2. CASE j # n
      <4>1. i \in 1 .. n - 1 /\ j \in 1 .. n - 1 /\ i # n
        BY <3>2
      <4> QED BY <2>2, <2>4, <3>2, <4>1
    <3> QED BY <3>1, <3>2
  <2> QED BY <2>4, <2>5, <2>6, <2>7, <2>8 DEF BurstOf
<1> QED BY <1>1, <1>2

\* Stream t goes on where s ends.
Extends(t, s) ==
    /\ IsStream(t)
    /\ Len(s) =< Len(t)
    /\ \A i \in 1 .. Len(s) : t[i] = s[i]

\* What a prefix determines does not depend on what follows it.
LEMMA PrefixLemma ==
    ASSUME NEW s, IsStream(s), NEW t, Extends(t, s), NEW k \in 0 .. Len(s)
    PROVE  /\ Decodable(t, k) = Decodable(s, k)
           /\ AtBoundary(t, k) <=> AtBoundary(s, k)
<1>1. Len(s) \in Nat
  BY StreamLemma
<1>2. k = 0 \/ t[k] = s[k]
  BY <1>1 DEF Extends
<1> QED BY <1>2 DEF Decodable, AtBoundary

\* The n bytes of burst b may follow stream s.
Follows(b, s, n, from, upto, kind) ==
    /\ IsStream(s)
    /\ n \in Nat /\ from \in Nat /\ upto \in Nat /\ kind \in {"mid", "end", "bad"}
    /\ Decodable(s, Len(s)) =< from
    /\ BurstOf(b, n, from, upto, kind)

LEMMA AppendLemma ==
    ASSUME NEW b, NEW s, NEW n, NEW from, NEW upto, NEW kind,
           Follows(b, s, n, from, upto, kind)
    PROVE  /\ Extends(s \o b, s)
           /\ Len(s \o b) = Len(s) + n
           /\ \A i \in 1 .. n : (s \o b)[Len(s) + i] = b[i]
<1>0. /\ IsStream(s)
      /\ n \in Nat /\ from \in Nat /\ upto \in Nat /\ kind \in {"mid", "end", "bad"}
      /\ Decodable(s, Len(s)) =< from
      /\ BurstOf(b, n, from, upto, kind)
  BY DEF Follows
<1>1. s \in Seq(Mark) /\ Len(s) \in Nat /\ b \in Seq(Mark) /\ Len(b) = n
  BY <1>0, StreamLemma DEF IsStream, BurstOf, Mark
<1>2. /\ s \o b \in Seq(Mark) /\ Len(s \o b) = Len(s) + n
      /\ \A i \in 1 .. Len(s) : (s \o b)[i] = s[i]
      /\ \A i \in 1 .. n : (s \o b)[Len(s) + i] = b[i]
  BY <1>0, <1>1
<1>3. ASSUME NEW i \in 1 .. Len(s) + n, NEW j \in 1 .. Len(s) + n, i < j
      PROVE  (s \o b)[i].upto =< (s \o b)[j].upto
  <2>1. CASE j =< Len(s)
    BY <1>0, <1>1, <1>2, <1>3, <2>1 DEF IsStream
  <2>2. CASE i =< Len(s) /\ ~(j =< Len(s))
    <3>1. j - Len(s) \in 1 .. n /\ i \in 1 .. Len(s) /\ j = Len(s) + (j - Len(s))
      BY <1>0, <1>1, <2>2
    <3>2. s[i].upto =< Decodable(s, Len(s)) /\ s[i].upto \in Nat
          /\ Decodable(s, Len(s)) \in Nat
      <4>1. i \in 0 .. Len(s) /\ Len(s) \in i .. Len(s) /\ i # 0
        BY <1>0, <1>1, <3>1
      <4> QED BY <1>0, <4>1, DecodableLemma DEF Decodable
    <3>3. from =< b[j - Len(s)].upto /\ b[j - Len(s)] \in Mark
      BY <1>0, <1>1, <3>1 DEF BurstOf
    <3>4. (s \o b)[i] = s[i] /\ (s \o b)[j] = b[j - Len(s)]
      BY <1>2, <3>1
    <3> QED BY <1>0, <3>2, <3>3, <3>4 DEF Mark
  <2>3. CASE ~(i =< Len(s))
    <3>1. /\ i - Len(s) \in 1 .. n /\ j - Len(s) \in 1 .. n /\ i - Len(s) < j - Len(s)
          /\ i = Len(s) + (i - Len(s)) /\ j = Len(s) + (j - Len(s))
      BY <1>0, <1>1, <1>3, <2>3
    <3>2. (s \o b)[i] = b[i - Len(s)] /\ (s \o b)[j] = b[j - Len(s)]
      BY <1>2, <3>1
    <3> QED BY <1>0, <3>1, <3>2 DEF BurstOf
  <2> QED BY <1>0, <1>1, <2>1, <2>2, <2>3
<1>4. IsStream(s \o b)
  BY <1>0, <1>1, <1>2, <1>3 DEF IsStream, Mark
<1> QED BY <1>0, <1>1, <1>2, <1>4 DEF Extends

-----------------------------------------------------------------------------
(* The invariant *)

\* What the reader's side sees of the writer's, and the length of the stream between them.
Pipe ==
    /\ available = delivered
    /\ finished <=> sinkClosed
    /\ IsStream(stream)
    /\ Len(stream) = cctx.generated

\* As long as zstd has not failed, the stream is the encoding of what it has coded: its bytes
\* tell just that, and it is closed when there is no open frame.
Encoding ==
    cctx.healthy =>
        /\ Decodable(stream, Len(stream)) = cctx.coded
        /\ Tight(cctx)
        /\ ~cctx.inFrame => AtBoundary(stream, Len(stream))
        /\ \A i \in 1 .. Len(stream) :
            /\ stream[i].kind # "bad"
            /\ stream[i].kind = "end" => cctx.frames > 0
            /\ (stream[i].kind = "end" /\ ~stale) => stream[i].upto = cctx.coded

WriterInv == Conserved /\ Protocol /\ Delivery /\ Whole

PipelineInv == WriterInv /\ ReaderInv /\ Pipe /\ Encoding

-----------------------------------------------------------------------------
(* Steps of the writer, as the reader sees them *)

\* A healthy writer only adds to what upstream of the reader has, and adds nothing once
\* that has ended.
UpstreamGrows ==
    /\ Extends(stream', stream)
    /\ available' \in available .. Len(stream')
    /\ finished' \in BOOLEAN
    /\ finished => finished' /\ available' = available
    /\ faults' \in Nat

LEMMA GrowsReader ==
    ASSUME ReaderInv, UpstreamGrows, UNCHANGED reader PROVE ReaderInv'
<1>1. /\ IsStream(stream) /\ IsStream(stream') /\ Len(stream) \in Nat /\ Len(stream') \in Nat
      /\ Len(stream) =< Len(stream')
      /\ available \in 0 .. Len(stream) /\ available' \in 0 .. Len(stream')
      /\ available =< available' /\ sent \in 0 .. available
      /\ dctx \in DCtx /\ dctx.taken \in 0 .. Len(stream) /\ dctx.taken =< sent
  <2>1. /\ IsStream(stream) /\ available \in 0 .. Len(stream) /\ sent \in 0 .. available
        /\ dctx \in DCtx /\ dctx.taken =< sent
    BY DEF ReaderInv, ReaderTypeOK, Flow
  <2>2. /\ IsStream(stream') /\ Len(stream) =< Len(stream')
        /\ available' \in available .. Len(stream')
    BY DEF UpstreamGrows, Extends
  <2>3. Len(stream) \in Nat /\ Len(stream') \in Nat
    BY <2>1, <2>2, StreamLemma
  <2> QED BY <2>1, <2>2, <2>3 DEF DCtx
<1>2. UNCHANGED <<sent, sourceBuffer, sourceClosed, decompressor, dctx, outputBuffer,
                  lastDecompressResult, readerClosed, readerPc, readerCall, byteCount,
                  served>>
  BY DEF reader
<1>3. ReaderTypeOK'
  <2>1. sent' \in 0 .. available'
    BY <1>1, <1>2
  <2> QED BY <1>1, <1>2, <2>1 DEF ReaderInv, ReaderTypeOK, UpstreamGrows
<1>4. ASSUME NEW k \in 0 .. Len(stream)
      PROVE  /\ Decodable(stream', k) = Decodable(stream, k)
             /\ AtBoundary(stream', k) <=> AtBoundary(stream, k)
  BY <1>1, PrefixLemma DEF UpstreamGrows
<1>5. ReaderWellFormed(stream', dctx)
  <2>1. ReaderWellFormed(stream, dctx)
    BY DEF ReaderInv, Flow
  <2>2. \A i \in 1 .. dctx.taken : stream'[i] = stream[i]
    BY <1>1 DEF UpstreamGrows, Extends
  <2>3. Decodable(stream', dctx.taken) = Decodable(stream, dctx.taken)
    BY <1>1, <1>4
  <2>4. dctx.hostage => dctx.taken \in 1 .. dctx.taken
    BY <1>1, <2>1 DEF ReaderWellFormed
  <2> QED BY <1>1, <2>1, <2>2, <2>3, <2>4 DEF ReaderWellFormed
<1>6. Flow'
  BY <1>2, <1>5 DEF ReaderInv, Flow
<1>7. Result'
  <2>1. /\ Decodable(stream', dctx.taken) = Decodable(stream, dctx.taken)
        /\ AtBoundary(stream', dctx.taken) <=> AtBoundary(stream, dctx.taken)
    BY <1>1, <1>4
  <2> QED BY <1>2, <2>1 DEF ReaderInv, Result
<1>8. Phase' /\ Resources'
  BY <1>2 DEF ReaderInv, Phase, Resources
<1>9. CleanEnd' /\ TruncationIsReal'
  <2>1. /\ Decodable(stream', available) = Decodable(stream, available)
        /\ AtBoundary(stream', available) <=> AtBoundary(stream, available)
    BY <1>1, <1>4
  <2>2. finished => finished' /\ available' = available
    BY DEF UpstreamGrows
  <2>3. CleanEnd'
    BY <1>2, <2>1, <2>2 DEF ReaderInv, CleanEnd
  <2>4. TruncationIsReal'
    BY <1>2, <2>1, <2>2 DEF ReaderInv, TruncationIsReal
  <2> QED BY <2>3, <2>4
<1> QED BY <1>3, <1>6, <1>7, <1>8, <1>9 DEF ReaderInv

-----------------------------------------------------------------------------
(* Steps of the writer, as they leave the stream *)

\* What any step of the writer does to its context and to what it delivered.
WriterProgress ==
    /\ Grown(cctx, cctx')
    /\ delivered' >= delivered
    /\ sinkClosed => sinkClosed' /\ delivered' = delivered
    /\ cctx' # cctx => UNCHANGED <<accepted, stale>>
    /\ stale' # stale => cctx.frames = 0

LEMMA SameContext == cctx \in CCtx => Grown(cctx, cctx)
BY DEF Grown, CCtx

LEMMA PassProgress ==
    ASSUME Conserved, Protocol, CompressPass PROVE WriterProgress
<1>1. PICK avail \in Nat, cap \in Capacity(sinkBuffer) :
        \E out \in Outcomes(avail, cap) : IterationOf(avail, cap, out)
  BY IterationLemma
<1>2. PICK out \in Outcomes(avail, cap) : IterationOf(avail, cap, out)
  BY <1>1
<1> DEFINE b == Resized(sinkBuffer, cap, out.put)
<1>3. /\ cctx' = out.cctx /\ UNCHANGED <<sinkClosed, accepted, stale>>
      /\ EmitReturns(b, out.result) \/ EmitThrows(b)
  BY <1>2 DEF IterationOf
<1>4. Grown(cctx, cctx')
  BY <1>3, OutcomeLemma
<1>5. /\ sinkBuffer \in Buffer /\ delivered \in Nat /\ out.put \in 0 .. cap
      /\ writerPc = "compress" /\ ~sinkClosed
  BY OutcomeLemma DEF Conserved, WriterTypeOK, CompressPass, Protocol
<1>6. b \in Buffer
  BY <1>5, ResizedLemma
<1> HIDE DEF b
<1>7. CASE EmitReturns(b, out.result)
  <2>1. b.complete \in 0 .. Size(b) /\ Size(b) \in Nat
    BY <1>6 DEF Buffer, Size
  <2>2. Emitted(b) \in Buffer /\ Size(Emitted(b)) = Size(b) - b.complete
    BY <1>6, <2>1, SkipLemma DEF Emitted
  <2>3. delivered' = delivered + Size(b) - Size(Emitted(b))
    BY <1>7 DEF EmitReturns
  <2>4. delivered' >= delivered
    BY <1>5, <2>1, <2>2, <2>3
  <2> QED BY <1>3, <1>4, <1>5, <2>4 DEF WriterProgress
<1>8. CASE EmitThrows(b)
  <2>1. PICK k \in 0 .. b.complete : delivered' = delivered + k
    BY <1>8 DEF EmitThrows
  <2>2. delivered' >= delivered
    BY <1>5, <1>6, <2>1 DEF Buffer
  <2> QED BY <1>3, <1>4, <1>5, <2>2 DEF WriterProgress
<1> QED BY <1>3, <1>7, <1>8

LEMMA NextProgress ==
    ASSUME Conserved, Protocol, WriterNext PROVE WriterProgress
<1>1. /\ cctx \in CCtx /\ delivered \in Nat /\ sinkBuffer \in Buffer /\ Size(sinkBuffer) \in Nat
      /\ cctx.frames > 0 => writerClosed
  BY DEF Conserved, WriterTypeOK, Protocol, Buffer, Size
<1>2. CASE CompressPass
  BY <1>2, PassProgress
<1>3. CASE FlushSink \/ CloseSink
  <2>1. /\ UNCHANGED <<cctx, accepted, stale>> /\ ~sinkClosed
        /\ \E k \in 0 .. Size(sinkBuffer) : delivered' = delivered + k
    BY <1>1, <1>3 DEF FlushSink, CloseSink, Protocol
  <2>2. delivered' >= delivered
    BY <1>1, <2>1
  <2> QED BY <1>1, <2>1, <2>2, SameContext DEF WriterProgress
<1>4. CASE \/ \E n \in 0 .. MaxBytes : Write(n)
           \/ Flush \/ WriterClose \/ WriterCloseAgain
           \/ \E op \in {"write", "flush"} : WriterRejected(op)
           \/ CloseCompressor
  <2>1. /\ UNCHANGED <<cctx, delivered, sinkClosed>>
        /\ stale' # stale => ~writerClosed
    BY <1>4 DEF Write, Flush, WriterClose, WriterCloseAgain, WriterRejected, CloseCompressor
  <2>2. stale' # stale => cctx.frames = 0
    BY <1>1, <2>1 DEF CCtx
  <2> QED BY <1>1, <2>1, <2>2, SameContext DEF WriterProgress
<1> QED BY <1>2, <1>3, <1>4 DEF WriterNext, WriterCallerStep, ProgramStep

LEMMA BurstLemma ==
    ASSUME cctx \in CCtx, cctx' \in CCtx, Grown(cctx, cctx'), IsStream(stream),
           cctx.healthy => Decodable(stream, Len(stream)) = cctx.coded,
           NEW burst \in Generated
    PROVE  \E from \in Nat, upto \in Nat, kind \in {"mid", "end", "bad"} :
              /\ Decodable(stream, Len(stream)) =< from
              /\ BurstOf(burst, cctx'.generated - cctx.generated, from, upto, kind)
              /\ cctx.healthy =>
                    /\ upto = cctx'.coded
                    /\ kind = IF cctx'.frames > cctx.frames THEN "end" ELSE "mid"
<1> DEFINE n == cctx'.generated - cctx.generated
           known == Decodable(stream, Len(stream))
<1>1. /\ n \in Nat /\ cctx.coded \in Nat /\ cctx'.coded \in Nat /\ cctx.coded =< cctx'.coded
  BY DEF Grown, CCtx
<1>2. known \in Nat
  <2>1. Len(stream) \in 0 .. Len(stream)
    BY StreamLemma
  <2> QED BY <2>1, DecodableLemma
<1>3. CASE cctx.healthy
  <2> DEFINE kind == IF cctx'.frames > cctx.frames THEN "end" ELSE "mid"
  <2>1. burst \in Bursts(n, cctx.coded, cctx'.coded, kind)
    BY <1>3 DEF Generated
  <2>2. kind \in {"mid", "end", "bad"}
    OBVIOUS
  <2>3. known =< cctx.coded
    BY <1>1, <1>3
  <2> HIDE DEF n, kind, known
  <2>4. BurstOf(burst, n, cctx.coded, cctx'.coded, kind)
    BY <1>1, <2>1, <2>2, BurstsLemma
  <2> QED BY <1>1, <2>2, <2>3, <2>4 DEF n, kind, known
<1>4. CASE ~cctx.healthy
  <2>1. PICK more \in 0 .. MaxGarbage, kind \in {"mid", "end", "bad"} :
            burst \in Bursts(n, known, known + more, kind)
    BY <1>4 DEF Generated
  <2> DEFINE upto == known + more
  <2>2. upto \in Nat /\ known =< upto
    BY <1>2, FailuresAssumption
  <2>3. burst \in Bursts(n, known, upto, kind)
    BY <2>1
  <2> HIDE DEF n, known, upto
  <2>4. BurstOf(burst, n, known, upto, kind)
    BY <1>1, <1>2, <2>2, <2>3, BurstsLemma
  <2>5. known =< known
    BY <1>2
  <2> QED BY <1>2, <1>4, <2>2, <2>4, <2>5 DEF n, known
<1> QED BY <1>3, <1>4

\* The bytes of a step keep the stream the encoding of what was coded.
LEMMA StreamGrows ==
    ASSUME WriterInv, WriterInv', Pipe, Encoding, WriterProgress,
           NEW burst \in Generated, stream' = stream \o burst
    PROVE  /\ Extends(stream', stream)
           /\ Len(stream') = cctx'.generated
           /\ Encoding'
<1> DEFINE L == Len(stream)
           n == cctx'.generated - cctx.generated
<1>1. /\ cctx \in CCtx /\ cctx' \in CCtx /\ Grown(cctx, cctx')
      /\ IsStream(stream) /\ L = cctx.generated
      /\ cctx.healthy => Decodable(stream, L) = cctx.coded
  BY DEF WriterInv, Conserved, WriterTypeOK, WriterProgress, Pipe, Encoding
<1>2. /\ n \in Nat /\ L \in Nat /\ L + n = cctx'.generated
      /\ cctx.coded \in Nat /\ cctx'.coded \in Nat /\ cctx.coded =< cctx'.coded
      /\ cctx.frames \in Nat /\ cctx'.frames \in Nat /\ cctx.frames =< cctx'.frames
      /\ n = 0 => /\ cctx'.coded = cctx.coded /\ cctx'.frames = cctx.frames
                  /\ cctx.inFrame => cctx'.inFrame
      /\ cctx'.healthy => cctx.healthy
  <2>1. /\ cctx \in CCtx /\ cctx' \in CCtx /\ Grown(cctx, cctx') /\ L = cctx.generated
    BY <1>1
  <2> HIDE DEF L
  <2> QED BY <2>1 DEF Grown, CCtx
<1>3. PICK from \in Nat, upto \in Nat, kind \in {"mid", "end", "bad"} :
        /\ Decodable(stream, Len(stream)) =< from
        /\ BurstOf(burst, n, from, upto, kind)
        /\ cctx.healthy =>
              /\ upto = cctx'.coded
              /\ kind = IF cctx'.frames > cctx.frames THEN "end" ELSE "mid"
  BY <1>1, BurstLemma
<1>4. (n > 0 /\ cctx.healthy /\ Tight(cctx) /\ ~cctx'.inFrame) => cctx'.frames > cctx.frames
  BY <1>1, <1>2 DEF Grown, CCtx
<1> HIDE DEF n
<1>5. /\ Extends(stream', stream) /\ Len(stream') = L + n
      /\ \A i \in 1 .. n : stream'[L + i] = burst[i]
  <2>1. Follows(burst, stream, n, from, upto, kind)
    BY <1>1, <1>2, <1>3 DEF Follows
  <2>2. /\ Extends(stream \o burst, stream) /\ Len(stream \o burst) = Len(stream) + n
        /\ \A i \in 1 .. n : (stream \o burst)[Len(stream) + i] = burst[i]
    BY <2>1, AppendLemma
  <2> QED BY <2>2
<1>6. /\ Decodable(stream', L) = Decodable(stream, L)
      /\ AtBoundary(stream', L) <=> AtBoundary(stream, L)
  BY <1>1, <1>2, <1>5, PrefixLemma
<1>7. n # 0 => /\ n \in 1 .. n /\ stream'[L + n] = burst[n] /\ burst[n].kind = kind
               /\ cctx.healthy => burst[n].upto = cctx'.coded
  BY <1>2, <1>3, <1>5 DEF BurstOf
<1>8. ASSUME cctx'.healthy PROVE Decodable(stream', L + n) = cctx'.coded
  <2>1. CASE n = 0
    BY <1>1, <1>2, <1>6, <1>8, <2>1
  <2>2. CASE n # 0
    <3>1. L + n # 0
      BY <1>2, <2>2
    <3>2. stream'[L + n].upto = cctx'.coded
      BY <1>2, <1>7, <1>8, <2>2
    <3> QED BY <3>1, <3>2 DEF Decodable
  <2> QED BY <2>1, <2>2
<1>9. ASSUME cctx'.healthy
      PROVE  Tight(cctx') /\ (~cctx'.inFrame => AtBoundary(stream', L + n))
  <2>1. /\ cctx.healthy /\ Tight(cctx)
        /\ ~cctx.inFrame => AtBoundary(stream, L)
    BY <1>2, <1>9 DEF Encoding
  <2>2. Tight(cctx')
    BY <1>1, <2>1 DEF Grown
  <2>3. ASSUME ~cctx'.inFrame PROVE AtBoundary(stream', L + n)
    <3>1. CASE n = 0
      BY <1>2, <1>6, <2>1, <2>3, <3>1
    <3>2. CASE n # 0
      <4>1. kind = "end"
        BY <1>2, <1>3, <1>4, <2>1, <2>3, <3>2
      <4> QED BY <1>7, <3>2, <4>1 DEF AtBoundary
    <3> QED BY <3>1, <3>2
  <2> QED BY <2>2, <2>3
<1>10. ASSUME cctx'.healthy, NEW i \in 1 .. L + n
       PROVE  /\ stream'[i].kind # "bad"
              /\ stream'[i].kind = "end" => cctx'.frames > 0
              /\ (stream'[i].kind = "end" /\ ~stale') => stream'[i].upto = cctx'.coded
  <2>1. CASE i =< L
    <3>1. i \in 1 .. L /\ stream'[i] = stream[i] /\ cctx.healthy
      BY <1>2, <1>5, <1>10, <2>1 DEF Extends
    <3>2. /\ stream[i].kind # "bad"
          /\ stream[i].kind = "end" => cctx.frames > 0
          /\ (stream[i].kind = "end" /\ ~stale) => stream[i].upto = cctx.coded
      BY <3>1 DEF Encoding
    <3>3. ASSUME stream[i].kind = "end", ~stale'
          PROVE  stream[i].upto = cctx'.coded
      <4>1. cctx.frames > 0 /\ ~stale
        BY <1>2, <3>2, <3>3 DEF WriterProgress
      <4>2. CASE cctx' = cctx
        BY <3>2, <3>3, <4>1, <4>2
      <4>3. CASE cctx' # cctx
        <5>1. cctx.coded = accepted
          BY <3>1, <4>1 DEF WriterInv, Whole, FrameIsWhole
        <5>2. cctx'.coded = accepted'
          BY <1>2, <1>10, <3>3, <4>1 DEF WriterInv, Whole, FrameIsWhole
        <5>3. accepted' = accepted
          BY <4>3 DEF WriterProgress
        <5> QED BY <3>2, <3>3, <4>1, <5>1, <5>2, <5>3
      <4> QED BY <4>2, <4>3
    <3> QED BY <1>2, <3>1, <3>2, <3>3
  <2>2. CASE ~(i =< L)
    <3>1. i - L \in 1 .. n /\ i = L + (i - L)
      BY <1>2, <2>2
    <3>2. stream'[i] = burst[i - L]
      BY <1>5, <3>1
    <3>3. burst[i - L].kind = IF i - L = n THEN kind ELSE "mid"
      BY <1>3, <3>1 DEF BurstOf
    <3>4. cctx.healthy /\ kind = IF cctx'.frames > cctx.frames THEN "end" ELSE "mid"
      BY <1>2, <1>3, <1>10
    <3>5. stream'[i].kind = "end" => i - L = n /\ cctx'.frames > cctx.frames
      BY <3>2, <3>3, <3>4
    <3>6. stream'[i].kind # "bad"
      BY <3>2, <3>3, <3>4
    <3>7. stream'[i].kind = "end" => stream'[i].upto = cctx'.coded
      BY <1>2, <1>7, <3>1, <3>2, <3>4, <3>5
    <3>8. cctx'.frames > cctx.frames => cctx'.frames > 0
      BY <1>2
    <3> QED BY <3>5, <3>6, <3>7, <3>8
  <2> QED BY <2>1, <2>2
<1>11. Encoding'
  BY <1>5, <1>8, <1>9, <1>10 DEF Encoding
<1> QED BY <1>2, <1>5, <1>11

-----------------------------------------------------------------------------
(* The invariant holds *)

LEMMA InitPipeline == Init => PipelineInv
<1> SUFFICES ASSUME Init PROVE PipelineInv
  OBVIOUS
<1>1. WriterInv
  BY InitConserved, InitProtocol, InitDelivery, InitWhole DEF Init, WriterInv
<1>2. ReaderInv
  BY InitReader DEF Init
<1>3. /\ stream = <<>> /\ Len(stream) = 0 /\ available = 0 /\ delivered = 0
      /\ finished = FALSE /\ sinkClosed = FALSE
      /\ cctx.generated = 0 /\ cctx.coded = 0 /\ cctx.fed = 0
  BY PipelineAssumption DEF Init, WriterInit, ReaderInit, NewCCtx
<1>4. Pipe
  BY <1>2, <1>3 DEF Pipe, ReaderInv, ReaderTypeOK
<1>5. Encoding
  BY <1>3 DEF Encoding, Decodable, Tight, AtBoundary
<1> QED BY <1>1, <1>2, <1>4, <1>5 DEF PipelineInv

LEMMA StepWriter ==
    ASSUME PipelineInv, CallsWriter \/ WriterRuns PROVE PipelineInv'
<1>1. /\ WriterNext /\ available' = delivered' /\ finished' = sinkClosed'
      /\ UNCHANGED reader
      /\ \E burst \in Generated : stream' = stream \o burst
  BY DEF CallsWriter, WriterRuns, WriterStep, WriterNext
<1>2. PICK burst \in Generated : stream' = stream \o burst
  BY <1>1
<1>3. Conserved /\ Protocol /\ Delivery /\ Whole /\ ReaderInv /\ Pipe /\ Encoding
  BY DEF PipelineInv, WriterInv
<1>4. WriterInv /\ WriterInv'
  BY <1>1, <1>3, NextConserved, NextProtocol, NextDelivery, NextWhole DEF WriterInv
<1>5. WriterProgress
  BY <1>1, <1>3, NextProgress
<1>6. Extends(stream', stream) /\ Len(stream') = cctx'.generated /\ Encoding'
  BY <1>2, <1>3, <1>4, <1>5, StreamGrows
<1>7. /\ delivered' \in Nat /\ delivered' =< cctx'.generated /\ sinkClosed' \in BOOLEAN
      /\ faults' \in Nat
  <2>1. /\ delivered' \in Nat /\ sinkBuffer' \in Buffer /\ cctx' \in CCtx
        /\ sinkClosed' \in BOOLEAN /\ faults' \in Nat
        /\ cctx'.flushed =< cctx'.generated /\ delivered' + Size(sinkBuffer') = cctx'.flushed
    BY <1>4 DEF WriterInv, Conserved, WriterTypeOK, WriterNothingLost, WriterWellFormed
  <2>2. Size(sinkBuffer') \in Nat /\ cctx'.generated \in Nat
    BY <2>1 DEF Buffer, Size, CCtx
  <2> QED BY <2>1, <2>2
<1>8. UpstreamGrows
  <2>1. available = delivered /\ (finished <=> sinkClosed)
    BY <1>3 DEF Pipe
  <2>2. /\ delivered' >= delivered
        /\ sinkClosed => sinkClosed' /\ delivered' = delivered
    BY <1>5 DEF WriterProgress
  <2>3. available' \in available .. Len(stream')
    <3>1. delivered \in Nat /\ cctx'.generated \in Nat
      BY <1>3, <1>4 DEF WriterInv, Conserved, WriterTypeOK, CCtx
    <3> QED BY <1>1, <1>6, <1>7, <2>1, <2>2, <3>1
  <2> QED BY <1>1, <1>6, <1>7, <2>1, <2>2, <2>3 DEF UpstreamGrows
<1>9. ReaderInv'
  BY <1>1, <1>3, <1>8, GrowsReader
<1>10. Pipe'
  BY <1>1, <1>6 DEF Pipe, Extends
<1> QED BY <1>4, <1>6, <1>9, <1>10 DEF PipelineInv

\* The reader leaves the writer alone but for the failures that are left to it.
LEMMA LeavesWriter ==
    ASSUME WriterInv, UNCHANGED writer, faults' \in Nat PROVE WriterInv'
<1>1. Conserved'
  BY DEF writer, WriterInv, Conserved, WriterTypeOK, WriterNothingLost, WriterWellFormed,
         RemainingExact
<1>2. Protocol' /\ Delivery' /\ Whole'
  BY DEF writer, WriterInv, Protocol, WriterResourcesReleased, Delivery, FlushDelivers,
         CloseDelivers, AllCoded, LastFrameClosed, Whole, FrameIsWhole
<1> QED BY <1>1, <1>2 DEF WriterInv

LEMMA StepReader ==
    ASSUME PipelineInv, CallsReader \/ ReaderRuns PROVE PipelineInv'
<1>1. ReaderNext /\ UNCHANGED writer
  BY DEF CallsReader, ReaderRuns, ReaderStep, ReaderNext
<1>2. UNCHANGED upstream
  <2>1. CASE CallsReader
    BY <2>1 DEF CallsReader, ReaderStep, ReaderCallerStep, Read, ReaderRejected,
                ReaderClose, ReaderCloseAgain
  <2>2. CASE ReaderRuns
    BY <2>2 DEF ReaderRuns, ReaderStep, Refill, Release, RequestBuffered, RequestReads,
                RequestFails, RequestExhausted, DecompressPass, CloseDecompressor,
                CloseSource
  <2> QED BY <2>1, <2>2
<1>3. ReaderInv'
  BY <1>1, NextReader DEF PipelineInv
<1>4. WriterInv'
  BY <1>1, <1>3, LeavesWriter DEF PipelineInv, ReaderInv, ReaderTypeOK
<1>5. Pipe' /\ Encoding'
  BY <1>1, <1>2 DEF PipelineInv, Pipe, Encoding, writer, upstream
<1> QED BY <1>3, <1>4, <1>5 DEF PipelineInv

LEMMA StepNeither ==
    ASSUME PipelineInv, UNCHANGED <<writer, upstream, reader, faults>> PROVE PipelineInv'
<1>1. WriterInv'
  BY LeavesWriter DEF PipelineInv, ReaderInv, ReaderTypeOK
<1>2. ReaderInv'
  BY StutterInv DEF PipelineInv, readerVars
<1>3. Pipe' /\ Encoding'
  BY DEF PipelineInv, Pipe, Encoding, writer, upstream
<1> QED BY <1>1, <1>2, <1>3 DEF PipelineInv

LEMMA NextPipeline == PipelineInv /\ [Next]_vars => PipelineInv'
<1> SUFFICES ASSUME PipelineInv, [Next]_vars PROVE PipelineInv'
  OBVIOUS
<1>1. CASE CallsWriter \/ WriterRuns
  BY <1>1, StepWriter
<1>2. CASE CallsReader \/ ReaderRuns
  BY <1>2, StepReader
<1>3. CASE ZstdCompress \/ ZstdDecompress \/ UNCHANGED vars
  BY <1>3, StepNeither DEF ZstdCompress, ZstdDecompress, vars
<1> QED BY <1>1, <1>2, <1>3 DEF Next

LEMMA PipelineInvariant == Spec => []PipelineInv
BY InitPipeline, NextPipeline, PTL DEF Spec

-----------------------------------------------------------------------------
(* What each stream promises, it also promises in the pipe *)

\* A step of either stream is one of its own module or changes nothing that the other has
\* but the count of failures.
LEMMA StepOfEither ==
    [Next]_vars => /\ [WriterNext]_writerVars \/ UNCHANGED writer
                   /\ [ReaderNext]_readerVars \/ UNCHANGED reader
<1> SUFFICES ASSUME [Next]_vars
             PROVE  /\ [WriterNext]_writerVars \/ UNCHANGED writer
                    /\ [ReaderNext]_readerVars \/ UNCHANGED reader
  OBVIOUS
<1>1. CASE CallsWriter \/ WriterRuns
  BY <1>1 DEF CallsWriter, WriterRuns, WriterStep, WriterNext
<1>2. CASE CallsReader \/ ReaderRuns
  BY <1>2 DEF CallsReader, ReaderRuns, ReaderStep, ReaderNext
<1>3. CASE ZstdCompress \/ ZstdDecompress \/ UNCHANGED vars
  BY <1>3 DEF ZstdCompress, ZstdDecompress, vars
<1> QED BY <1>1, <1>2, <1>3 DEF Next

\* A sink whose downstream is a pipe that somebody reads loses nothing, delivers what its
\* flush() and close() promise, writes whole frames and releases what it holds.
THEOREM WriterInPipe ==
    Spec => [](/\ WriterNothingLost /\ FlushDelivers /\ CloseDelivers
               /\ FrameIsWhole /\ WriterResourcesReleased)
<1>1. PipelineInv => /\ WriterNothingLost /\ FlushDelivers /\ CloseDelivers
                     /\ FrameIsWhole /\ WriterResourcesReleased
  BY DEF PipelineInv, WriterInv, Conserved, Protocol, Delivery, Whole
<1> QED BY <1>1, PipelineInvariant, PTL

\* A source whose upstream is a pipe that somebody writes into loses nothing, reports ends
\* and truncations that are real ones at that moment, serves only what it received and
\* releases what it holds.
THEOREM ReaderInPipe ==
    Spec => [](/\ ReaderNothingLost /\ CleanEnd /\ TruncationIsReal
               /\ ServedIsDecodable /\ ReaderResourcesReleased)
<1>1. PipelineInv => /\ ReaderNothingLost /\ CleanEnd /\ TruncationIsReal
                     /\ ServedIsDecodable /\ ReaderResourcesReleased
  BY InvDecodable, InvReleased DEF PipelineInv, ReaderInv, Flow, ReaderNothingLost
<1> QED BY <1>1, PipelineInvariant, PTL

\* Neither stream uses what it has closed, and no directive follows ZSTD_e_end, whatever
\* the other stream does in between.
THEOREM OrderInPipe ==
    Spec => WriterNoUseAfterClose /\ EndDirectiveFinal /\ ReaderNoUseAfterClose
<1>1. PipelineInv /\ [Next]_vars => UsesOpen /\ DirectsInOrder /\ ReadsOpen
  <2> SUFFICES ASSUME PipelineInv, [Next]_vars PROVE UsesOpen /\ DirectsInOrder /\ ReadsOpen
    OBVIOUS
  <2>1. UsesOpen /\ DirectsInOrder
    <3>1. CASE [WriterNext]_writerVars
      BY <3>1, StepUsesOpen, StepDirects DEF PipelineInv, WriterInv
    <3>2. CASE UNCHANGED writer
      BY <3>2 DEF writer, UsesOpen, DirectsInOrder
    <3> QED BY <3>1, <3>2, StepOfEither
  <2>2. ReadsOpen
    <3>1. CASE [ReaderNext]_readerVars
      BY <3>1, StepReadsOpen DEF PipelineInv
    <3>2. CASE UNCHANGED reader
      BY <3>2 DEF reader, ReadsOpen
    <3> QED BY <3>1, <3>2, StepOfEither
  <2> QED BY <2>1, <2>2
<1> QED BY <1>1, PipelineInvariant, PTL
        DEF Spec, WriterNoUseAfterClose, EndDirectiveFinal, ReaderNoUseAfterClose,
            UsesOpen, DirectsInOrder, ReadsOpen

-----------------------------------------------------------------------------
(* What the two streams promise together *)

LEMMA InvTypes ==
    ASSUME PipelineInv
    PROVE  /\ IsStream(stream) /\ Len(stream) \in Nat /\ Len(stream) = cctx.generated
           /\ available = delivered /\ available \in 0 .. Len(stream)
           /\ finished <=> sinkClosed
           /\ sent \in 0 .. available /\ dctx.taken \in 0 .. sent
           /\ served \in Nat /\ dctx.flushed \in Nat /\ served =< dctx.flushed
           /\ cctx.coded \in Nat /\ cctx.fed \in Nat /\ accepted \in Nat
           /\ cctx.coded =< cctx.fed /\ cctx.fed =< accepted
<1>1. /\ IsStream(stream) /\ Len(stream) = cctx.generated
      /\ available = delivered /\ (finished <=> sinkClosed)
      /\ available \in 0 .. Len(stream) /\ sent \in 0 .. available
      /\ dctx \in DCtx /\ dctx.taken =< sent /\ served \in Nat /\ served =< dctx.flushed
  BY DEF PipelineInv, Pipe, ReaderInv, ReaderTypeOK, Flow
<1>2. Len(stream) \in Nat
  BY <1>1, StreamLemma
<1>3. dctx.taken \in 0 .. sent /\ dctx.flushed \in Nat
  BY <1>1, <1>2 DEF DCtx
<1>4. /\ cctx \in CCtx /\ inputBuffer \in Buffer /\ accepted \in Nat /\ cctx.coded =< cctx.fed
      /\ cctx.fed + Size(inputBuffer) = accepted
  BY DEF PipelineInv, WriterInv, Conserved, WriterTypeOK, WriterNothingLost,
         WriterWellFormed
<1>5. /\ cctx.coded \in Nat /\ cctx.fed \in Nat /\ cctx.fed =< accepted
  BY <1>4 DEF CCtx, Size, Buffer
<1> QED BY <1>1, <1>2, <1>3, <1>4, <1>5

LEMMA InvWritten == PipelineInv => ReadWasWritten
<1> SUFFICES ASSUME PipelineInv, cctx.healthy, dctx.healthy PROVE served =< accepted
  BY DEF ReadWasWritten, Healthy
<1>1. dctx.flushed =< Decodable(stream, dctx.taken)
  BY DEF PipelineInv, ReaderInv, Flow, ReaderWellFormed
<1>2. dctx.taken \in 0 .. Len(stream) /\ Len(stream) \in dctx.taken .. Len(stream)
  BY InvTypes
<1>3. /\ Decodable(stream, dctx.taken) \in Nat /\ Decodable(stream, Len(stream)) \in Nat
      /\ Decodable(stream, dctx.taken) =< Decodable(stream, Len(stream))
  BY <1>2, InvTypes, DecodableLemma
<1>4. Decodable(stream, Len(stream)) = cctx.coded
  BY DEF PipelineInv, Encoding
<1> QED BY <1>1, <1>3, <1>4, InvTypes

\* The reader never gets a byte that was not written, whatever fails around the two
\* contexts and however often it is tried again, until one of them is broken.
THEOREM NothingInvented == Spec => []ReadWasWritten
BY InvWritten, PipelineInvariant, PTL

\* After a close() of the writer that returned, the reader is not told of a truncation and
\* gets everything before it is told of the end.
THEOREM Agreement == Spec => []BothSidesAgree
<1>1. PipelineInv => BothSidesAgree
  <2> SUFFICES ASSUME PipelineInv, CloseReturned, Healthy
               PROVE  /\ readerCall.outcome # "EOFException"
                      /\ ToldEnd => served = accepted
    BY DEF BothSidesAgree
  <2>1. cctx.healthy /\ dctx.healthy
    BY DEF Healthy
  <2>2. writerPc = "caller"
    <3>1. writerCall.op = "close" /\ writerCall.outcome = "returned"
      BY DEF CloseReturned
    <3>2. writerPc \in {"caller", "compress", "flush", "closeCompressor", "closeSink"}
      BY DEF PipelineInv, WriterInv, Conserved, WriterTypeOK
    <3> QED BY <3>1, <3>2 DEF PipelineInv, WriterInv, Protocol, Delivery
  <2>3. cctx.coded = accepted /\ delivered = cctx.generated /\ ~cctx.inFrame
    BY <2>1, <2>2 DEF CloseReturned, PipelineInv, WriterInv, Delivery, CloseDelivers
  <2>4. /\ AtBoundary(stream, available) /\ Decodable(stream, available) = accepted
    BY <2>1, <2>3, InvTypes DEF PipelineInv, Encoding
  <2>5. readerCall.outcome # "EOFException"
    <3> SUFFICES ASSUME readerCall.outcome = "EOFException" PROVE FALSE
      OBVIOUS
    <3>1. readerCall = [op |-> "read", outcome |-> "EOFException"]
      BY DEF PipelineInv, ReaderInv, ReaderTypeOK, Phase
    <3> QED BY <2>1, <2>4, <3>1 DEF PipelineInv, ReaderInv, TruncationIsReal
  <2>6. ToldEnd => served = accepted
    BY <2>1, <2>4 DEF ToldEnd, PipelineInv, ReaderInv, CleanEnd
  <2> QED BY <2>5, <2>6
<1> QED BY <1>1, PipelineInvariant, PTL

\* A clean end is the end of all data, or nothing was delivered at all, also when the
\* writer's calls failed, unless close() found what an earlier failure had left.
THEOREM NoTruncation == Spec => []NoSilentTruncation
<1>1. PipelineInv => NoSilentTruncation
  <2> SUFFICES ASSUME PipelineInv, ToldEnd, Healthy, ~stale
               PROVE  sinkClosed /\ (served = accepted \/ delivered = 0)
    BY DEF NoSilentTruncation
  <2>1. cctx.healthy /\ dctx.healthy
    BY DEF Healthy
  <2>2. /\ finished /\ AtBoundary(stream, available)
        /\ served = Decodable(stream, available)
    BY <2>1 DEF ToldEnd, PipelineInv, ReaderInv, CleanEnd
  <2>3. ASSUME available # 0 PROVE served = accepted
    <3>1. available \in 1 .. Len(stream) /\ stream[available].kind = "end"
      BY <2>2, <2>3, InvTypes DEF AtBoundary
    <3>2. cctx.frames > 0 /\ stream[available].upto = cctx.coded
      BY <2>1, <3>1 DEF PipelineInv, Encoding
    <3>3. cctx.coded = accepted
      BY <2>1, <3>2 DEF PipelineInv, WriterInv, Whole, FrameIsWhole
    <3> QED BY <2>2, <2>3, <3>2, <3>3 DEF Decodable
  <2> QED BY <2>2, <2>3, InvTypes
<1> QED BY <1>1, PipelineInvariant, PTL

-----------------------------------------------------------------------------
(* Without failures the two streams are one *)

\* With no failures to come no context fails and no call throws an IOException; then close()
\* has everything delivered when it closes the downstream sink, and nothing moves after it.
Faultless ==
    /\ faults = 0 /\ cctx.healthy /\ dctx.healthy
    /\ writerPc \in {"closeCompressor", "closeSink"} => writerCall.outcome = "running"
    /\ sinkClosed => /\ writerClosed /\ cctx.coded = accepted
                     /\ delivered = cctx.generated /\ ~cctx.inFrame

LEMMA InitFaultless == Init => Faultless
BY DEF Init, WriterInit, ReaderInit, NewCCtx, NewDCtx, Faultless

LEMMA WriterFaultless ==
    ASSUME MaxFaults = 0, WriterInv, Faultless, WriterNext, UNCHANGED dctx PROVE Faultless'
<1>1. /\ faults = 0 /\ ~(faults < MaxFaults) /\ cctx.healthy /\ dctx'.healthy
      /\ Conserved /\ Protocol /\ Delivery
      /\ cctx \in CCtx /\ WriterWellFormed(cctx) /\ mode \in EndDirective
      /\ sinkBuffer \in Buffer /\ delivered \in Nat
      /\ sinkClosed \in BOOLEAN /\ writerClosed \in BOOLEAN
      /\ writerCall \in [op : Operation, outcome : WriterOutcome]
      /\ delivered + Size(sinkBuffer) = cctx.flushed
  BY DEF Faultless, WriterInv, Conserved, WriterTypeOK, WriterNothingLost
<1>2. CASE CompressPass
  <2>1. PICK avail \in Nat, cap \in Capacity(sinkBuffer) :
          \E out \in Outcomes(avail, cap) : IterationOf(avail, cap, out)
    BY <1>1, <1>2, IterationLemma
  <2>2. PICK out \in Outcomes(avail, cap) : IterationOf(avail, cap, out)
    BY <2>1
  <2>3. cap \in Nat /\ cap > 0
    BY <1>1, CapacityLemma
  <2>4. out \in Succeeded(cctx, mode, avail, cap)
    BY <1>1, Zenon DEF Outcomes
  <2>5. out.cctx.healthy /\ out.result # ErrorResult
    BY <1>1, <2>3, <2>4, SucceededLemma DEF FrameStep, WriterAccounted, ErrorResult
  <2>6. /\ cctx' = out.cctx /\ UNCHANGED sinkClosed
        /\ CompressReturns \/ UNCHANGED <<writerPc, writerCall>>
        /\ UNCHANGED faults
    BY <1>1, <2>2, <2>5 DEF IterationOf, EmitReturns, EmitThrows
  <2>7. ~sinkClosed /\ writerPc = "compress" /\ writerCall.outcome = "running"
    BY <1>1, <1>2 DEF CompressPass, Protocol
  <2>8. writerPc' \in {"closeCompressor", "closeSink"} => writerCall'.outcome = "running"
    BY <2>6, <2>7 DEF CompressReturns
  <2> QED BY <1>1, <2>5, <2>6, <2>7, <2>8 DEF Faultless
<1>3. CASE CloseSink
  <2>1. /\ writerPc = "closeSink" /\ writerPc' = "caller"
        /\ delivered' = delivered + Size(sinkBuffer)
        /\ UNCHANGED <<faults, cctx, writerClosed, accepted>>
    BY <1>1, <1>3 DEF CloseSink
  <2>2. /\ writerClosed /\ cctx.coded = accepted /\ cctx.generated = cctx.flushed
        /\ ~cctx.inFrame
    BY <1>1, <2>1 DEF Faultless, Protocol, Delivery, AllCoded, LastFrameClosed
  <2> QED BY <1>1, <2>1, <2>2 DEF Faultless
<1>4. CASE \/ \E n \in 0 .. MaxBytes : Write(n)
           \/ Flush \/ WriterClose
  <2>1. /\ UNCHANGED <<faults, cctx, sinkClosed>> /\ writerPc = "caller" /\ ~writerClosed
        /\ writerPc' \in {"caller", "compress"}
    BY <1>4 DEF Write, Flush, WriterClose, Compress
  <2>2. ~sinkClosed
    BY <1>1, <2>1 DEF Protocol, WriterResourcesReleased
  <2> QED BY <1>1, <2>1, <2>2 DEF Faultless
<1>5. CASE \/ WriterCloseAgain
           \/ \E op \in {"write", "flush"} : WriterRejected(op)
           \/ CloseCompressor \/ FlushSink
  <2>1. /\ UNCHANGED <<faults, cctx, sinkClosed, writerClosed, accepted>>
        /\ writerPc' \in {"closeCompressor", "closeSink"} =>
                writerPc = "closeCompressor" /\ writerCall' = writerCall
        /\ delivered' # delivered => writerPc = "flush"
    BY <1>1, <1>5 DEF WriterCloseAgain, WriterRejected, CloseCompressor, FlushSink
  <2>2. delivered' # delivered => ~sinkClosed
    BY <1>1, <2>1 DEF Protocol
  <2> QED BY <1>1, <2>1, <2>2 DEF Faultless
<1> QED BY <1>2, <1>3, <1>4, <1>5 DEF WriterNext, WriterCallerStep, ProgramStep

\* A healthy context decodes a stream without corrupt bytes.
LEMMA SoundStream ==
    ASSUME NEW s, NEW d, NEW avail, NEW cap, Callable(s, d, avail, cap), d.healthy,
           \A i \in 1 .. Len(s) : s[i].kind # "bad",
           NEW out \in DecompressStream(s, d, avail, cap)
    PROVE  out.dctx.healthy /\ out.result # DecodeError
<1>1. d \in DCtx /\ avail \in Nat /\ Len(s) \in Nat
  BY StreamLemma DEF Callable
<1>2. \/ out \in OutputFull(s, d, cap)
      \/ out \in HostageReleased(s, d, cap)
      \/ ~d.hostage /\ \E k \in Reads(s, d, avail, cap) : out = Decoded(s, d, k, cap)
  BY Zenon DEF DecompressStream
<1>3. CASE out \in OutputFull(s, d, cap)
  <2>1. out.dctx = [d EXCEPT !.flushed = d.flushed + cap] /\ out.result = 1
    BY <1>3 DEF OutputFull
  <2> QED BY <1>1, <2>1 DEF DCtx, DecodeError
<1>4. CASE out \in HostageReleased(s, d, cap)
  <2>1. /\ out.dctx = [d EXCEPT !.flushed = Decodable(s, d.taken), !.hostage = FALSE]
        /\ out.result = 0
    BY <1>4 DEF HostageReleased
  <2> QED BY <1>1, <2>1 DEF DCtx, DecodeError
<1>5. ASSUME ~d.hostage, NEW k \in Reads(s, d, avail, cap), out = Decoded(s, d, k, cap)
      PROVE  out.dctx.healthy /\ out.result # DecodeError
  <2>1. k \in 1 .. avail
    BY <1>5 DEF Reads
  <2>2. d.taken + k \in 1 .. Len(s)
    BY <1>1, <1>5, <2>1 DEF Callable, Reported, DCtx
  <2>3. s[d.taken + k].kind # "bad"
    BY <2>2
  <2> DEFINE t == d.taken + k
             held == Decodable(s, t) - d.flushed
             f == d.flushed + (IF held =< cap THEN held ELSE cap)
             h == s[t].kind = "end" /\ held > cap
  <2>4. /\ out.dctx = [d EXCEPT !.taken = t, !.flushed = f, !.hostage = h]
        /\ out.result \in {0, 1}
    BY <1>5, <2>3 DEF Decoded
  <2> HIDE DEF t, held, f, h
  <2>5. out.dctx.healthy
    BY <1>1, <2>4 DEF DCtx
  <2> QED BY <2>4, <2>5 DEF DecodeError
<1> QED BY <1>2, <1>3, <1>4, <1>5

LEMMA ReaderFaultless ==
    ASSUME MaxFaults = 0, PipelineInv, Faultless, ReaderCallerStep \/ Refill \/ Release,
           UNCHANGED writer
    PROVE  Faultless'
<1>1. /\ faults = 0 /\ ~(faults < MaxFaults) /\ cctx.healthy /\ dctx.healthy
  BY DEF Faultless
<1>2. CASE DecompressPass
  <2>1. PICK avail \in HeadSegment(sourceBuffer), cap \in Capacity(outputBuffer) :
          \E out \in DecompressStream(stream, dctx, avail, cap) : Pass(avail, cap, out)
    BY <1>1, <1>2 DEF DecompressPass
  <2>2. PICK out \in DecompressStream(stream, dctx, avail, cap) : Pass(avail, cap, out)
    BY <2>1
  <2>3. Callable(stream, dctx, avail, cap)
    BY <1>2, PassCallable DEF PipelineInv
  <2>4. \A i \in 1 .. Len(stream) : stream[i].kind # "bad"
    BY <1>1 DEF PipelineInv, Encoding
  <2>5. out.dctx.healthy /\ out.result # DecodeError
    BY <1>1, <2>3, <2>4, SoundStream
  <2>6. dctx' = out.dctx /\ faults' = faults
    BY <2>2, <2>5 DEF Pass
  <2> QED BY <1>1, <2>5, <2>6 DEF Faultless, writer
<1>3. CASE \/ ReaderCallerStep
           \/ RequestBuffered \/ RequestReads \/ RequestFails \/ RequestExhausted
           \/ Release
  <2>1. UNCHANGED <<faults, dctx>>
    <3>1. CASE ReaderCallerStep
      BY <3>1 DEF ReaderCallerStep, Read, ReaderRejected, ReaderClose, ReaderCloseAgain
    <3>2. CASE RequestBuffered \/ RequestReads \/ RequestFails \/ RequestExhausted
      BY <1>1, <3>2 DEF RequestBuffered, RequestReads, RequestFails, RequestExhausted
    <3>3. CASE Release
      BY <1>1, <3>3 DEF Release, CloseDecompressor, CloseSource
    <3> QED BY <1>3, <3>1, <3>2, <3>3
  <2> QED BY <1>1, <2>1 DEF Faultless, writer
<1> QED BY <1>2, <1>3 DEF Refill

LEMMA NextFaultless ==
    ASSUME MaxFaults = 0, PipelineInv, Faultless, [Next]_vars PROVE Faultless'
<1>1. CASE CallsWriter \/ WriterRuns
  <2>1. WriterNext /\ UNCHANGED dctx
    BY <1>1 DEF CallsWriter, WriterRuns, WriterStep, WriterNext, reader
  <2> QED BY <2>1, WriterFaultless DEF PipelineInv
<1>2. CASE CallsReader \/ ReaderRuns
  <2>1. (ReaderCallerStep \/ Refill \/ Release) /\ UNCHANGED writer
    BY <1>2 DEF CallsReader, ReaderRuns, ReaderStep
  <2> QED BY <2>1, ReaderFaultless
<1>3. CASE ZstdCompress \/ ZstdDecompress \/ UNCHANGED vars
  BY <1>3 DEF ZstdCompress, ZstdDecompress, vars, writer, reader, Faultless
<1> QED BY <1>1, <1>2, <1>3 DEF Next

\* A reader that is told of the end was told so by a writer that has closed, and has it all.
EndIsReal == ToldEnd => writerClosed /\ served = accepted

LEMMA FaultlessEnd == PipelineInv /\ Faultless => EndIsReal
<1> SUFFICES ASSUME PipelineInv, Faultless, ToldEnd PROVE writerClosed /\ served = accepted
  BY DEF EndIsReal
<1>1. finished /\ served = Decodable(stream, available)
  BY DEF Faultless, ToldEnd, PipelineInv, ReaderInv, CleanEnd
<1>2. writerClosed /\ cctx.coded = accepted /\ delivered = cctx.generated
  BY <1>1, InvTypes DEF Faultless
<1>3. Decodable(stream, Len(stream)) = cctx.coded
  BY DEF Faultless, PipelineInv, Encoding
<1> QED BY <1>1, <1>2, <1>3, InvTypes

\* What a step of the source does for its caller.
ReaderMoves ==
    \/ UNCHANGED <<readerCall, served>>
    \/ readerCall'.outcome # "exhausted" /\ served' >= served
    \/ ToldEnd' /\ served' = served

LEMMA ServeMoves ==
    ASSUME NEW b \in Buffer, NEW n \in Nat, served \in Nat, Serve(b, n) PROVE ReaderMoves
<1>1. CASE Size(b) = 0
  BY <1>1 DEF Serve, ReaderMoves, ToldEnd
<1>2. CASE Size(b) # 0
  <2> DEFINE k == IF n < Size(b) THEN n ELSE Size(b)
  <2>1. readerCall' = [op |-> "read", outcome |-> "returned"] /\ served' = served + k
    BY <1>2 DEF Serve
  <2>2. k \in Nat
    BY DEF Size, Buffer
  <2> HIDE DEF k
  <2> QED BY <2>1, <2>2 DEF ReaderMoves
<1> QED BY <1>1, <1>2

LEMMA StepMoves ==
    ASSUME ReaderInv, ReaderCallerStep \/ Refill \/ Release PROVE ReaderMoves
<1>1. /\ served \in Nat /\ outputBuffer \in Buffer /\ byteCount \in Nat
      /\ readerCall \in [op : {"none", "read", "close", "closeAgain"}, outcome : ReaderOutcome]
  BY SourceAssumption DEF ReaderInv, ReaderTypeOK
<1>2. ASSUME NEW n \in 0 .. MaxRead, Read(n) PROVE ReaderMoves
  <2>1. n \in Nat
    BY SourceAssumption
  <2>2. CASE Serve(outputBuffer, n)
    BY <1>1, <2>1, <2>2, ServeMoves
  <2>3. CASE readerCall'.outcome # "exhausted" /\ UNCHANGED served
    BY <1>1, <2>3 DEF ReaderMoves
  <2> QED BY <1>2, <2>2, <2>3 DEF Read
<1>3. CASE ReaderRejected \/ ReaderClose \/ ReaderCloseAgain \/ RequestFails \/ CloseSource
  <2>1. readerCall'.outcome # "exhausted" /\ UNCHANGED served
    BY <1>1, <1>3 DEF ReaderRejected, ReaderClose, ReaderCloseAgain, RequestFails, CloseSource,
                      ReadThrows
  <2> QED BY <1>1, <2>1 DEF ReaderMoves
<1>4. CASE RequestBuffered \/ RequestReads \/ CloseDecompressor
  BY <1>4 DEF RequestBuffered, RequestReads, CloseDecompressor, ReaderMoves
<1>5. CASE RequestExhausted
  <2>1. CASE Serve(outputBuffer, byteCount)
    BY <1>1, <2>1, ServeMoves
  <2>2. CASE ReadThrows("EOFException") /\ UNCHANGED served
    BY <1>1, <2>2 DEF ReadThrows, ReaderMoves
  <2> QED BY <1>5, <2>1, <2>2 DEF RequestExhausted
<1>6. CASE DecompressPass
  <2>1. PICK avail \in Nat, cap \in Capacity(outputBuffer) : \E out : Passed(avail, cap, out)
    BY <1>6, PassLemma
  <2>2. PICK out : Passed(avail, cap, out)
    BY <2>1
  <2> DEFINE b == Resized(outputBuffer, cap, out.put)
  <2>3. b \in Buffer
    BY <1>1, <2>2, ResizedLemma DEF Passed
  <2>4. b = ReaderKeptOutput(cap, decompressor')
    BY <2>2 DEF Passed, ReaderKeptOutput
  <2> HIDE DEF b
  <2>5. \/ ReadThrows("IOException") /\ UNCHANGED served
        \/ UNCHANGED <<readerCall, served>>
        \/ Serve(b, byteCount)
    BY <2>2, <2>4 DEF Passed, Pass
  <2>6. CASE Serve(b, byteCount)
    BY <1>1, <2>3, <2>6, ServeMoves
  <2>7. CASE ReadThrows("IOException") /\ UNCHANGED served
    BY <1>1, <2>7 DEF ReadThrows, ReaderMoves
  <2> QED BY <2>5, <2>6, <2>7 DEF ReaderMoves
<1> QED BY <1>2, <1>3, <1>4, <1>5, <1>6 DEF ReaderCallerStep, Refill, Release

LEMMA InitImplements == Init => Promise!Init
BY DEF Init, WriterInit, ReaderInit, ToldEnd, Promise!Init

\* A step of the writer: write() and the first close() are the promised ones, every other
\* step of it is invisible.
LEMMA WriterImplements ==
    ASSUME PipelineInv, CallsWriter \/ WriterRuns PROVE [Promise!Next]_(Promise!vars)
<1>1. UNCHANGED <<readerCall, served>> /\ accepted \in Nat
  BY DEF CallsWriter, WriterRuns, WriterStep, reader, PipelineInv, WriterInv, Conserved,
         WriterTypeOK
<1>2. ToldEnd' <=> ToldEnd
  BY <1>1 DEF ToldEnd
<1>3. CASE \E n \in 0 .. MaxBytes : Write(n)
  <2>1. PICK n \in 0 .. MaxBytes : Write(n)
    BY <1>3
  <2>2. accepted' = accepted + n /\ ~writerClosed /\ writerClosed' = writerClosed
    BY <2>1 DEF Write
  <2>3. n \in Nat
    BY SinkAssumption
  <2>4. CASE n = 0
    <3>1. accepted' = accepted
      BY <1>1, <2>2, <2>4
    <3> QED BY <1>1, <1>2, <2>2, <3>1 DEF Promise!vars
  <2>5. CASE n # 0
    <3>1. accepted' > accepted
      BY <1>1, <2>2, <2>3, <2>5
    <3>2. Promise!Write
      BY <1>1, <1>2, <2>2, <3>1 DEF Promise!Write
    <3> QED BY <3>2 DEF Promise!Next
  <2> QED BY <2>4, <2>5
<1>4. CASE WriterClose
  <2>1. writerClosed' = TRUE /\ accepted' = accepted
    BY <1>4 DEF WriterClose, WriterClosedOnEntry
  <2>2. Promise!Shut
    BY <1>1, <1>2, <2>1 DEF Promise!Shut
  <2> QED BY <2>2 DEF Promise!Next
<1>5. CASE \/ Flush \/ WriterCloseAgain
           \/ \E op \in {"write", "flush"} : WriterRejected(op)
           \/ ProgramStep
  <2>1. UNCHANGED <<accepted, writerClosed>>
    <3>1. CASE \/ Flush \/ WriterCloseAgain
               \/ \E op \in {"write", "flush"} : WriterRejected(op)
      BY <3>1 DEF Flush, WriterCloseAgain, WriterRejected
    <3>2. CASE ProgramStep
      BY <3>2 DEF ProgramStep, CompressPass, Iteration, FlushSink, CloseCompressor, CloseSink
    <3> QED BY <1>5, <3>1, <3>2
  <2> QED BY <1>1, <1>2, <2>1 DEF Promise!vars
<1> QED BY <1>3, <1>4, <1>5 DEF CallsWriter, WriterRuns, WriterStep, WriterCallerStep

\* A step of the reader: it reads bytes that were written, is told of an end that is one, or
\* is told of neither.
LEMMA ReaderImplements ==
    ASSUME PipelineInv, PipelineInv', Faultless', ReadWasWritten', EndIsReal',
           CallsReader \/ ReaderRuns
    PROVE  [Promise!Next]_(Promise!vars)
<1>1. /\ ReaderCallerStep \/ Refill \/ Release
      /\ UNCHANGED <<accepted, writerClosed>>
      /\ served \in Nat /\ served' \in Nat
  BY DEF CallsReader, ReaderRuns, ReaderStep, writer, PipelineInv, ReaderInv, ReaderTypeOK
<1>2. ReaderMoves
  BY <1>1, StepMoves DEF PipelineInv
<1>3. CASE UNCHANGED <<readerCall, served>>
  BY <1>1, <1>3 DEF ToldEnd, Promise!vars
<1>4. CASE readerCall'.outcome # "exhausted" /\ served' >= served
  <2>1. ~ToldEnd'
    BY <1>4 DEF ToldEnd
  <2>2. CASE served' = served
    <3>1. Promise!Other
      BY <1>1, <2>1, <2>2 DEF Promise!Other
    <3> QED BY <3>1 DEF Promise!Next
  <2>3. CASE served' # served
    <3>1. served' > served
      BY <1>1, <1>4, <2>3
    <3>2. served' =< accepted'
      BY DEF ReadWasWritten, Healthy, Faultless
    <3>3. Promise!Read
      BY <1>1, <2>1, <3>1, <3>2 DEF Promise!Read
    <3> QED BY <3>3 DEF Promise!Next
  <2> QED BY <2>2, <2>3
<1>5. CASE ToldEnd' /\ served' = served
  <2>1. writerClosed' /\ served' = accepted'
    BY <1>5 DEF EndIsReal
  <2>2. Promise!End
    BY <1>1, <1>5, <2>1 DEF Promise!End
  <2> QED BY <2>2 DEF Promise!Next
<1> QED BY <1>2, <1>3, <1>4, <1>5 DEF ReaderMoves

\* Without failures a ZstdCompressSink, a pipe and a ZstdDecompressSource are a stream of
\* bytes that loses none and ends where it was closed.
THEOREM Refinement ==
    ASSUME MaxFaults = 0
    PROVE  Spec => ImplementsLosslessStream
<1>1. PipelineInv /\ Faultless /\ [Next]_vars => Faultless'
  BY NextFaultless
<1>2. (/\ PipelineInv /\ PipelineInv' /\ Faultless'
       /\ ReadWasWritten' /\ EndIsReal' /\ [Next]_vars)
        => [Promise!Next]_(Promise!vars)
  <2> SUFFICES ASSUME PipelineInv, PipelineInv', Faultless', ReadWasWritten', EndIsReal',
                      [Next]_vars
               PROVE  [Promise!Next]_(Promise!vars)
    OBVIOUS
  <2>1. CASE CallsWriter \/ WriterRuns
    BY <2>1, WriterImplements
  <2>2. CASE CallsReader \/ ReaderRuns
    BY <2>2, ReaderImplements
  <2>3. CASE ZstdCompress \/ ZstdDecompress \/ UNCHANGED vars
    BY <2>3 DEF ZstdCompress, ZstdDecompress, vars, writer, reader, ToldEnd, Promise!vars
  <2> QED BY <2>1, <2>2, <2>3 DEF Next
<1> QED BY InitFaultless, InitImplements, PipelineInvariant, InvWritten, FaultlessEnd,
           <1>1, <1>2, PTL
        DEF Spec, ImplementsLosslessStream, Promise!Spec
=============================================================================
