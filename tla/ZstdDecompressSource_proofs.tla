--------------------- MODULE ZstdDecompressSource_proofs --------------------
(***************************************************************************)
(* Theorems about ZstdDecompressSource, for every stream, every segment    *)
(* size, every number of reads and every number of failures.               *)
(***************************************************************************)
EXTENDS ZstdDecompressSource, OkioBuffer_proofs

-----------------------------------------------------------------------------
(* Lemmas about streams *)

Mark == [upto : Nat, kind : {"mid", "end", "bad"}]

LEMMA StreamLemma ==
    ASSUME NEW s, IsStream(s)
    PROVE  /\ Len(s) \in Nat
           /\ \A i \in 1 .. Len(s) : s[i].upto \in Nat /\ s[i].kind \in {"mid", "end", "bad"}
<1>1. s \in Seq(Mark)
  BY DEF IsStream, Mark
<1>2. Len(s) \in Nat /\ \A i \in 1 .. Len(s) : s[i] \in Mark
  BY <1>1
<1>3. QED
  BY <1>2 DEF Mark

\* A longer prefix determines no less.
LEMMA DecodableLemma ==
    ASSUME NEW s, IsStream(s), NEW n \in 0 .. Len(s), NEW m \in n .. Len(s)
    PROVE  /\ Decodable(s, n) \in Nat /\ Decodable(s, m) \in Nat
           /\ Decodable(s, n) =< Decodable(s, m)
<1>1. Len(s) \in Nat /\ \A i \in 1 .. Len(s) : s[i].upto \in Nat
  BY StreamLemma
<1>2. \A i, j \in 1 .. Len(s) : i < j => s[i].upto =< s[j].upto
  BY DEF IsStream
<1>3. CASE n = 0
  BY <1>1, <1>3 DEF Decodable
<1>4. CASE n # 0
  <2>1. n \in 1 .. Len(s) /\ m \in 1 .. Len(s) /\ (n = m \/ n < m)
    BY <1>1, <1>4
  <2>2. QED
    BY <1>1, <1>2, <2>1 DEF Decodable
<1>5. QED
  BY <1>3, <1>4

-----------------------------------------------------------------------------
(* Lemmas about decompressStream *)

\* What holds of a context after any number of calls on stream s.
ReaderWellFormed(s, d) ==
    /\ d.taken =< Len(s)
    /\ ~d.healthy => ~d.hostage
    /\ d.hostage => /\ d.taken > 0 /\ s[d.taken].kind = "end"
                    /\ d.flushed < Decodable(s, d.taken)
    /\ d.healthy => /\ d.flushed =< Decodable(s, d.taken)
                    /\ \A i \in 1 .. d.taken : s[i].kind # "bad"

\* What a call does to the counts.
ReaderAccounted(d, avail, cap, out) ==
    /\ out.dctx \in DCtx
    /\ out.took \in 0 .. avail
    /\ out.put \in 0 .. cap
    /\ out.result \in {0, 1, DecodeError}
    /\ Reported(out.dctx) = Reported(d) + out.took
    /\ out.dctx.flushed = d.flushed + out.put
    /\ out.dctx.taken =< Reported(d) + avail

\* What a result says: 0 that a frame is over and its data is out, anything else, once the
\* input is used up, that a frame is open.
Truthful(s, avail, out) ==
    out.dctx.healthy =>
        /\ out.result = 0 => /\ ~out.dctx.hostage /\ AtBoundary(s, out.dctx.taken)
                             /\ out.dctx.flushed = Decodable(s, out.dctx.taken)
        /\ (out.result # 0 /\ out.took = avail) => ~AtBoundary(s, out.dctx.taken)

\* A call that the context allows: its input is the rest of the stream, or a part of it.
Callable(s, d, avail, cap) ==
    /\ IsStream(s)
    /\ d \in DCtx
    /\ ReaderWellFormed(s, d)
    /\ avail \in Nat \ {0}
    /\ cap \in Nat \ {0}
    /\ Reported(d) + avail =< Len(s)

Proper(s, d, avail, cap, out) ==
    /\ ReaderAccounted(d, avail, cap, out)
    /\ ReaderWellFormed(s, out.dctx)
    /\ Truthful(s, avail, out)

LEMMA ReportedLemma ==
    ASSUME NEW s, NEW d \in DCtx, ReaderWellFormed(s, d)
    PROVE  /\ Reported(d) \in Nat
           /\ d.hostage => Reported(d) = d.taken - 1
           /\ ~d.hostage => Reported(d) = d.taken
BY DEF Reported, DCtx, ReaderWellFormed

LEMMA OutputFullLemma ==
    ASSUME NEW s, NEW d, NEW avail, NEW cap, Callable(s, d, avail, cap), d.healthy,
           NEW out \in OutputFull(s, d, cap)
    PROVE  Proper(s, d, avail, cap, out)
<1> DEFINE f == d.flushed + cap
<1>1. /\ Decodable(s, d.taken) - d.flushed > cap
      /\ out.dctx = [d EXCEPT !.flushed = f]
      /\ out.took = 0 /\ out.put = cap /\ out.result = 1
  <2>1. /\ ~(Unflushed(s, d) =< cap)
        /\ out = [dctx |-> [d EXCEPT !.flushed = d.flushed + cap],
                  took |-> 0, put |-> cap, result |-> 1]
    BY Zenon DEF OutputFull
  <2>2. Decodable(s, d.taken) \in Nat /\ d.flushed \in Nat /\ cap \in Nat
    BY StreamLemma, DecodableLemma DEF Callable, ReaderWellFormed, DCtx
  <2>3. QED
    BY <2>1, <2>2 DEF Unflushed
<1>2. d \in DCtx /\ d.taken \in 0 .. Len(s) /\ cap \in Nat \ {0} /\ avail \in Nat \ {0}
      /\ f \in Nat /\ f < Decodable(s, d.taken) /\ Decodable(s, d.taken) \in Nat
  <2>1. d.taken \in 0 .. Len(s)
    BY StreamLemma DEF Callable, ReaderWellFormed, DCtx
  <2>2. Decodable(s, d.taken) \in Nat
    BY <2>1, DecodableLemma, StreamLemma DEF Callable
  <2>3. QED
    BY <1>1, <2>1, <2>2 DEF Callable, DCtx
<1> HIDE DEF f
<1>3. /\ out.dctx \in DCtx
      /\ out.dctx.taken = d.taken /\ out.dctx.flushed = f
      /\ out.dctx.hostage <=> d.hostage
      /\ out.dctx.healthy <=> d.healthy
      /\ out.took = 0 /\ out.put = cap /\ out.result = 1
  BY <1>1, <1>2 DEF DCtx
<1>4. Reported(out.dctx) = Reported(d) /\ Reported(d) \in Nat /\ d.taken =< Reported(d) + avail
  BY <1>2, <1>3, ReportedLemma DEF Reported, Callable, DCtx
<1>5. ReaderAccounted(d, avail, cap, out)
  BY <1>2, <1>3, <1>4 DEF ReaderAccounted, f
<1>6. ReaderWellFormed(s, out.dctx)
  BY <1>2, <1>3 DEF ReaderWellFormed, Callable, DCtx
<1>7. Truthful(s, avail, out)
  BY <1>2, <1>3 DEF Truthful
<1>8. QED
  BY <1>5, <1>6, <1>7 DEF Proper

LEMMA HostageReleasedLemma ==
    ASSUME NEW s, NEW d, NEW avail, NEW cap, Callable(s, d, avail, cap), d.healthy,
           NEW out \in HostageReleased(s, d, cap)
    PROVE  Proper(s, d, avail, cap, out)
<1> DEFINE f == Decodable(s, d.taken)
<1>1. /\ d.hostage /\ ~(f - d.flushed > cap)
      /\ out = [dctx |-> [d EXCEPT !.flushed = f, !.hostage = FALSE],
                took |-> 1, put |-> f - d.flushed, result |-> 0]
  BY Zenon DEF HostageReleased, Unflushed
<1>2. d \in DCtx /\ d.taken \in 1 .. Len(s) /\ cap \in Nat \ {0} /\ avail \in Nat \ {0}
      /\ f \in Nat /\ d.flushed =< f /\ s[d.taken].kind = "end"
  <2>1. d.taken \in 0 .. Len(s) /\ d.taken > 0
    BY <1>1, StreamLemma DEF Callable, ReaderWellFormed, DCtx
  <2>2. Decodable(s, d.taken) \in Nat
    BY <2>1, DecodableLemma, StreamLemma DEF Callable
  <2>3. QED
    BY <1>1, <2>1, <2>2 DEF Callable, ReaderWellFormed
<1> HIDE DEF f
<1>3. /\ out.dctx \in DCtx
      /\ out.dctx.taken = d.taken /\ out.dctx.flushed = f
      /\ ~out.dctx.hostage
      /\ out.dctx.healthy <=> d.healthy
      /\ out.took = 1 /\ out.put = f - d.flushed /\ out.result = 0
  BY <1>1, <1>2 DEF DCtx
<1>4. Reported(out.dctx) = d.taken /\ Reported(d) = d.taken - 1
  BY <1>1, <1>3 DEF Reported
<1>5. ReaderAccounted(d, avail, cap, out)
  <2>1. d.flushed \in Nat /\ d.taken \in Nat /\ avail >= 1
    BY <1>2 DEF DCtx
  <2>2. out.put \in 0 .. cap /\ out.put = f - d.flushed
    BY <1>1, <1>2, <1>3, <2>1
  <2>3. out.took \in 0 .. avail /\ out.result \in {0, 1, DecodeError}
    BY <1>2, <1>3, <2>1
  <2>4. /\ Reported(out.dctx) = Reported(d) + out.took
        /\ out.dctx.flushed = d.flushed + out.put
        /\ out.dctx.taken =< Reported(d) + avail
    BY <1>2, <1>3, <1>4, <2>1
  <2>5. QED
    BY <1>3, <2>2, <2>3, <2>4 DEF ReaderAccounted
<1>6. ReaderWellFormed(s, out.dctx)
  BY <1>2, <1>3 DEF ReaderWellFormed, Callable, f
<1>7. Truthful(s, avail, out)
  BY <1>2, <1>3 DEF Truthful, AtBoundary, f
<1>8. QED
  BY <1>5, <1>6, <1>7 DEF Proper

LEMMA DecodedLemma ==
    ASSUME NEW s, NEW d, NEW avail, NEW cap, Callable(s, d, avail, cap), d.healthy,
           ~d.hostage, ~(Unflushed(s, d) > cap),
           NEW k \in Reads(s, d, avail, cap), NEW out, out = Decoded(s, d, k, cap)
    PROVE  Proper(s, d, avail, cap, out)
<1> DEFINE t == d.taken + k
           held == Decodable(s, t) - d.flushed
           put == IF held =< cap THEN held ELSE cap
           f == d.flushed + put
<1>1. /\ d \in DCtx /\ d.taken \in 0 .. Len(s) /\ d.flushed \in Nat /\ Len(s) \in Nat
      /\ cap \in Nat \ {0} /\ avail \in Nat \ {0}
      /\ d.flushed =< Decodable(s, d.taken)
      /\ \A i \in 1 .. d.taken : s[i].kind # "bad"
      /\ Reported(d) = d.taken
  BY StreamLemma DEF Callable, ReaderWellFormed, DCtx, Reported
<1>2. /\ k \in 1 .. avail
      /\ \A j \in 1 .. k - 1 : s[d.taken + j].kind = "mid"
      /\ k = avail \/ s[d.taken + k].kind # "mid" \/ Decodable(s, d.taken + k) - d.flushed >= cap
  BY DEF Reads
<1>3. t \in 1 .. Len(s) /\ t \in Nat /\ t =< d.taken + avail /\ d.taken =< t
  BY <1>1, <1>2 DEF Callable
<1>4. s[t].kind \in {"mid", "end", "bad"}
  BY <1>3, StreamLemma DEF Callable
<1>5. /\ Decodable(s, t) \in Nat /\ Decodable(s, d.taken) =< Decodable(s, t)
      /\ Decodable(s, d.taken) \in Nat
  <2>1. t \in d.taken .. Len(s)
    BY <1>1, <1>3
  <2>2. QED
    BY <1>1, <2>1, DecodableLemma DEF Callable
<1>6. held \in Nat /\ put \in 0 .. cap /\ put \in Nat /\ f \in Nat /\ f =< Decodable(s, t)
      /\ (held =< cap => f = Decodable(s, t))
      /\ (~(held =< cap) => f < Decodable(s, t))
  BY <1>1, <1>5
<1>7. CASE s[t].kind = "bad"
  <2>1. out = [dctx |-> [d EXCEPT !.healthy = FALSE],
               took |-> 0, put |-> 0, result |-> DecodeError]
    BY <1>7, Zenon DEF Decoded, t
  <2>2. /\ out.dctx \in DCtx
        /\ out.dctx.taken = d.taken /\ out.dctx.flushed = d.flushed
        /\ ~out.dctx.hostage /\ ~out.dctx.healthy
        /\ out.took = 0 /\ out.put = 0 /\ out.result = DecodeError
    <3>1. d \in DCtx /\ out.dctx = [d EXCEPT !.healthy = FALSE]
      BY <1>1, <2>1
    <3>2. out.took = 0 /\ out.put = 0 /\ out.result = DecodeError
      BY <2>1
    <3>3. out.dctx \in DCtx /\ out.dctx.taken = d.taken /\ out.dctx.flushed = d.flushed
      BY <3>1 DEF DCtx
    <3>4. ~out.dctx.hostage
      BY <3>1 DEF DCtx
    <3>5. ~out.dctx.healthy
      BY <3>1 DEF DCtx
    <3>6. QED
      BY <3>2, <3>3, <3>4, <3>5
  <2>3. Reported(out.dctx) = d.taken
    BY <2>2 DEF Reported
  <2>4. ReaderAccounted(d, avail, cap, out)
    BY <1>1, <2>2, <2>3 DEF ReaderAccounted
  <2>5. ReaderWellFormed(s, out.dctx) /\ Truthful(s, avail, out)
    BY <1>1, <2>2 DEF ReaderWellFormed, Truthful
  <2>6. QED
    BY <2>4, <2>5 DEF Proper
<1>8. CASE s[t].kind # "bad"
  <2> DEFINE hostage == s[t].kind = "end" /\ held > cap
             took == IF hostage THEN k - 1 ELSE k
             result == IF s[t].kind = "end" /\ ~hostage THEN 0 ELSE 1
  <2>1. out = [dctx |-> [d EXCEPT !.taken = t, !.flushed = f, !.hostage = hostage],
               took |-> took, put |-> put, result |-> result]
    BY <1>8, Zenon DEF Decoded
  <2>2. hostage \in BOOLEAN
    OBVIOUS
  <2>3. /\ hostage => took = k - 1 /\ result = 1 /\ s[t].kind = "end" /\ f < Decodable(s, t)
        /\ ~hostage => /\ took = k /\ (s[t].kind = "end" => result = 0 /\ f = Decodable(s, t))
                       /\ (s[t].kind = "mid" => result = 1)
        /\ result \in {0, 1}
    BY <1>1, <1>4, <1>5, <1>6, <1>8
  <2>4. ~hostage /\ s[t].kind # "end" => k = avail \/ took # avail \/ s[t].kind = "mid"
    BY <1>4, <1>8
  <2>5. \A i \in 1 .. t : s[i].kind # "bad"
    <3> SUFFICES ASSUME NEW i \in 1 .. t PROVE s[i].kind # "bad"
      OBVIOUS
    <3>1. CASE i \in 1 .. d.taken
      BY <1>1, <3>1
    <3>2. CASE i = t
      BY <1>8, <3>2
    <3>3. CASE i > d.taken /\ i < t
      <4>1. i - d.taken \in 1 .. k - 1 /\ i = d.taken + (i - d.taken)
        BY <1>1, <1>2, <1>3, <3>3
      <4>2. s[i].kind = "mid"
        BY <1>2, <4>1
      <4>3. QED
        BY <4>2
    <3>4. QED
      BY <1>1, <1>3, <3>1, <3>2, <3>3
  <2> HIDE DEF hostage, took, result, put, f, t
  <2>6. /\ out.dctx \in DCtx
        /\ out.dctx.taken = t /\ out.dctx.flushed = f
        /\ out.dctx.hostage <=> hostage
        /\ out.dctx.healthy <=> d.healthy
        /\ out.took = took /\ out.put = put /\ out.result = result
    <3>1. d \in DCtx /\ t \in Nat /\ f \in Nat
      BY <1>1, <1>3, <1>6
    <3>2. out.dctx = [d EXCEPT !.taken = t, !.flushed = f, !.hostage = hostage]
      BY <2>1
    <3>3. out.took = took /\ out.put = put /\ out.result = result
      BY <2>1
    <3>4. out.dctx \in DCtx /\ out.dctx.taken = t /\ out.dctx.flushed = f
      BY <2>2, <3>1, <3>2 DEF DCtx
    <3>5. out.dctx.hostage <=> hostage
      BY <2>2, <3>1, <3>2 DEF DCtx
    <3>6. out.dctx.healthy <=> d.healthy
      BY <2>2, <3>1, <3>2 DEF DCtx
    <3>7. QED
      BY <3>3, <3>4, <3>5, <3>6
  <2>7. /\ hostage => Reported(out.dctx) = t - 1
        /\ ~hostage => Reported(out.dctx) = t
    BY <2>6 DEF Reported
  <2>8. ReaderAccounted(d, avail, cap, out)
    <3>1. took \in 0 .. avail /\ Reported(out.dctx) = d.taken + took
      BY <1>1, <1>2, <1>3, <2>3, <2>7 DEF t
    <3>2. out.dctx.flushed = d.flushed + put
      BY <2>6 DEF f
    <3>3. QED
      BY <1>1, <1>3, <1>6, <2>3, <2>6, <3>1, <3>2 DEF ReaderAccounted
  <2>9. ReaderWellFormed(s, out.dctx)
    BY <1>3, <1>6, <2>3, <2>5, <2>6 DEF ReaderWellFormed
  <2>10. Truthful(s, avail, out)
    <3>1. hostage => took # avail
      BY <1>1, <1>2, <2>3
    <3>2. result = 0 => ~hostage /\ s[t].kind = "end" /\ f = Decodable(s, t)
      BY <1>4, <1>8, <2>3
    <3>3. result # 0 /\ took = avail => s[t].kind # "end"
      BY <2>3, <3>1
    <3>4. QED
      BY <1>3, <2>6, <3>2, <3>3 DEF Truthful, AtBoundary
  <2>11. QED
    BY <2>8, <2>9, <2>10 DEF Proper
<1>9. QED
  BY <1>7, <1>8

LEMMA UndefinedLemma ==
    ASSUME NEW s, NEW d, NEW avail, NEW cap, Callable(s, d, avail, cap), ~d.healthy,
           NEW out \in Undefined(d, avail)
    PROVE  Proper(s, d, avail, cap, out)
<1>1. /\ d \in DCtx /\ d.taken \in 0 .. Len(s) /\ d.flushed \in Nat /\ Len(s) \in Nat
      /\ cap \in Nat \ {0} /\ avail \in Nat \ {0} /\ ~d.hostage
      /\ Reported(d) = d.taken /\ d.taken + avail =< Len(s)
  BY StreamLemma DEF Callable, ReaderWellFormed, DCtx, Reported
<1>2. CASE out = FailAgain(d)
  <2>1. out.dctx = d /\ out.took = 0 /\ out.put = 0 /\ out.result = DecodeError
    BY <1>2 DEF FailAgain
  <2>2. ReaderAccounted(d, avail, cap, out)
    BY <1>1, <2>1 DEF ReaderAccounted, DCtx
  <2>3. ReaderWellFormed(s, out.dctx) /\ Truthful(s, avail, out)
    BY <2>1 DEF ReaderWellFormed, Truthful, Callable
  <2>4. QED
    BY <2>2, <2>3 DEF Proper
<1>3. CASE out # FailAgain(d)
  <2>1. PICK took \in {0, avail}, put \in 0 .. (IF d.flushed < MaxGarbage THEN 1 ELSE 0),
             r \in {0, 1} : out = RunOn(d, took, put, r)
    BY <1>3 DEF Undefined
  <2> DEFINE t == d.taken + took
             f == d.flushed + put
  <2>2. t \in Nat /\ f \in Nat /\ t =< Len(s) /\ took \in 0 .. avail /\ put \in 0 .. cap
    BY <1>1
  <2>3. out = [dctx |-> [d EXCEPT !.taken = t, !.flushed = f],
               took |-> took, put |-> put, result |-> r]
    BY <2>1 DEF RunOn
  <2>4. t = d.taken + took /\ f = d.flushed + put
    OBVIOUS
  <2> HIDE DEF t, f
  <2>5. /\ out.dctx \in DCtx /\ out.dctx.taken = t /\ out.dctx.flushed = f
        /\ ~out.dctx.hostage /\ ~out.dctx.healthy
        /\ out.took = took /\ out.put = put /\ out.result = r
    <3>1. out.dctx = [d EXCEPT !.taken = t, !.flushed = f]
      BY <2>3
    <3>2. out.took = took /\ out.put = put /\ out.result = r
      BY <2>3
    <3>3. out.dctx \in DCtx /\ out.dctx.taken = t /\ out.dctx.flushed = f
      BY <1>1, <2>2, <3>1 DEF DCtx
    <3>4. ~out.dctx.hostage
      BY <1>1, <2>2, <3>1 DEF DCtx
    <3>5. ~out.dctx.healthy
      BY <1>1, <2>2, <3>1 DEF DCtx
    <3>6. QED
      BY <3>2, <3>3, <3>4, <3>5
  <2>6. Reported(out.dctx) = t
    BY <2>5 DEF Reported
  <2>7. ReaderAccounted(d, avail, cap, out)
    BY <1>1, <2>2, <2>4, <2>5, <2>6 DEF ReaderAccounted
  <2>8. ReaderWellFormed(s, out.dctx) /\ Truthful(s, avail, out)
    BY <2>2, <2>5 DEF ReaderWellFormed, Truthful
  <2>9. QED
    BY <2>7, <2>8 DEF Proper
<1>4. QED
  BY <1>2, <1>3

\* Every call keeps the counts, whatever became of the context.
LEMMA DecompressStreamLemma ==
    ASSUME NEW s, NEW d, NEW avail, NEW cap, Callable(s, d, avail, cap),
           NEW out \in DecompressStream(s, d, avail, cap)
    PROVE  Proper(s, d, avail, cap, out)
<1>1. CASE ~d.healthy
  BY <1>1, UndefinedLemma DEF DecompressStream
<1>2. CASE d.healthy
  <2>1. \/ out \in OutputFull(s, d, cap)
        \/ out \in HostageReleased(s, d, cap)
        \/ /\ ~d.hostage /\ ~(Unflushed(s, d) > cap)
           /\ \E k \in Reads(s, d, avail, cap) : out = Decoded(s, d, k, cap)
    BY <1>2, Zenon DEF DecompressStream
  <2>2. QED
    BY <1>2, <2>1, OutputFullLemma, HostageReleasedLemma, DecodedLemma
<1>3. QED
  BY <1>1, <1>2

\* A call that was not made keeps them as well.
LEMMA NotCalledLemma ==
    ASSUME NEW s, NEW d, NEW avail, NEW cap, Callable(s, d, avail, cap)
    PROVE  Proper(s, d, avail, cap, NotCalled(d))
<1> DEFINE out == NotCalled(d)
<1>1. out.dctx = d /\ out.took = 0 /\ out.put = 0 /\ out.result = DecodeError
  BY DEF NotCalled
<1>2. /\ d \in DCtx /\ d.flushed \in Nat /\ cap \in Nat \ {0} /\ avail \in Nat \ {0}
      /\ Reported(d) \in Nat /\ d.taken =< Reported(d) + avail /\ ReaderWellFormed(s, d)
  BY ReportedLemma DEF Callable, DCtx
<1> HIDE DEF out
<1>3. ReaderAccounted(d, avail, cap, out)
  BY <1>1, <1>2 DEF ReaderAccounted
<1>4. ReaderWellFormed(s, out.dctx) /\ Truthful(s, avail, out)
  BY <1>1, <1>2 DEF Truthful, DecodeError
<1>5. QED
  BY <1>3, <1>4 DEF Proper, out

-----------------------------------------------------------------------------
(* The invariant *)

\* The counts of both sides of the decompressor.
Flow ==
    /\ ReaderWellFormed(stream, dctx)
    /\ dctx.taken =< sent
    /\ served =< dctx.flushed
    /\ ~readerClosed =>
        /\ sent = Reported(dctx) + Size(sourceBuffer)
        /\ served + Size(outputBuffer) = dctx.flushed

\* What the kept result still says, any number of reads later.
Result ==
    dctx.healthy =>
        /\ lastDecompressResult = 0 =>
              /\ ~dctx.hostage
              /\ AtBoundary(stream, dctx.taken)
              /\ dctx.flushed = Decodable(stream, dctx.taken)
        /\ (lastDecompressResult # 0 /\ ~readerClosed /\ Size(sourceBuffer) = 0) =>
              ~AtBoundary(stream, dctx.taken)

\* What each point of a call has made sure of.
Phase ==
    /\ readerPc \in {"request", "decompress"} => ~readerClosed /\ Size(outputBuffer) = 0
    /\ readerPc = "decompress" => Size(sourceBuffer) > 0
    /\ readerPc \in {"closeDecompressor", "closeSource"} => readerClosed
    /\ readerCall.outcome \in {"exhausted", "EOFException"} =>
        readerPc = "caller" /\ readerCall.op = "read"

\* Who owns what.
Resources ==
    /\ decompressor.open <=> (~readerClosed \/ readerPc = "closeDecompressor")
    /\ decompressor.open => decompressor.frees = 0
    /\ ~decompressor.open => decompressor.frees = 1
    /\ sourceClosed <=> (readerClosed /\ readerPc = "caller")

ReaderInv ==
    /\ ReaderTypeOK
    /\ Flow
    /\ Result
    /\ Phase
    /\ Resources
    /\ CleanEnd
    /\ TruncationIsReal

-----------------------------------------------------------------------------
(* The first state, and each kind of step *)

LEMMA InitReader == ReaderInit => ReaderInv
<1> SUFFICES ASSUME ReaderInit PROVE ReaderInv
  OBVIOUS
<1>1. IsStream(stream) /\ Len(stream) \in Nat
  BY SourceAssumption, StreamLemma DEF ReaderInit
<1>2. /\ dctx \in DCtx /\ dctx.taken = 0 /\ dctx.flushed = 0
      /\ ~dctx.hostage /\ dctx.healthy
  BY DEF ReaderInit, NewDCtx, DCtx
<1>3. /\ decompressor \in Decompressor /\ decompressor.open /\ decompressor.frees = 0
  BY DEF ReaderInit, Decompressor
<1>4. sourceBuffer \in Buffer /\ outputBuffer \in Buffer
      /\ Size(sourceBuffer) = 0 /\ Size(outputBuffer) = 0
  BY EmptyLemma DEF ReaderInit
<1>5. readerCall.op = "none" /\ readerCall.outcome = "returned"
      /\ readerCall \in [op : {"none", "read", "close", "closeAgain"}, outcome : ReaderOutcome]
  BY DEF ReaderInit, ReaderOutcome
<1>6. ReaderTypeOK
  <2>1. /\ stream \in Streams /\ available = 0 /\ finished = FALSE /\ sent = 0
        /\ sourceClosed = FALSE /\ lastDecompressResult = 0 /\ readerClosed = FALSE
        /\ readerPc = "caller" /\ byteCount = 0 /\ served = 0 /\ faults = 0
    BY DEF ReaderInit
  <2>2. finished \in BOOLEAN /\ sourceClosed \in BOOLEAN /\ readerClosed \in BOOLEAN
    BY <2>1
  <2>3. MaxRead \in Nat
    BY SourceAssumption
  <2>4. /\ available \in 0 .. Len(stream) /\ sent \in 0 .. available
        /\ byteCount \in 0 .. MaxRead /\ served \in Nat /\ faults \in Nat
    BY <1>1, <2>1, <2>3
  <2>5. QED
    BY <1>1, <1>2, <1>3, <1>4, <1>5, <2>1, <2>2, <2>4 DEF ReaderTypeOK
<1>7. Reported(dctx) = 0 /\ ReaderWellFormed(stream, dctx)
  BY <1>1, <1>2 DEF Reported, ReaderWellFormed, Decodable
<1>8. Flow
  BY <1>2, <1>4, <1>7 DEF Flow, ReaderInit
<1>9. Result
  BY <1>2 DEF Result, AtBoundary, Decodable, ReaderInit
<1>10. Phase /\ Resources
  BY <1>3, <1>4, <1>5 DEF Phase, Resources, ReaderInit
<1>11. CleanEnd /\ TruncationIsReal
  BY <1>5 DEF CleanEnd, TruncationIsReal
<1>12. QED
  BY <1>6, <1>8, <1>9, <1>10, <1>11 DEF ReaderInv

LEMMA StutterInv == ReaderInv /\ UNCHANGED readerVars => ReaderInv'
BY DEF ReaderInv, ReaderTypeOK, Flow, Result, Phase, Resources, CleanEnd, TruncationIsReal,
       upstream, reader, readerVars

\* Upstream moves only while its end has not been seen.
LEMMA UpstreamInv ==
    ASSUME ReaderInv, Arrive \/ Finish
    PROVE  ReaderInv'
<1>1. ~finished /\ available' \in 0 .. Len(stream) /\ available =< available'
      /\ finished' \in BOOLEAN
      /\ UNCHANGED <<stream, sent, sourceBuffer, sourceClosed, decompressor, dctx,
                     outputBuffer, lastDecompressResult, readerClosed, readerPc, readerCall,
                     byteCount, served, faults>>
  <2>1. IsStream(stream) /\ Len(stream) \in Nat
    BY SourceAssumption, StreamLemma DEF ReaderInv, ReaderTypeOK
  <2>2. CASE Arrive
    BY <2>1, <2>2 DEF Arrive, ReaderInv, ReaderTypeOK
  <2>3. CASE Finish
    BY <2>1, <2>3 DEF Finish, ReaderInv, ReaderTypeOK
  <2>4. QED
    BY <2>2, <2>3
<1>2. ReaderTypeOK'
  <2>1. available \in Nat /\ sent \in 0 .. available'
    BY <1>1, SourceAssumption, StreamLemma DEF ReaderInv, ReaderTypeOK
  <2>2. QED
    BY <1>1, <2>1 DEF ReaderInv, ReaderTypeOK
<1>3. Flow' /\ Result' /\ Phase' /\ Resources'
  BY <1>1 DEF ReaderInv, Flow, Result, Phase, Resources
<1>4. CleanEnd' /\ TruncationIsReal'
  BY <1>1 DEF ReaderInv, CleanEnd, TruncationIsReal
<1>5. QED
  BY <1>2, <1>3, <1>4 DEF ReaderInv

\* A read that is rejected, and one that is served from outputBuffer or has to wait.
LEMMA ServeLemma ==
    ASSUME NEW b \in Buffer, NEW n \in Nat, served \in Nat, Serve(b, n)
    PROVE  /\ readerPc' = "caller" /\ byteCount' = 0
           /\ outputBuffer' \in Buffer /\ served' \in Nat
           /\ served' + Size(outputBuffer') = served + Size(b)
           /\ Size(b) = 0 => /\ readerCall' = [op |-> "read", outcome |-> "exhausted"]
                             /\ served' = served
           /\ Size(b) # 0 => readerCall' = [op |-> "read", outcome |-> "returned"]
<1>1. Size(b) \in Nat
  BY SizeLemma
<1>2. CASE Size(b) = 0
  BY <1>1, <1>2 DEF Serve
<1>3. CASE Size(b) # 0
  <2> DEFINE k == IF n < Size(b) THEN n ELSE Size(b)
  <2>1. k \in 0 .. Size(b) /\ k \in Nat
    BY <1>1
  <2>2. /\ readerPc' = "caller" /\ byteCount' = 0
        /\ readerCall' = [op |-> "read", outcome |-> "returned"]
        /\ outputBuffer' = Skip(b, k) /\ served' = served + k
    BY <1>3 DEF Serve
  <2> HIDE DEF k
  <2>3. outputBuffer' \in Buffer /\ Size(outputBuffer') = Size(b) - k
    BY <2>1, <2>2, SkipLemma
  <2>4. QED
    BY <1>1, <1>3, <2>1, <2>2, <2>3
<1>4. QED
  BY <1>2, <1>3

\* The outcomes a call may have.
Calls == [op : {"none", "read", "close", "closeAgain"}, outcome : ReaderOutcome]

LEMMA CallLemma ==
    /\ \A o \in ReaderOutcome : /\ [op |-> "read", outcome |-> o] \in Calls
                          /\ [op |-> "read", outcome |-> o].outcome = o
                          /\ [op |-> "read", outcome |-> o].op = "read"
    /\ [op |-> "none", outcome |-> "returned"] \in Calls
    /\ [op |-> "close", outcome |-> "running"] \in Calls
    /\ [op |-> "closeAgain", outcome |-> "returned"] \in Calls
BY DEF Calls, ReaderOutcome

\* Steps that leave both sides of the decompressor alone.
LEMMA CallerInv ==
    ASSUME ReaderInv, ReaderCallerStep, ~ReaderClose
    PROVE  ReaderInv'
<1>1. /\ readerPc = "caller"
      /\ UNCHANGED <<stream, available, finished, sent, sourceBuffer, sourceClosed,
                     decompressor, dctx, lastDecompressResult, readerClosed, faults>>
  BY DEF ReaderCallerStep, Read, ReaderRejected, ReaderCloseAgain, upstream
<1>2. /\ outputBuffer \in Buffer /\ served \in Nat /\ dctx.flushed \in Nat
      /\ Size(outputBuffer) \in Nat
  BY SizeLemma DEF ReaderInv, ReaderTypeOK, DCtx
<1>3. /\ readerCall' \in Calls /\ readerCall'.outcome \notin {"exhausted", "EOFException"}
      /\ byteCount' \in 0 .. MaxRead
      /\ outputBuffer' \in Buffer /\ served' \in Nat
      /\ readerPc' \in {"caller", "request"}
      /\ readerPc' = "request" => ~readerClosed /\ Size(outputBuffer') = 0
      /\ ~readerClosed => served' + Size(outputBuffer') = served + Size(outputBuffer)
      /\ readerClosed => served' = served
  <2>1. ASSUME NEW n \in 0 .. MaxRead, Read(n)
        PROVE  <1>3!:
    <3>1. CASE /\ n > 0 /\ Size(outputBuffer) > 0 /\ Serve(outputBuffer, n)
      <4>1. n \in Nat /\ ~readerClosed
        BY <2>1, SourceAssumption DEF Read
      <4>2. QED
        BY <1>2, <3>1, <4>1, ServeLemma, SourceAssumption, CallLemma DEF ReaderOutcome
    <3>2. CASE ~(n > 0 /\ Size(outputBuffer) > 0 /\ Serve(outputBuffer, n))
      BY <1>1, <1>2, <2>1, <3>2, SourceAssumption
         DEF Read, Calls, ReaderOutcome, ReaderInv, ReaderTypeOK
    <3>3. QED
      BY <3>1, <3>2
  <2>2. CASE ReaderRejected
    BY <1>1, <1>2, <2>2, SourceAssumption
       DEF ReaderRejected, ReadThrows, Calls, ReaderOutcome
  <2>3. CASE ReaderCloseAgain
    BY <1>1, <1>2, <2>3 DEF ReaderCloseAgain, Calls, ReaderOutcome, ReaderInv, ReaderTypeOK
  <2>4. QED
    BY <2>1, <2>2, <2>3 DEF ReaderCallerStep
<1>4. ReaderTypeOK'
  BY <1>1, <1>3 DEF ReaderInv, ReaderTypeOK, Calls
<1>5. Flow'
  BY <1>1, <1>2, <1>3, SizeLemma DEF ReaderInv, Flow
<1>6. Result'
  BY <1>1 DEF ReaderInv, Result
<1>7. Phase' /\ Resources'
  BY <1>1, <1>3 DEF ReaderInv, Phase, Resources
<1>8. CleanEnd' /\ TruncationIsReal'
  BY <1>1, <1>3, CallLemma DEF CleanEnd, TruncationIsReal, ReaderOutcome
<1>9. QED
  BY <1>4, <1>5, <1>6, <1>7, <1>8 DEF ReaderInv

\* request(1): bytes of upstream reach source.buffer, and the call goes on or throws.
LEMMA RequestInv ==
    ASSUME ReaderInv, RequestBuffered \/ RequestReads \/ RequestFails
    PROVE  ReaderInv'
<1>1. PICK n \in Nat :
          /\ sourceBuffer' \in Appended(sourceBuffer, n)
          /\ sent' = sent + n
          /\ sent + n =< available
          /\ readerPc' = "decompress" => Size(sourceBuffer) > 0 \/ n > 0
  <2>0. sent \in Nat /\ available \in Nat /\ sent =< available /\ available - sent \in Nat
    BY SourceAssumption, StreamLemma DEF ReaderInv, ReaderTypeOK
  <2>1. CASE RequestBuffered
    <3>1. sourceBuffer' \in Appended(sourceBuffer, 0) /\ sent' = sent + 0
      BY <2>0, <2>1 DEF RequestBuffered, Appended
    <3>2. QED
      BY <2>0, <2>1, <3>1 DEF RequestBuffered
  <2>2. CASE RequestReads
    BY <2>0, <2>2 DEF RequestReads
  <2>3. CASE RequestFails
    BY <2>0, <2>3 DEF RequestFails, ReadThrows
  <2>4. QED
    BY <2>1, <2>2, <2>3
<1>2. /\ readerPc = "request" /\ ~readerClosed
      /\ UNCHANGED <<stream, available, finished, sourceClosed, decompressor, dctx,
                     outputBuffer, lastDecompressResult, readerClosed, served>>
  BY DEF RequestBuffered, RequestReads, RequestFails, upstream, ReaderInv, Phase
<1>3. /\ readerPc' \in {"caller", "decompress"}
      /\ readerCall' \in Calls /\ readerCall'.outcome \notin {"exhausted", "EOFException"}
      /\ byteCount' \in 0 .. MaxRead /\ faults' \in Nat
  <2>1. readerCall.outcome \notin {"exhausted", "EOFException"}
    BY <1>2 DEF ReaderInv, Phase
  <2>2. CASE RequestBuffered \/ RequestReads
    BY <2>1, <2>2 DEF RequestBuffered, RequestReads, ReaderInv, ReaderTypeOK, Calls
  <2>3. CASE RequestFails
    BY <2>3, CallLemma, SourceAssumption
       DEF RequestFails, ReadThrows, ReaderOutcome, ReaderInv, ReaderTypeOK
  <2>4. QED
    BY <2>2, <2>3
<1>4. /\ sourceBuffer' \in Buffer /\ Size(sourceBuffer') = Size(sourceBuffer) + n
      /\ Size(sourceBuffer) \in Nat
  BY <1>1, AppendedLemma, SizeLemma DEF ReaderInv, ReaderTypeOK
<1>5. sent \in Nat /\ available \in Nat /\ dctx.taken \in Nat /\ sent' \in 0 .. available
  BY <1>1, SourceAssumption, StreamLemma DEF ReaderInv, ReaderTypeOK, DCtx
<1>6. ReaderTypeOK'
  BY <1>2, <1>3, <1>4, <1>5 DEF ReaderInv, ReaderTypeOK, Calls
<1>7. Flow'
  <2>1. Reported(dctx) \in Nat
    BY ReportedLemma DEF ReaderInv, ReaderTypeOK, Flow
  <2>2. QED
    BY <1>1, <1>2, <1>4, <1>5, <2>1 DEF ReaderInv, Flow
<1>8. Result'
  BY <1>2, <1>4 DEF ReaderInv, Result
<1>9. Phase' /\ Resources'
  BY <1>1, <1>2, <1>3, <1>4 DEF ReaderInv, Phase, Resources
<1>10. CleanEnd' /\ TruncationIsReal'
  BY <1>2, <1>3, CallLemma DEF CleanEnd, TruncationIsReal, ReaderOutcome
<1>11. QED
  BY <1>6, <1>7, <1>8, <1>9, <1>10 DEF ReaderInv

\* The end of upstream, a clean one or a truncated one: the kept result tells them apart.
LEMMA ExhaustedInv ==
    ASSUME ReaderInv, RequestExhausted
    PROVE  ReaderInv'
<1>1. /\ readerPc = "request" /\ ~readerClosed /\ finished /\ sent = available
      /\ Size(sourceBuffer) = 0 /\ Size(outputBuffer) = 0
      /\ UNCHANGED <<stream, available, finished, sent, sourceBuffer, sourceClosed,
                     decompressor, dctx, lastDecompressResult, readerClosed, faults>>
  BY DEF RequestExhausted, upstream, ReaderInv, Phase
<1>2. /\ readerPc' = "caller" /\ byteCount' = 0
      /\ served' = served /\ outputBuffer' \in Buffer /\ Size(outputBuffer') = 0
      /\ lastDecompressResult # 0 => readerCall' = [op |-> "read", outcome |-> "EOFException"]
      /\ lastDecompressResult = 0 => readerCall' = [op |-> "read", outcome |-> "exhausted"]
  <2>1. CASE lastDecompressResult # 0
    BY <1>1, <2>1 DEF RequestExhausted, MidFrame, ReadThrows, ReaderInv, ReaderTypeOK
  <2>2. CASE lastDecompressResult = 0
    BY <1>1, <2>2 DEF RequestExhausted, MidFrame, Serve, ReaderInv, ReaderTypeOK
  <2>3. QED
    BY <2>1, <2>2
<1>3. /\ served \in Nat /\ dctx.flushed \in Nat /\ dctx.taken \in Nat /\ available \in Nat
      /\ Reported(dctx) \in Nat
      /\ ~dctx.hostage => Reported(dctx) = dctx.taken
      /\ sent = Reported(dctx) + 0 /\ served + 0 = dctx.flushed
  BY <1>1, ReportedLemma, SourceAssumption, StreamLemma
     DEF ReaderInv, ReaderTypeOK, Flow, DCtx
<1>4. readerCall' \in Calls /\ readerCall'.outcome \in {"exhausted", "EOFException"}
  BY <1>2, CallLemma DEF ReaderOutcome
<1>5. ReaderTypeOK'
  BY <1>1, <1>2, <1>4, SourceAssumption DEF ReaderInv, ReaderTypeOK, Calls
<1>6. Flow'
  BY <1>1, <1>2 DEF ReaderInv, Flow
<1>7. Result' /\ Phase' /\ Resources'
  BY <1>1, <1>2 DEF ReaderInv, Result, Phase, Resources
<1>8. CleanEnd'
  <2>1. SUFFICES ASSUME dctx.healthy, lastDecompressResult = 0
                 PROVE  /\ AtBoundary(stream, available)
                        /\ served = Decodable(stream, available)
    BY <1>1, <1>2, CallLemma DEF CleanEnd, ReaderOutcome
  <2>2. ~dctx.hostage /\ AtBoundary(stream, dctx.taken)
        /\ dctx.flushed = Decodable(stream, dctx.taken)
    BY <2>1 DEF ReaderInv, Result
  <2>3. dctx.taken = available /\ served = dctx.flushed
    BY <1>1, <1>3, <2>2
  <2>4. QED
    BY <2>2, <2>3
<1>9. TruncationIsReal'
  <2>1. SUFFICES ASSUME dctx.healthy, lastDecompressResult # 0
                 PROVE  ~AtBoundary(stream, available)
    BY <1>1, <1>2, CallLemma DEF TruncationIsReal, ReaderOutcome
  <2>2. ~AtBoundary(stream, dctx.taken)
    BY <1>1, <2>1 DEF ReaderInv, Result
  <2>3. ~dctx.hostage
    BY <2>2 DEF ReaderInv, Flow, ReaderWellFormed, AtBoundary
  <2>4. dctx.taken = available
    BY <1>1, <1>3, <2>3
  <2>5. QED
    BY <2>2, <2>4
<1>10. QED
  BY <1>5, <1>6, <1>7, <1>8, <1>9 DEF ReaderInv

\* close(): the output is dropped, the context is freed, upstream is closed.
LEMMA CloseInv ==
    ASSUME ReaderInv, ReaderClose \/ CloseDecompressor \/ CloseSource
    PROVE  ReaderInv'
<1>1. /\ UNCHANGED <<stream, available, finished, sent, dctx, lastDecompressResult,
                     byteCount, served>>
      /\ readerClosed'
  BY DEF ReaderClose, ReaderClosedOnEntry, CloseDecompressor, CloseSource, upstream,
         ReaderInv, Phase
<1>2. /\ outputBuffer' \in Buffer /\ sourceBuffer' \in Buffer
      /\ Size(outputBuffer') = 0 \/ outputBuffer' = outputBuffer
  BY EmptyLemma DEF ReaderClose, CloseDecompressor, CloseSource, ReaderInv, ReaderTypeOK
<1>3. /\ decompressor' \in Decompressor /\ sourceClosed' \in BOOLEAN /\ readerClosed' \in BOOLEAN
      /\ Resources'
  <2>1. CASE ReaderClose
    BY <1>1, <2>1 DEF ReaderClose, ReaderClosedOnEntry, ReaderInv, Resources, ReaderTypeOK
  <2>2. CASE CloseDecompressor
    <3>1. decompressor \in Decompressor /\ decompressor.open /\ decompressor.frees = 0
      BY <2>2 DEF CloseDecompressor, ReaderInv, Resources, ReaderTypeOK
    <3> DEFINE n == decompressor.frees + 1
    <3>2. decompressor' = [decompressor EXCEPT !.open = FALSE, !.frees = n]
      BY <2>2, <3>1 DEF CloseDecompressor, ReaderFreed
    <3>3. n = 1
      BY <3>1
    <3> HIDE DEF n
    <3>4. decompressor' \in Decompressor
      BY <3>1, <3>2, <3>3 DEF Decompressor
    <3>5. ~decompressor'.open /\ decompressor'.frees = 1
      BY <3>1, <3>2, <3>3 DEF Decompressor
    <3>6. QED
      BY <1>1, <2>2, <3>4, <3>5 DEF CloseDecompressor, ReaderInv, Resources, ReaderTypeOK
  <2>3. CASE CloseSource
    BY <1>1, <2>3 DEF CloseSource, ReaderInv, Resources, Phase, ReaderTypeOK
  <2>4. QED
    BY <2>1, <2>2, <2>3
<1>4. /\ readerPc' \in {"caller", "closeDecompressor", "closeSource"}
      /\ readerCall' \in Calls /\ readerCall'.outcome \notin {"exhausted", "EOFException"}
      /\ faults' \in Nat
  <2>1. CASE ReaderClose
    BY <2>1, CallLemma DEF ReaderClose, ReaderInv, ReaderTypeOK, Calls
  <2>2. CASE CloseDecompressor
    BY <2>2 DEF CloseDecompressor, ReaderInv, ReaderTypeOK, Calls, Phase
  <2>3. CASE CloseSource
    <3>1. PICK o \in {"returned", "IOException"} : readerCall' = [readerCall EXCEPT !.outcome = o]
      BY <2>3 DEF CloseSource
    <3>2. o \in ReaderOutcome /\ readerCall \in Calls
      BY DEF ReaderInv, ReaderTypeOK, Calls, ReaderOutcome
    <3>3. readerCall' \in Calls /\ readerCall'.outcome = o
      BY <3>1, <3>2 DEF Calls
    <3>4. QED
      BY <2>3, <3>3 DEF CloseSource, ReaderInv, ReaderTypeOK
  <2>4. QED
    BY <2>1, <2>2, <2>3
<1>5. ReaderTypeOK'
  BY <1>1, <1>2, <1>3, <1>4 DEF ReaderInv, ReaderTypeOK, Calls
<1>6. Flow' /\ Result'
  BY <1>1 DEF ReaderInv, Flow, Result
<1>7. Phase'
  BY <1>1, <1>4 DEF Phase
<1>8. CleanEnd' /\ TruncationIsReal'
  BY <1>4, CallLemma DEF CleanEnd, TruncationIsReal, ReaderOutcome
<1>9. QED
  BY <1>3, <1>5, <1>6, <1>7, <1>8 DEF ReaderInv

\* A call in the loop of refillIfNecessary() is one that the context allows.
LEMMA PassCallable ==
    ASSUME ReaderInv, DecompressPass,
           NEW avail \in HeadSegment(sourceBuffer), NEW cap \in Capacity(outputBuffer)
    PROVE  avail \in Nat /\ avail =< Size(sourceBuffer) /\ Callable(stream, dctx, avail, cap)
<1>1. avail \in Nat \ {0} /\ avail =< Size(sourceBuffer)
  <2>1. Size(sourceBuffer) > 0 /\ sourceBuffer \in Buffer
    BY DEF DecompressPass, ReaderInv, Phase, ReaderTypeOK
  <2>2. QED
    BY <2>1, SegmentSizeAssumption DEF HeadSegment, Buffer, Size
<1>2. IsStream(stream) /\ Len(stream) \in Nat /\ sent \in 0 .. available
      /\ available \in 0 .. Len(stream) /\ dctx \in DCtx
  BY StreamLemma DEF ReaderInv, ReaderTypeOK
<1>3. cap \in Nat \ {0}
  BY CapacityLemma DEF ReaderInv, ReaderTypeOK
<1>4. ReaderWellFormed(stream, dctx) /\ sent = Reported(dctx) + Size(sourceBuffer)
  BY DEF DecompressPass, ReaderInv, Phase, Flow
<1>5. Reported(dctx) \in Nat /\ Size(sourceBuffer) \in Nat
  BY <1>2, <1>4, ReportedLemma, SizeLemma DEF ReaderInv, ReaderTypeOK
<1>6. QED
  BY <1>1, <1>2, <1>3, <1>4, <1>5 DEF Callable

\* The outcome of such a call, made or not, is proper, and
\* the program acts on its counts.
Passed(avail, cap, out) ==
    /\ avail =< Size(sourceBuffer)
    /\ Proper(stream, dctx, avail, cap, out)
    /\ out.put \in 0 .. cap
    /\ decompressor'.inputBytesProcessed = out.took
    /\ decompressor'.outputBytesProcessed = out.put
    /\ Pass(avail, cap, out)

LEMMA PassLemma ==
    ASSUME ReaderInv, DecompressPass
    PROVE  \E avail \in Nat, cap \in Capacity(outputBuffer) : \E out : Passed(avail, cap, out)
<1>1. PICK avail \in HeadSegment(sourceBuffer), cap \in Capacity(outputBuffer) :
        \E out \in DecompressStream(stream, dctx, avail, cap)
                        \cup (IF faults < MaxFaults THEN {NotCalled(dctx)} ELSE {}) :
            Pass(avail, cap, out)
  BY DEF DecompressPass
<1>2. PICK out \in DecompressStream(stream, dctx, avail, cap) \cup {NotCalled(dctx)} :
            Pass(avail, cap, out)
  BY <1>1
<1>3. avail \in Nat /\ avail =< Size(sourceBuffer)
      /\ Callable(stream, dctx, avail, cap)
  BY PassCallable
<1>4. Proper(stream, dctx, avail, cap, out)
  BY <1>3, DecompressStreamLemma, NotCalledLemma
<1>5. decompressor'.inputBytesProcessed = out.took
      /\ decompressor'.outputBytesProcessed = out.put
  BY <1>2 DEF Pass, ReaderCalled, ReaderInv, ReaderTypeOK, Decompressor
<1>6. out.put \in 0 .. cap
  BY <1>4 DEF Proper, ReaderAccounted
<1>7. Passed(avail, cap, out)
  BY <1>2, <1>3, <1>4, <1>5, <1>6 DEF Passed
<1>8. QED
  BY <1>3, <1>7

\* What a call reports is what it did to the stream and to the output.
LEMMA PassInv ==
    ASSUME ReaderInv, DecompressPass
    PROVE  ReaderInv'
<1>1. PICK avail \in Nat, cap \in Capacity(outputBuffer) : \E out : Passed(avail, cap, out)
  BY PassLemma
<1>2. PICK out : Passed(avail, cap, out)
  BY <1>1
<1> DEFINE b == Resized(outputBuffer, cap, out.put)
<1>3. /\ readerPc = "decompress" /\ ~readerClosed
      /\ Size(outputBuffer) = 0 /\ Size(sourceBuffer) > 0
      /\ UNCHANGED <<stream, available, finished, sent, sourceClosed, readerClosed>>
  BY DEF DecompressPass, upstream, ReaderInv, Phase
<1>4. /\ avail =< Size(sourceBuffer) /\ avail \in Nat
      /\ ReaderAccounted(dctx, avail, cap, out) /\ ReaderWellFormed(stream, dctx')
      /\ Truthful(stream, avail, out)
      /\ dctx' = out.dctx /\ lastDecompressResult' = out.result
      /\ sourceBuffer' = Skip(sourceBuffer, out.took)
      /\ decompressor' = ReaderCalled(out.took, out.put)
  BY <1>2 DEF Passed, Proper, Pass, ReaderSkippedInput, LastResult
<1>5. /\ dctx' \in DCtx
      /\ out.took \in 0 .. avail /\ out.put \in Nat
      /\ lastDecompressResult' \in {0, 1, DecodeError}
      /\ Reported(dctx') = Reported(dctx) + out.took
      /\ dctx'.flushed = dctx.flushed + out.put
      /\ dctx'.taken =< Reported(dctx) + avail
  BY <1>4, CapacityLemma DEF ReaderAccounted, ReaderInv, ReaderTypeOK
<1>6. /\ sourceBuffer' \in Buffer /\ Size(sourceBuffer) \in Nat
      /\ Size(sourceBuffer') = Size(sourceBuffer) - out.took
  <2>1. sourceBuffer \in Buffer /\ Size(sourceBuffer) \in Nat
    BY SizeLemma DEF ReaderInv, ReaderTypeOK
  <2>2. out.took \in 0 .. Size(sourceBuffer)
    BY <1>4, <1>5, <2>1
  <2>3. QED
    BY <1>4, <2>1, <2>2, SkipLemma
<1>7. b \in Buffer /\ Size(b) = out.put
  <2>1. b \in Buffer /\ Size(b) = Size(outputBuffer) + out.put
    BY <1>2, ResizedLemma DEF Passed, ReaderInv, ReaderTypeOK
  <2>2. QED
    BY <1>3, <1>5, <2>1
<1>8. \/ ReadThrows("IOException") /\ outputBuffer' = b /\ served' = served
         /\ faults' \in {faults, faults + 1}
      \/ /\ Size(b) = 0 /\ readerPc' = "request" /\ outputBuffer' = b
         /\ UNCHANGED <<readerCall, byteCount, served, faults>>
      \/ Size(b) > 0 /\ Serve(b, byteCount) /\ faults' = faults
  BY <1>2 DEF Passed, Pass, ReaderKeptOutput
<1> HIDE DEF b
<1>9. /\ outputBuffer' \in Buffer /\ served' \in Nat
      /\ served' + Size(outputBuffer') = served + out.put
      /\ readerPc' \in {"caller", "request"}
      /\ readerPc' = "request" => Size(outputBuffer') = 0
      /\ readerCall' \in Calls /\ readerCall'.outcome \notin {"exhausted", "EOFException"}
      /\ byteCount' \in 0 .. MaxRead /\ faults' \in Nat
  <2>1. served \in Nat /\ byteCount \in 0 .. MaxRead /\ byteCount \in Nat /\ faults \in Nat
        /\ readerCall \in Calls /\ readerCall.outcome \notin {"exhausted", "EOFException"}
        /\ MaxRead \in Nat
    BY <1>3, SourceAssumption DEF ReaderInv, ReaderTypeOK, Phase, Calls
  <2>2. CASE ReadThrows("IOException") /\ outputBuffer' = b /\ served' = served
             /\ faults' \in {faults, faults + 1}
    BY <1>7, <2>1, <2>2, CallLemma DEF ReadThrows, ReaderOutcome
  <2>3. CASE /\ Size(b) = 0 /\ readerPc' = "request" /\ outputBuffer' = b
             /\ UNCHANGED <<readerCall, byteCount, served, faults>>
    BY <1>7, <2>1, <2>3
  <2>4. CASE Size(b) > 0 /\ Serve(b, byteCount) /\ faults' = faults
    <3>1. /\ readerPc' = "caller" /\ byteCount' = 0
          /\ outputBuffer' \in Buffer /\ served' \in Nat
          /\ served' + Size(outputBuffer') = served + Size(b)
          /\ readerCall' = [op |-> "read", outcome |-> "returned"]
      BY <1>5, <1>7, <2>1, <2>4, ServeLemma
    <3>2. QED
      BY <1>7, <2>1, <2>4, <3>1, CallLemma DEF ReaderOutcome
  <2>5. QED
    BY <1>8, <2>2, <2>3, <2>4
<1>10. /\ decompressor' \in Decompressor
       /\ decompressor'.open <=> decompressor.open
       /\ decompressor'.frees = decompressor.frees
  <2>1. out.took \in Nat /\ out.put \in Nat
    BY <1>4, <1>5
  <2>2. decompressor \in Decompressor
    BY DEF ReaderInv, ReaderTypeOK
  <2>3. QED
    BY <1>4, <2>1, <2>2 DEF ReaderCalled, Decompressor
<1>11. ReaderTypeOK'
  BY <1>3, <1>5, <1>6, <1>9, <1>10 DEF ReaderInv, ReaderTypeOK, Calls
<1>12. Flow'
  <2>1. /\ dctx.taken \in Nat /\ dctx.flushed \in Nat /\ served \in Nat /\ sent \in Nat
        /\ sent = Reported(dctx) + Size(sourceBuffer) /\ served + 0 = dctx.flushed
        /\ Reported(dctx) \in Nat
    BY <1>3, ReportedLemma, SourceAssumption, StreamLemma
       DEF ReaderInv, ReaderTypeOK, Flow, DCtx
  <2>2. dctx'.taken \in Nat /\ dctx'.flushed \in Nat
    BY <1>5 DEF DCtx
  <2>3. dctx'.taken =< sent'
    BY <1>3, <1>4, <1>5, <1>6, <2>1, <2>2
  <2>4. sent' = Reported(dctx') + Size(sourceBuffer')
    BY <1>3, <1>4, <1>5, <1>6, <2>1
  <2>5. served' + Size(outputBuffer') = dctx'.flushed /\ served' =< dctx'.flushed
    BY <1>5, <1>9, <2>1, <2>2, SizeLemma
  <2>6. QED
    BY <1>3, <1>4, <2>3, <2>4, <2>5 DEF Flow
<1>13. Result'
  <2>1. Size(sourceBuffer') = 0 => out.took = avail
    BY <1>4, <1>5, <1>6
  <2>2. QED
    BY <1>3, <1>4, <2>1 DEF Result, Truthful
<1>14. Phase'
  BY <1>3, <1>9 DEF Phase
<1>15. Resources'
  BY <1>3, <1>9, <1>10 DEF ReaderInv, Resources
<1>16. CleanEnd' /\ TruncationIsReal'
  BY <1>9, CallLemma DEF CleanEnd, TruncationIsReal, ReaderOutcome
<1>17. QED
  BY <1>11, <1>12, <1>13, <1>14, <1>15, <1>16 DEF ReaderInv

-----------------------------------------------------------------------------
(* The theorems *)

LEMMA NextReader == ReaderInv /\ [ReaderNext]_readerVars => ReaderInv'
<1> SUFFICES ASSUME ReaderInv, [ReaderNext]_readerVars PROVE ReaderInv'
  OBVIOUS
<1>1. CASE UNCHANGED readerVars
  BY <1>1, StutterInv
<1>2. CASE Arrive \/ Finish
  BY <1>2, UpstreamInv
<1>3. CASE ReaderCallerStep /\ ~ReaderClose
  BY <1>3, CallerInv
<1>4. CASE RequestBuffered \/ RequestReads \/ RequestFails
  BY <1>4, RequestInv
<1>5. CASE RequestExhausted
  BY <1>5, ExhaustedInv
<1>6. CASE DecompressPass
  BY <1>6, PassInv
<1>7. CASE ReaderClose \/ CloseDecompressor \/ CloseSource
  BY <1>7, CloseInv
<1>8. QED
  BY <1>1, <1>2, <1>3, <1>4, <1>5, <1>6, <1>7 DEF ReaderNext, Refill, Release

LEMMA ReaderInvariant == ReaderSpec => []ReaderInv
<1>1. QED
  BY InitReader, NextReader, PTL DEF ReaderSpec

\* Every variable keeps to its type, through every step of read() and close().
THEOREM ReaderTypeCorrect == ReaderSpec => []ReaderTypeOK
<1>1. ReaderInv => ReaderTypeOK
  BY DEF ReaderInv
<1>2. QED
  BY <1>1, ReaderInvariant, PTL

\* No byte is lost or duplicated between upstream, the decompressor and the caller,
\* whatever the segments are and whichever calls fail.
THEOREM Lossless == ReaderSpec => []ReaderNothingLost
<1>1. ReaderInv => ReaderNothingLost
  BY DEF ReaderInv, Flow, ReaderNothingLost
<1>2. QED
  BY <1>1, ReaderInvariant, PTL

\* exhausted() of read() means a complete stream that was delivered in full.
THEOREM EndIsClean == ReaderSpec => []CleanEnd
<1>1. ReaderInv => CleanEnd
  BY DEF ReaderInv
<1>2. QED
  BY <1>1, ReaderInvariant, PTL

\* An EOFException is thrown only for a stream that does end inside a frame.
THEOREM TruncationReported == ReaderSpec => []TruncationIsReal
<1>1. ReaderInv => TruncationIsReal
  BY DEF ReaderInv
<1>2. QED
  BY <1>1, ReaderInvariant, PTL

LEMMA InvDecodable == ReaderInv => ServedIsDecodable
<1> SUFFICES ASSUME ReaderInv, dctx.healthy PROVE ServedIsDecodable
  BY DEF ServedIsDecodable
<1>1. /\ dctx.taken \in Nat /\ dctx.flushed \in Nat /\ served \in Nat
      /\ sent \in 0 .. available /\ available \in 0 .. Len(stream)
      /\ IsStream(stream) /\ Len(stream) \in Nat
  BY SourceAssumption, StreamLemma DEF ReaderInv, ReaderTypeOK, DCtx
<1>2. /\ dctx.taken \in 0 .. Len(stream) /\ sent \in dctx.taken .. Len(stream)
      /\ served =< dctx.flushed /\ dctx.flushed =< Decodable(stream, dctx.taken)
      /\ \A i \in 1 .. dctx.taken : stream[i].kind # "bad"
  BY <1>1 DEF ReaderInv, Flow, ReaderWellFormed
<1>3. /\ Decodable(stream, dctx.taken) \in Nat /\ Decodable(stream, sent) \in Nat
      /\ Decodable(stream, dctx.taken) =< Decodable(stream, sent)
  BY <1>1, <1>2, DecodableLemma
<1> QED BY <1>1, <1>2, <1>3 DEF ServedIsDecodable

LEMMA InvReleased == ReaderInv => ReaderResourcesReleased
<1> SUFFICES ASSUME ReaderInv, readerPc = "caller"
             PROVE  /\ sourceClosed = readerClosed
                    /\ decompressor.open = ~readerClosed
                    /\ decompressor.frees = IF readerClosed THEN 1 ELSE 0
  BY DEF ReaderResourcesReleased
<1>1. /\ sourceClosed \in BOOLEAN /\ readerClosed \in BOOLEAN
      /\ decompressor.open \in BOOLEAN
      /\ sourceClosed <=> readerClosed
      /\ decompressor.open <=> ~readerClosed
      /\ ~readerClosed => decompressor.frees = 0
      /\ readerClosed => decompressor.frees = 1
  BY DEF ReaderInv, ReaderTypeOK, Resources, Decompressor
<1> QED BY <1>1, Zenon

\* The steps that ReaderNoUseAfterClose allows.
ReadsOpen ==
    /\ dctx' # dctx => decompressor.open
    /\ sourceBuffer' # sourceBuffer => ~sourceClosed

LEMMA StepReadsOpen == ReaderInv /\ [ReaderNext]_readerVars => ReadsOpen
<1> SUFFICES ASSUME ReaderInv, [ReaderNext]_readerVars PROVE ReadsOpen
  OBVIOUS
<1>1. CASE UNCHANGED readerVars
  BY <1>1 DEF upstream, reader, readerVars, ReadsOpen
<1>2. CASE Arrive \/ Finish
  BY <1>2 DEF Arrive, Finish, ReadsOpen
<1>3. CASE ReaderCallerStep
  BY <1>3 DEF ReaderCallerStep, Read, ReaderRejected, ReaderClose, ReaderCloseAgain,
              ReadsOpen
<1>4. CASE Refill
  <2>1. readerPc \in {"request", "decompress"}
    BY <1>4 DEF Refill, RequestBuffered, RequestReads, RequestFails, RequestExhausted,
                DecompressPass
  <2> QED BY <2>1 DEF ReaderInv, Phase, Resources, ReadsOpen
<1>5. CASE Release
  BY <1>5 DEF Release, CloseDecompressor, CloseSource, ReaderInv, Resources, ReadsOpen
<1> QED BY <1>1, <1>2, <1>3, <1>4, <1>5 DEF ReaderNext

\* What the caller reads was determined by the bytes that came before the first corrupt
\* one.
THEOREM Decoding == ReaderSpec => []ServedIsDecodable
BY InvDecodable, ReaderInvariant, PTL

\* However close() ends, the native context is freed once and upstream is closed; before
\* it, neither is.
THEOREM ReaderReleased == ReaderSpec => []ReaderResourcesReleased
BY InvReleased, ReaderInvariant, PTL

\* No native call gets a freed context, and no buffer of a closed upstream is touched.
THEOREM ReaderUseBeforeClose == ReaderSpec => ReaderNoUseAfterClose
BY StepReadsOpen, ReaderInvariant, PTL DEF ReaderSpec, ReaderNoUseAfterClose, ReadsOpen
=============================================================================
