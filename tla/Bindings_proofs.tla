-------------------------- MODULE Bindings_proofs ---------------------------
(***************************************************************************)
(* Theorems about Bindings, for any number of codecs and addresses, every  *)
(* array and every width of the integers.                                  *)
(***************************************************************************)
EXTENDS Bindings, SizeT_proofs

-----------------------------------------------------------------------------
(* What all calls have in common *)

\* A call on c that moved took bytes in its input and put bytes in its output.
Moved(c, took, put, n) ==
    /\ object[c].state = "open"
    /\ object' = [object EXCEPT ![c].inputBytesProcessed = took,
                                ![c].outputBytesProcessed = put]
    /\ contexts[object[c].handle].in + took =< MaxPosition
    /\ contexts[object[c].handle].out + put =< MaxPosition
    /\ contexts' = [contexts EXCEPT ![object[c].handle].in = @ + took,
                                    ![object[c].handle].out = @ + put]
    /\ last' = [last EXCEPT ![c] = [of |-> "stream", zstd |-> Meaning(n),
                                    result |-> ToLong(n), missing |-> 0]]
    /\ UNCHANGED <<platform, borrowed>>

\* The result that Kotlin gets says what zstd meant.
LEMMA ResultLemma ==
    ASSUME NEW n \in Results
    PROVE  /\ n \in Size_t
           /\ ToLong(n) \in Long
           /\ Meaning(n) \in [error : 0 .. MaxCode - 1, finished : BOOLEAN]
           /\ ErrorName(ToLong(n)) = Meaning(n).error
           /\ ToLong(n) = 0 <=> Meaning(n).finished
<1>1. n \in Size_t
  BY SizeTAssumption DEF Results, Error, Size_t
<1>2. ToLong(n) \in Long
  BY <1>1, SizeTAssumption DEF Size_t, ToLong, Long
<1>3. Meaning(n) \in [error : 0 .. MaxCode - 1, finished : BOOLEAN]
  <2>1. (IF n > SizeModulus - MaxCode THEN SizeModulus - n ELSE NoName) \in 0 .. MaxCode - 1
    BY <1>1, SizeTAssumption DEF Size_t, NoName
  <2>2. (n = 0) \in BOOLEAN
    OBVIOUS
  <2>3. QED
    BY <2>1, <2>2 DEF Meaning
<1>4. ErrorName(ToLong(n)) = Meaning(n).error
  BY <1>1, RoundTrip, SizeTAssumption DEF ErrorName, IsError, Meaning
<1>5. ToLong(n) = 0 <=> Meaning(n).finished
  BY <1>1, ZeroSurvives DEF Meaning
<1>6. QED
  BY <1>1, <1>2, <1>3, <1>4, <1>5

\* The counts are the numbers of bytes, for a position that zstd may move to.
LEMMA PlaceLemma ==
    ASSUME NEW s \in Spans, NEW pos \in s.start .. s.end
    PROVE  /\ s.start \in Nat /\ pos \in Nat /\ pos - s.start \in 0 .. MaxLength
           /\ CountJni(pos, s.start) = pos - s.start
           /\ CountNative(pos, s.start) = pos - s.start
<1>1. /\ s.start \in 0 .. MaxLength /\ s.end \in 0 .. MaxLength
      /\ MaxLength \in Nat /\ 2 * MaxLength < IntModulus
  BY BindingsAssumption DEF Span
<1>2. /\ pos \in Nat /\ s.start \in Nat /\ s.start =< pos
      /\ 2 * pos < IntModulus /\ pos - s.start \in 0 .. MaxLength
  BY <1>1, SizeTAssumption
<1>3. QED
  BY <1>2, CountsExact

LEMMA JniCallLemma ==
    ASSUME TypeOK, NEW c \in Codecs, NEW in \in Spans, NEW out \in Spans,
           JniCall(c, in, out), object[c].handle \in Addresses
    PROVE  \E took, put \in 0 .. MaxLength, n \in Results : Moved(c, took, put, n)
<1>1. ASSUME NEW e \in Elements
      PROVE  /\ Kept(e, InputReleaseMode) = 0 /\ Kept(e, OutputReleaseMode) = 0
             /\ \A k : Missing(e, OutputReleaseMode, k) = 0
  BY DEF Kept, Missing, InputReleaseMode, OutputReleaseMode, JNI_ABORT, JNI_COMMIT
<1>2. ASSUME NEW inElements \in Elements, NEW outElements \in Elements,
             NEW inPos \in in.start .. in.end, NEW outPos \in out.start .. out.end,
             NEW n \in Results,
             JniReturns(c, in, out, inPos, outPos, n, inElements, outElements)
      PROVE  /\ object' = [object EXCEPT ![c].inputBytesProcessed = inPos - in.start,
                                         ![c].outputBytesProcessed = outPos - out.start]
             /\ last' = [last EXCEPT ![c] = [of |-> "stream", zstd |-> Meaning(n),
                                             result |-> ToLong(n), missing |-> 0]]
             /\ UNCHANGED <<platform, borrowed>>
  <2>1. borrowed \in Nat
    BY DEF TypeOK
  <2>2. borrowed' = borrowed
    BY <1>1, <1>2, <2>1 DEF JniReturns
  <2>3. CountJni(inPos, in.start) = inPos - in.start
        /\ CountJni(outPos, out.start) = outPos - out.start
    BY PlaceLemma
  <2>4. QED
    BY <1>1, <1>2, <2>2, <2>3 DEF JniReturns, Stored
<1>3. PICK inElements \in Elements, outElements \in Elements :
        \/ /\ inElements # "NULL" /\ outElements # "NULL"
           /\ \E inPos \in in.start .. in.end, outPos \in out.start .. out.end,
                 n \in Results :
                /\ ZstdCalled(c, inPos - in.start, outPos - out.start)
                /\ JniReturns(c, in, out, inPos, outPos, n, inElements, outElements)
        \/ /\ inElements = "NULL" \/ outElements = "NULL"
           /\ JniReturns(c, in, out, in.start, out.start, GenericError,
                         inElements, outElements)
           /\ UNCHANGED contexts
  BY DEF JniCall
<1>4. object[c].state = "open"
  BY DEF JniCall
<1>5. CASE \E inPos \in in.start .. in.end, outPos \in out.start .. out.end, n \in Results :
                /\ ZstdCalled(c, inPos - in.start, outPos - out.start)
                /\ JniReturns(c, in, out, inPos, outPos, n, inElements, outElements)
  <2>1. PICK inPos \in in.start .. in.end, outPos \in out.start .. out.end, n \in Results :
                /\ ZstdCalled(c, inPos - in.start, outPos - out.start)
                /\ JniReturns(c, in, out, inPos, outPos, n, inElements, outElements)
    BY <1>5
  <2>2. Moved(c, inPos - in.start, outPos - out.start, n)
    BY <1>2, <1>4, <2>1 DEF Moved, ZstdCalled
  <2>3. QED
    BY <2>2, PlaceLemma
<1>6. CASE /\ JniReturns(c, in, out, in.start, out.start, GenericError,
                         inElements, outElements)
           /\ UNCHANGED contexts
  <2>1. in.start \in in.start .. in.end /\ out.start \in out.start .. out.end
    BY BindingsAssumption DEF Span
  <2>2. GenericError \in Results
    BY SizeTAssumption DEF GenericError, Results
  <2>3. in.start - in.start = 0 /\ out.start - out.start = 0
    BY PlaceLemma, <2>1
  <2>4. LET x == contexts[object[c].handle]
        IN  /\ x.in + 0 = x.in /\ x.out + 0 = x.out
            /\ x.in =< MaxPosition /\ x.out =< MaxPosition
    BY DEF TypeOK, Context
  <2>5. contexts = [contexts EXCEPT ![object[c].handle].in = @ + 0,
                                    ![object[c].handle].out = @ + 0]
    BY <2>4 DEF TypeOK, Context
  <2>6. Moved(c, 0, 0, GenericError)
    BY <1>2, <1>4, <1>6, <2>1, <2>2, <2>3, <2>4, <2>5 DEF Moved
  <2>7. QED
    BY <2>2, <2>6, BindingsAssumption
<1>7. QED
  BY <1>3, <1>5, <1>6

LEMMA NativeCallLemma ==
    ASSUME TypeOK, NEW c \in Codecs, NEW in \in Spans, NEW out \in Spans,
           NativeCall(c, in, out)
    PROVE  \E took, put \in 0 .. MaxLength, n \in Results : Moved(c, took, put, n)
<1>1. PICK inPos \in in.start .. in.end, outPos \in out.start .. out.end, n \in Results :
        /\ ZstdCalled(c, inPos - in.start, outPos - out.start)
        /\ object' = Stored(c, CountNative(inPos, in.start),
                            CountNative(outPos, out.start), TRUE)
        /\ last' = [last EXCEPT ![c] = [of |-> "stream", zstd |-> Meaning(n),
                                        result |-> ToLong(n), missing |-> 0]]
  BY Zenon DEF NativeCall
<1>2. CountNative(inPos, in.start) = inPos - in.start
      /\ CountNative(outPos, out.start) = outPos - out.start
  BY PlaceLemma
<1>3. Moved(c, inPos - in.start, outPos - out.start, n)
  BY <1>1, <1>2 DEF Moved, ZstdCalled, Stored, NativeCall
<1>4. QED
  BY <1>3, PlaceLemma

-----------------------------------------------------------------------------
(* The invariant *)

\* Handles and contexts belong together one to one; a closed codec has no handle.
Owned ==
    /\ \A c \in Codecs : object[c].state = "open" <=> object[c].handle # NULL
    /\ \A c \in Codecs : object[c].state = "open" =>
           contexts[object[c].handle].kind = object[c].kind
    /\ \A c, d \in Codecs :
           (object[c].state = "open" /\ object[d].handle = object[c].handle) => c = d
    /\ \A a \in Addresses : contexts[a].kind # "free" =>
           \E c \in Codecs : object[c].handle = a

IInv == TypeOK /\ Owned /\ ErrorIsSeen /\ OutputArrives

LEMMA OpenHandle ==
    ASSUME TypeOK, Owned, NEW c \in Codecs, object[c].state = "open"
    PROVE  object[c].handle \in Addresses
BY DEF TypeOK, Owned, Object

\* Every step is one of six kinds.
LEMMA StepKinds ==
    ASSUME TypeOK, Owned, [Next]_vars
    PROVE  \/ \E c \in Codecs, k \in Kind : Create(c, k)
           \/ \E c \in Codecs : CreateFails(c)
           \/ \E c \in Codecs, took, put \in 0 .. MaxLength, n \in Results :
                 Moved(c, took, put, n)
           \/ \E c \in Codecs : SetParameter(c)
           \/ \E c \in Codecs : Close(c)
           \/ UNCHANGED vars
<1>1. CASE UNCHANGED vars
  BY <1>1
<1>2. CASE Next
  <2>1. PICK c \in Codecs :
            \/ \E k \in Kind : Create(c, k)
            \/ CreateFails(c)
            \/ \E in, out \in Spans : JniCall(c, in, out)
            \/ \E in, out \in Spans : NativeCall(c, in, out)
            \/ \E in, out \in Spans : NativeThrows(c, in, out)
            \/ SetParameter(c)
            \/ Close(c)
    BY <1>2, Zenon DEF Next
  <2>2. CASE \E in, out \in Spans : JniCall(c, in, out)
    <3>1. PICK in \in Spans, out \in Spans : JniCall(c, in, out)
      BY <2>2
    <3>2. object[c].handle \in Addresses
      BY <3>1, OpenHandle DEF JniCall
    <3>3. QED
      BY <3>1, <3>2, JniCallLemma
  <2>3. CASE \E in, out \in Spans : NativeCall(c, in, out)
    BY <2>3, NativeCallLemma
  <2>4. CASE \E in, out \in Spans : NativeThrows(c, in, out)
    BY <2>4, Zenon DEF NativeThrows
  <2>5. QED
    BY <2>1, <2>2, <2>3, <2>4
<1>3. QED
  BY <1>1, <1>2

\* The two initial values of a codec agree with each other.
LEMMA NoCallLemma ==
    /\ NoCall \in LastCall
    /\ ErrorName(NoCall.result) = NoCall.zstd.error
    /\ NoCall.result = 0 <=> NoCall.zstd.finished
    /\ NoCall.missing = 0
<1>1. 1 \in Size_t /\ 1 \in 0 .. SizeModulus - MaxCode /\ 1 \in Long
  BY SizeTAssumption DEF Size_t, Long
<1>2. 1 % SizeModulus = 1
  BY <1>1, ModSmall, SizeTAssumption DEF Size_t
<1>3. ErrorName(1) = NoName
  BY <1>1, <1>2, SizeTAssumption DEF ErrorName, ToSizeT, IsError
<1>4. NoName \in 0 .. MaxCode - 1 /\ 0 \in 0 .. MaxLength
  BY SizeTAssumption, BindingsAssumption DEF NoName
<1>5. QED
  BY <1>1, <1>3, <1>4 DEF NoCall, LastCall

\* The context of a new codec.
Fresh(k) == [kind |-> k, in |-> 0, out |-> 0]

\* The values that the records take.
LEMMA RecordLemma ==
    /\ Absent \in Object /\ Absent.handle = NULL /\ Absent.state = "absent"
    /\ Free \in Context /\ Free.kind = "free" /\ Free.in = 0 /\ Free.out = 0
    /\ \A k \in Kind, a \in Addresses :
          Opened(k, a) \in Object /\ Fresh(k) \in Context
<1>1. /\ 0 \in 0 .. MaxPosition /\ -1 \in -1 .. MaxLength
  BY BindingsAssumption
<1>2. Absent \in Object /\ Absent.handle = NULL /\ Absent.state = "absent"
  BY <1>1 DEF Absent, Object, Kind
<1>3. Free \in Context /\ Free.kind = "free" /\ Free.in = 0 /\ Free.out = 0
  BY <1>1 DEF Free, Context
<1>4. ASSUME NEW k \in Kind, NEW a \in Addresses
      PROVE  Opened(k, a) \in Object /\ Fresh(k) \in Context
  BY <1>1 DEF Opened, Fresh, Object, Context
<1>5. QED
  BY <1>2, <1>3, <1>4

LEMMA InitIInv == ASSUME Init PROVE IInv
<1>1. TypeOK
  BY NoCallLemma, RecordLemma DEF Init, TypeOK
<1>2. Owned
  BY BindingsAssumption, RecordLemma DEF Init, Owned
<1>3. ErrorIsSeen /\ OutputArrives
  BY NoCallLemma DEF Init, ErrorIsSeen, OutputArrives
<1>4. QED
  BY <1>1, <1>2, <1>3 DEF IInv

LEMMA CreateIInv ==
    ASSUME IInv, NEW c \in Codecs, NEW k \in Kind, Create(c, k)
    PROVE  IInv'
<1>1. PICK a \in Addresses :
          /\ contexts[a] = Free
          /\ contexts' = [contexts EXCEPT ![a] = Fresh(k)]
          /\ object' = [object EXCEPT ![c] = Opened(k, a)]
  <2>1. PICK a \in Addresses :
          /\ contexts[a] = Free
          /\ contexts' = [contexts EXCEPT ![a].kind = k]
          /\ object' = [object EXCEPT ![c] = Opened(k, a)]
    BY DEF Create
  <2>3. [Free EXCEPT !.kind = k] = Fresh(k)
    BY DEF Free, Fresh
  <2>4. contexts' = [contexts EXCEPT ![a] = Fresh(k)]
    BY <2>1, <2>3
  <2>6. QED
    BY <2>1, <2>4
<1>2. last' = [last EXCEPT ![c] = NoCall] /\ UNCHANGED <<platform, borrowed>>
      /\ object[c].state # "open"
  BY DEF Create
<1>3. TypeOK'
  <2>1. object' \in [Codecs -> Object] /\ contexts' \in [Addresses -> Context]
    BY <1>1, RecordLemma DEF IInv, TypeOK
  <2>2. QED
    BY <1>2, <2>1, NoCallLemma DEF IInv, TypeOK
<1>4. Owned'
  <2>1. \A d \in Codecs : object[d].handle # a
    <3>1. contexts[a].kind = "free" /\ a # NULL
      BY <1>1, RecordLemma, BindingsAssumption
    <3>2. \A d \in Codecs : object[d].kind # "free"
      BY DEF IInv, TypeOK, Object, Kind
    <3>3. QED
      BY <3>1, <3>2 DEF IInv, Owned
  <2>2. /\ object'[c].handle = a /\ object'[c].state = "open" /\ object'[c].kind = k
        /\ \A d \in Codecs : d # c => object'[d] = object[d]
    BY <1>1 DEF IInv, TypeOK, Opened
  <2>3. /\ contexts'[a].kind = k
        /\ \A b \in Addresses : b # a => contexts'[b] = contexts[b]
    BY <1>1 DEF IInv, TypeOK, Fresh
  <2>4. a # NULL /\ object[c].handle = NULL
    BY <1>2, BindingsAssumption DEF IInv, TypeOK, Owned
  <2>5. \A d \in Codecs : object[d].state = "open" => object[d].handle \in Addresses
    BY OpenHandle DEF IInv
  <2>6. \A d \in Codecs : object'[d].state = "open" <=> object'[d].handle # NULL
    BY <2>2, <2>4 DEF IInv, Owned
  <2>7. \A d \in Codecs : object'[d].state = "open" =>
            contexts'[object'[d].handle].kind = object'[d].kind
    BY <2>1, <2>2, <2>3, <2>5 DEF IInv, Owned
  <2>8. \A d, e \in Codecs :
            (object'[d].state = "open" /\ object'[e].handle = object'[d].handle) => d = e
    BY <2>1, <2>2 DEF IInv, Owned
  <2>9. \A b \in Addresses : contexts'[b].kind # "free" =>
            \E d \in Codecs : object'[d].handle = b
    BY <2>2, <2>3, <2>4, BindingsAssumption DEF IInv, Owned
  <2>10. QED
    BY <2>6, <2>7, <2>8, <2>9 DEF Owned
<1>5. ErrorIsSeen' /\ OutputArrives'
  BY <1>2, NoCallLemma DEF IInv, TypeOK, ErrorIsSeen, OutputArrives
<1>6. QED
  BY <1>3, <1>4, <1>5 DEF IInv

LEMMA CreateFailsIInv ==
    ASSUME IInv, NEW c \in Codecs, CreateFails(c)
    PROVE  IInv'
<1>1. /\ object' = [object EXCEPT ![c] = Absent] /\ last' = [last EXCEPT ![c] = NoCall]
      /\ UNCHANGED <<platform, contexts, borrowed>> /\ object[c].state # "open"
  BY DEF CreateFails
<1>2. TypeOK'
  BY <1>1, NoCallLemma, RecordLemma DEF IInv, TypeOK
<1>3. Owned'
  <2>1. /\ object'[c].handle = NULL /\ object'[c].state = "absent"
        /\ \A d \in Codecs : d # c => object'[d] = object[d]
    BY <1>1, RecordLemma DEF IInv, TypeOK
  <2>2. object[c].handle = NULL
    BY <1>1 DEF IInv, Owned
  <2>3. QED
    BY <1>1, <2>1, <2>2, BindingsAssumption DEF IInv, Owned
<1>4. ErrorIsSeen' /\ OutputArrives'
  BY <1>1, NoCallLemma DEF IInv, TypeOK, ErrorIsSeen, OutputArrives
<1>5. QED
  BY <1>2, <1>3, <1>4 DEF IInv

LEMMA MovedIInv ==
    ASSUME IInv, NEW c \in Codecs, NEW took \in 0 .. MaxLength, NEW put \in 0 .. MaxLength,
           NEW n \in Results, Moved(c, took, put, n)
    PROVE  IInv'
<1> DEFINE a == object[c].handle
<1>1. a \in Addresses /\ object[c].state = "open"
  BY OpenHandle DEF IInv, Moved
<1>2. /\ \A d \in Codecs : /\ object'[d].state = object[d].state
                           /\ object'[d].kind = object[d].kind
                           /\ object'[d].handle = object[d].handle
      /\ \A b \in Addresses : contexts'[b].kind = contexts[b].kind
  BY DEF Moved, IInv, TypeOK, Object, Context
<1>3. TypeOK'
  <2>1. took \in -1 .. MaxLength /\ put \in -1 .. MaxLength
    OBVIOUS
  <2>2. contexts[a].in + took \in 0 .. MaxPosition
        /\ contexts[a].out + put \in 0 .. MaxPosition
    BY <1>1 DEF Moved, IInv, TypeOK, Context
  <2>3. object' \in [Codecs -> Object]
    <3>1. [object[c] EXCEPT !.inputBytesProcessed = took, !.outputBytesProcessed = put]
            \in Object
      BY <2>1 DEF IInv, TypeOK, Object
    <3>2. QED
      BY <3>1 DEF Moved, IInv, TypeOK
  <2>4. contexts' \in [Addresses -> Context]
    <3> DEFINE i == contexts[a].in + took
               o == contexts[a].out + put
    <3>1. contexts' = [contexts EXCEPT ![a].in = i, ![a].out = o]
      BY <1>1 DEF Moved, IInv, TypeOK
    <3>2. i \in 0 .. MaxPosition /\ o \in 0 .. MaxPosition
      BY <2>2
    <3> HIDE DEF i, o
    <3>3. [contexts[a] EXCEPT !.in = i, !.out = o] \in Context
      BY <1>1, <3>2 DEF IInv, TypeOK, Context
    <3>4. QED
      BY <1>1, <3>1, <3>3 DEF IInv, TypeOK
  <2>5. last' \in [Codecs -> LastCall]
    <3>1. [of |-> "stream", zstd |-> Meaning(n), result |-> ToLong(n), missing |-> 0]
            \in LastCall
      BY ResultLemma, BindingsAssumption DEF LastCall
    <3>2. QED
      BY <3>1 DEF Moved, IInv, TypeOK
  <2>6. QED
    BY <2>3, <2>4, <2>5 DEF Moved, IInv, TypeOK
<1>4. Owned'
  BY <1>2, OpenHandle DEF IInv, Owned
<1>5. ErrorIsSeen' /\ OutputArrives'
  BY ResultLemma DEF Moved, IInv, TypeOK, ErrorIsSeen, OutputArrives
<1>6. QED
  BY <1>3, <1>4, <1>5 DEF IInv

LEMMA SetParameterIInv ==
    ASSUME IInv, NEW c \in Codecs, SetParameter(c)
    PROVE  IInv'
<1>1. PICK n \in Results :
          last' = [last EXCEPT ![c].of = "setParameter", ![c].zstd = Meaning(n),
                               ![c].result = ToLong(n)]
  BY DEF SetParameter
<1>2. UNCHANGED <<platform, object, contexts, borrowed>>
  BY DEF SetParameter
<1>3. TypeOK'
  <2>1. [last[c] EXCEPT !.of = "setParameter", !.zstd = Meaning(n), !.result = ToLong(n)]
          \in LastCall
    <3>1. last[c] \in LastCall
      BY DEF IInv, TypeOK
    <3>2. /\ ToLong(n) \in Long
          /\ Meaning(n) \in [error : 0 .. MaxCode - 1, finished : BOOLEAN]
      BY ResultLemma
    <3>3. QED
      BY <3>1, <3>2 DEF LastCall
  <2>2. last' \in [Codecs -> LastCall]
    BY <1>1, <2>1 DEF IInv, TypeOK
  <2>3. QED
    BY <1>2, <2>2 DEF IInv, TypeOK
<1>4. Owned'
  BY <1>2 DEF IInv, Owned
<1>5. ErrorIsSeen' /\ OutputArrives'
  BY <1>1, <1>2, ResultLemma DEF IInv, TypeOK, LastCall, ErrorIsSeen, OutputArrives
<1>6. QED
  BY <1>3, <1>4, <1>5 DEF IInv

LEMMA CloseIInv ==
    ASSUME IInv, NEW c \in Codecs, Close(c)
    PROVE  IInv'
<1>1. UNCHANGED <<platform, last, borrowed>>
  BY DEF Close
<1>2. CASE object[c].handle = NULL
  BY <1>1, <1>2 DEF Close, IInv, TypeOK, Owned, ErrorIsSeen, OutputArrives
<1>3. CASE object[c].handle # NULL
  <2> DEFINE a == object[c].handle
  <2>1. a \in Addresses /\ object[c].state = "open"
    BY <1>3, OpenHandle DEF IInv, Owned
  <2> DEFINE o == [object[c] EXCEPT !.state = "closed", !.handle = NULL]
  <2>2. object' = [object EXCEPT ![c] = o] /\ contexts' = [contexts EXCEPT ![a] = Free]
    BY <1>3 DEF Close, Zeroed
  <2>3. o \in Object /\ o.state = "closed" /\ o.handle = NULL
    BY DEF IInv, TypeOK, Object
  <2> HIDE DEF o
  <2>4. /\ object'[c].handle = NULL /\ object'[c].state = "closed"
        /\ \A d \in Codecs : d # c => object'[d] = object[d]
        /\ contexts'[a].kind = "free"
        /\ \A b \in Addresses : b # a => contexts'[b] = contexts[b]
    BY <2>1, <2>2, <2>3, RecordLemma DEF IInv, TypeOK
  <2>10. TypeOK'
    <3>1. object' \in [Codecs -> Object]
      BY <2>2, <2>3 DEF IInv, TypeOK
    <3>2. contexts' \in [Addresses -> Context]
      BY <2>2, RecordLemma DEF IInv, TypeOK
    <3>3. QED
      BY <1>1, <3>1, <3>2 DEF IInv, TypeOK
  <2>5. \A d \in Codecs : d # c => object[d].handle # a
    BY <2>1 DEF IInv, Owned
  <2>6. \A d \in Codecs : object[d].state = "open" => object[d].handle \in Addresses
    BY OpenHandle DEF IInv
  <2>7. Owned'
    BY <2>1, <2>4, <2>5, <2>6 DEF IInv, Owned
  <2>8. ErrorIsSeen' /\ OutputArrives'
    BY <1>1 DEF IInv, ErrorIsSeen, OutputArrives
  <2>9. QED
    BY <2>7, <2>8, <2>10 DEF IInv
<1>4. QED
  BY <1>2, <1>3

LEMMA StepIInv == ASSUME IInv, [Next]_vars PROVE IInv'
<1>1. CASE UNCHANGED vars
  BY <1>1 DEF vars, IInv, TypeOK, Owned, ErrorIsSeen, OutputArrives
<1>2. QED
  BY <1>1, StepKinds, CreateIInv, CreateFailsIInv, MovedIInv, SetParameterIInv, CloseIInv
     DEF IInv

LEMMA Invariance == Spec => []IInv
BY InitIInv, StepIInv, PTL DEF Spec

-----------------------------------------------------------------------------
(* Theorems *)

\* Every field keeps its type: no count leaves the range of an array.
THEOREM TypeCorrect == Spec => []TypeOK
<1>1. IInv => TypeOK
  BY DEF IInv
<1>2. QED
  BY <1>1, Invariance, PTL

\* No context leaks and none is freed but by the codec that owns it.
THEOREM Ownership == Spec => []ContextsOwned
<1>1. IInv => ContextsOwned
  <2> SUFFICES ASSUME IInv PROVE ContextsOwned
    OBVIOUS
  <2>1. \A c \in Codecs : object[c].state = "open" => object[c].handle \in Addresses
    BY OpenHandle DEF IInv
  <2>2. \A a \in Addresses : a # NULL
    BY BindingsAssumption
  <2>3. QED
    BY <2>1, <2>2 DEF IInv, Owned, ContextsOwned
<1>2. QED
  BY <1>1, Invariance, PTL

\* On every width of size_t, the caller sees an error exactly when there was one.
THEOREM Errors == Spec => []ErrorIsSeen
<1>1. IInv => ErrorIsSeen
  BY DEF IInv
<1>2. QED
  BY <1>1, Invariance, PTL

\* The caller's array has the output after every call, and no copy of an array is left.
THEOREM Output == Spec => []OutputArrives
<1>1. IInv => OutputArrives
  BY DEF IInv
<1>2. QED
  BY <1>1, Invariance, PTL

-----------------------------------------------------------------------------
(* The bindings implement Codec *)

\* A codec whose part of the state stays as it is.
Same(c) ==
    /\ object'[c].state = object[c].state
    /\ Position(c)' = Position(c) /\ Outcome(c)' = Outcome(c)
    /\ Advance(c)' = Advance(c) /\ Told(c)' = Told(c)

\* After a step the caller is told what was.
LEMMA ToldLemma == ASSUME IInv', NEW c \in Codecs PROVE Told(c)' = Outcome(c)'
<1>1. ErrorName(last'[c].result) = last'[c].zstd.error
  BY DEF IInv, ErrorIsSeen
<1>2. last'[c].result = 0 <=> last'[c].zstd.finished
  BY DEF IInv, ErrorIsSeen
<1>3. last'[c].zstd.finished \in BOOLEAN
  BY DEF IInv, TypeOK, LastCall
<1>4. (last'[c].result = 0) = last'[c].zstd.finished
  BY <1>2, <1>3, Zenon
<1>5. QED
  BY <1>1, <1>4, Zenon DEF Told, Outcome

\* A step of one codec leaves the others alone.
LEMMA OthersSame ==
    ASSUME NEW c \in Codecs, NEW d \in Codecs, d # c,
           object'[d] = object[d], last'[d] = last[d],
           object[d].state = "open" => /\ contexts'[object[d].handle] = contexts[object[d].handle]
    PROVE  Same(d)
<1>1. object'[d].state = object[d].state
  OBVIOUS
<1>2. Position(d)' = Position(d)
  BY DEF Position
<1>3. Outcome(d)' = Outcome(d) /\ Advance(d)' = Advance(d) /\ Told(d)' = Told(d)
  BY DEF Outcome, Advance, Told
<1>4. QED
  BY <1>1, <1>2, <1>3 DEF Same

LEMMA NewCodec ==
    ASSUME IInv', NEW c \in Codecs, object[c].state # "open",
           object'[c].state = "absent" \/ object'[c].state = "open",
           Position(c)' = Promise!Start, Advance(c)' = Promise!Unknown, last'[c] = NoCall,
           \A d \in Codecs : d # c => Same(d)
    PROVE  Promise!Create(c)
<1>1. Outcome(c)' = Promise!NoOutcome
  <2>1. /\ NoCall.of = "nothing" /\ NoCall.zstd.error = 0 /\ NoCall.zstd.finished = FALSE
    BY DEF NoCall, NoName
  <2>2. QED
    BY <2>1, Zenon DEF Outcome, Promise!NoOutcome
<1>2. Told(c)' = Promise!NoOutcome
  BY <1>1, ToldLemma
<1>3. QED
  BY <1>1, <1>2 DEF Promise!Create, Same

LEMMA InitPromise == ASSUME Init PROVE Promise!Init
<1>1. ASSUME NEW c \in Codecs
      PROVE  /\ object[c].state = "absent" /\ Position(c) = Promise!Start
             /\ Outcome(c) = Promise!NoOutcome /\ Advance(c) = Promise!Unknown
             /\ Told(c) = Promise!NoOutcome
  <2>1. object[c] = Absent /\ last[c] = NoCall
    BY DEF Init
  <2>2. object[c].state = "absent" /\ Advance(c) = Promise!Unknown
    BY <2>1 DEF Absent, Advance, Promise!Unknown
  <2>3. Position(c) = Promise!Start
    BY <2>2 DEF Position, Promise!Start
  <2>4. /\ NoCall.of = "nothing" /\ NoCall.zstd.error = 0 /\ NoCall.zstd.finished = FALSE
        /\ NoCall.result = 1
    BY DEF NoCall, NoName
  <2>5. Outcome(c) = Promise!NoOutcome
    BY <2>1, <2>4, Zenon DEF Outcome, Promise!NoOutcome
  <2>6. ErrorName(1) = 0 /\ (1 = 0) = FALSE
    BY <2>4, NoCallLemma
  <2>7. Told(c) = Promise!NoOutcome
    BY <2>1, <2>4, <2>6, Zenon DEF Told, Promise!NoOutcome
  <2>8. QED
    BY <2>2, <2>3, <2>5, <2>7
<1>2. QED
  BY <1>1 DEF Promise!Init

LEMMA CreatePromise ==
    ASSUME IInv, IInv', NEW c \in Codecs, NEW k \in Kind, Create(c, k)
    PROVE  Promise!Create(c)
<1>1. PICK a \in Addresses :
          /\ contexts[a] = Free
          /\ contexts' = [contexts EXCEPT ![a].kind = k]
          /\ object' = [object EXCEPT ![c] = Opened(k, a)]
  BY DEF Create
<1>2. last' = [last EXCEPT ![c] = NoCall] /\ object[c].state # "open"
  BY DEF Create
<1>3. /\ object'[c] = Opened(k, a) /\ last'[c] = NoCall
      /\ \A d \in Codecs : d # c => object'[d] = object[d] /\ last'[d] = last[d]
  BY <1>1, <1>2 DEF IInv, TypeOK
<1>4. /\ contexts'[a].in = 0 /\ contexts'[a].out = 0
      /\ \A b \in Addresses : b # a => contexts'[b] = contexts[b]
  BY <1>1 DEF IInv, TypeOK, Free
<1>5. object'[c].state = "open" /\ object'[c].handle = a
  BY <1>3 DEF Opened
<1>6. Position(c)' = Promise!Start
  BY <1>4, <1>5 DEF Position, Promise!Start
<1>7. Advance(c)' = Promise!Unknown
  BY <1>3 DEF Advance, Opened, Promise!Unknown
<1>8. ASSUME NEW d \in Codecs, d # c PROVE Same(d)
  <2>1. object[d].state = "open" => object[d].handle # a
    <3>1. contexts[a].kind = "free"
      BY <1>1 DEF Free
    <3>2. object[d].kind # "free"
      BY DEF IInv, TypeOK, Object, Kind
    <3>3. QED
      BY <3>1, <3>2 DEF IInv, Owned
  <2>2. object[d].state = "open" => object[d].handle \in Addresses
    BY OpenHandle DEF IInv
  <2>3. QED
    BY <1>3, <1>4, <1>8, <2>1, <2>2, OthersSame
<1>9. QED
  BY <1>2, <1>3, <1>5, <1>6, <1>7, <1>8, NewCodec

LEMMA CreateFailsPromise ==
    ASSUME IInv, IInv', NEW c \in Codecs, CreateFails(c)
    PROVE  Promise!Create(c)
<1>1. /\ object' = [object EXCEPT ![c] = Absent] /\ last' = [last EXCEPT ![c] = NoCall]
      /\ contexts' = contexts /\ object[c].state # "open"
  BY DEF CreateFails
<1>2. /\ object'[c] = Absent /\ last'[c] = NoCall
      /\ \A d \in Codecs : d # c => object'[d] = object[d] /\ last'[d] = last[d]
  BY <1>1 DEF IInv, TypeOK
<1>3. object'[c].state = "absent" /\ Advance(c)' = Promise!Unknown
  BY <1>2 DEF Absent, Advance, Promise!Unknown
<1>4. Position(c)' = Promise!Start
  BY <1>3 DEF Position, Promise!Start
<1>5. ASSUME NEW d \in Codecs, d # c PROVE Same(d)
  BY <1>1, <1>2, <1>5, OthersSame
<1>6. QED
  BY <1>1, <1>2, <1>3, <1>4, <1>5, NewCodec

LEMMA MovedPromise ==
    ASSUME IInv, IInv', NEW c \in Codecs, NEW took \in 0 .. MaxLength,
           NEW put \in 0 .. MaxLength, NEW n \in Results, Moved(c, took, put, n)
    PROVE  Promise!Call(c)
<1> DEFINE a == object[c].handle
<1>1. a \in Addresses /\ object[c].state = "open"
  BY OpenHandle DEF IInv, Moved
<1>2. /\ object'[c].state = "open" /\ object'[c].handle = a
      /\ object'[c].inputBytesProcessed = took /\ object'[c].outputBytesProcessed = put
      /\ \A d \in Codecs : d # c => object'[d] = object[d]
  BY <1>1 DEF Moved, IInv, TypeOK, Object
<1>3. /\ last'[c].of = "stream"
      /\ \A d \in Codecs : d # c => last'[d] = last[d]
  BY DEF Moved, IInv, TypeOK
<1>4. /\ contexts'[a].in = contexts[a].in + took /\ contexts'[a].out = contexts[a].out + put
      /\ \A b \in Addresses : b # a => contexts'[b] = contexts[b]
  <2>1. /\ contexts' = [contexts EXCEPT ![a].in = @ + took, ![a].out = @ + put]
        /\ contexts \in [Addresses -> Context]
    BY DEF Moved, IInv, TypeOK
  <2>2. contexts[a] \in Context
    BY <1>1, <2>1
  <2> HIDE DEF a
  <2>3. QED
    BY <1>1, <2>1, <2>2 DEF Context
<1>5. ASSUME NEW d \in Codecs, d # c PROVE Same(d)
  <2>1. object[d].state = "open" => object[d].handle # a /\ object[d].handle \in Addresses
    BY <1>1, <1>5, OpenHandle DEF IInv, Owned
  <2>2. QED
    BY <1>2, <1>3, <1>4, <1>5, <2>1, OthersSame
<1>6. /\ Position(c) = [in |-> contexts[a].in, out |-> contexts[a].out]
      /\ Position(c)' = [in |-> contexts[a].in + took, out |-> contexts[a].out + put]
      /\ Advance(c)' = [in |-> took, out |-> put]
  BY <1>1, <1>2, <1>4 DEF Position, Advance
<1>7. Outcome(c)'.of = "stream" /\ Told(c)' = Outcome(c)'
  BY <1>3, ToldLemma DEF Outcome
<1>8. /\ Position(c)'.in = Position(c).in + Advance(c)'.in
      /\ Position(c)'.out = Position(c).out + Advance(c)'.out
  BY <1>6
<1>9. object'[c].state = object[c].state /\ object[c].state = "open"
  BY <1>1, <1>2
<1> HIDE DEF a
<1>10. QED
  BY <1>5, <1>7, <1>8, <1>9 DEF Promise!Call, Same

LEMMA SetParameterPromise ==
    ASSUME IInv, IInv', NEW c \in Codecs, SetParameter(c)
    PROVE  Promise!SetParameter(c)
<1>1. PICK n \in Results :
          last' = [last EXCEPT ![c].of = "setParameter", ![c].zstd = Meaning(n),
                               ![c].result = ToLong(n)]
  BY DEF SetParameter
<1>2. object' = object /\ contexts' = contexts /\ object[c].state = "open"
  BY DEF SetParameter
<1>3. /\ last'[c].of = "setParameter"
      /\ \A d \in Codecs : d # c => last'[d] = last[d]
  BY <1>1 DEF IInv, TypeOK, LastCall
<1>4. ASSUME NEW d \in Codecs, d # c PROVE Same(d)
  BY <1>2, <1>3, <1>4, OthersSame
<1>5. Outcome(c)'.of = "setParameter" /\ Told(c)' = Outcome(c)'
  BY <1>3, ToldLemma DEF Outcome
<1>6. \A d \in Codecs : Position(d)' = Position(d) /\ Advance(d)' = Advance(d)
  BY <1>2 DEF Position, Advance
<1>7. QED
  BY <1>2, <1>4, <1>5, <1>6 DEF Promise!SetParameter, Same

LEMMA ClosePromise ==
    ASSUME IInv, NEW c \in Codecs, Close(c)
    PROVE  Promise!Close(c) \/ UNCHANGED Promise!vars
<1>1. last' = last
  BY DEF Close
<1>2. CASE object[c].handle = NULL
  <2>1. object' = object /\ contexts' = contexts
    BY <1>2 DEF Close
  <2>2. \A d \in Codecs : /\ Position(d)' = Position(d) /\ Outcome(d)' = Outcome(d)
                          /\ Advance(d)' = Advance(d) /\ Told(d)' = Told(d)
    BY <1>1, <2>1 DEF Position, Outcome, Advance, Told
  <2>3. QED
    BY <2>1, <2>2 DEF Promise!vars
<1>3. CASE object[c].handle # NULL
  <2> DEFINE a == object[c].handle
  <2>1. a \in Addresses /\ object[c].state = "open"
    BY <1>3, OpenHandle DEF IInv, Owned
  <2>2. object' = [object EXCEPT ![c].state = "closed", ![c].handle = NULL]
        /\ contexts' = [contexts EXCEPT ![a] = Free]
    BY <1>3 DEF Close, Zeroed
  <2>3. /\ object'[c].state = "closed"
        /\ object'[c].inputBytesProcessed = object[c].inputBytesProcessed
        /\ object'[c].outputBytesProcessed = object[c].outputBytesProcessed
        /\ \A d \in Codecs : d # c => object'[d] = object[d]
    BY <2>2 DEF IInv, TypeOK, Object
  <2>4. \A b \in Addresses : b # a => contexts'[b] = contexts[b]
    BY <2>2 DEF IInv, TypeOK
  <2>5. ASSUME NEW d \in Codecs, d # c PROVE Same(d)
    <3>1. object[d].state = "open" => object[d].handle # a /\ object[d].handle \in Addresses
      BY <2>1, <2>5, OpenHandle DEF IInv, Owned
    <3>2. QED
      BY <1>1, <2>3, <2>4, <2>5, <3>1, OthersSame
  <2>6. Position(c)' = Promise!Start
    BY <2>3 DEF Position, Promise!Start
  <2>7. Outcome(c)' = Outcome(c) /\ Advance(c)' = Advance(c) /\ Told(c)' = Told(c)
    BY <1>1, <2>3 DEF Outcome, Advance, Told
  <2>8. Promise!Close(c)
    BY <2>1, <2>3, <2>5, <2>6, <2>7 DEF Promise!Close, Same
  <2>9. QED
    BY <2>8
<1>4. QED
  BY <1>2, <1>3

LEMMA StepPromise ==
    ASSUME IInv, IInv', [Next]_vars
    PROVE  [Promise!Next]_(Promise!vars)
<1>1. CASE UNCHANGED vars
  <2>1. object' = object /\ last' = last /\ contexts' = contexts
    BY <1>1 DEF vars
  <2>2. \A d \in Codecs : /\ Position(d)' = Position(d) /\ Outcome(d)' = Outcome(d)
                          /\ Advance(d)' = Advance(d) /\ Told(d)' = Told(d)
    BY <2>1 DEF Position, Outcome, Advance, Told
  <2>3. QED
    BY <2>1, <2>2 DEF Promise!vars
<1>2. CASE \E c \in Codecs, k \in Kind : Create(c, k)
  BY <1>2, CreatePromise DEF Promise!Next
<1>3. CASE \E c \in Codecs : CreateFails(c)
  BY <1>3, CreateFailsPromise DEF Promise!Next
<1>4. CASE \E c \in Codecs, took, put \in 0 .. MaxLength, n \in Results : Moved(c, took, put, n)
  BY <1>4, MovedPromise DEF Promise!Next
<1>5. CASE \E c \in Codecs : SetParameter(c)
  BY <1>5, SetParameterPromise DEF Promise!Next
<1>6. CASE \E c \in Codecs : Close(c)
  BY <1>6, ClosePromise DEF Promise!Next
<1>7. QED
  BY <1>1, <1>2, <1>3, <1>4, <1>5, <1>6, StepKinds DEF IInv

\* Both bindings keep what Codec promises, on every platform.
THEOREM Refinement == Spec => ImplementsCodec
BY InitPromise, InitIInv, StepIInv, StepPromise, PTL DEF Spec, ImplementsCodec, Promise!Spec
=============================================================================
