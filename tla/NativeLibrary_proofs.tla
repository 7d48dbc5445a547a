------------------------ MODULE NativeLibrary_proofs ------------------------
(***************************************************************************)
(* Theorems about NativeLibrary, for any set of threads.                   *)
(***************************************************************************)
EXTENDS NativeLibrary, TLAPS

-----------------------------------------------------------------------------
(* The invariant *)

\* How far the initializer has come, by its step.
Progress(t) ==
    /\ pc[t] \in {"detectOs", "createTempFile"} => files = 0
    /\ pc[t] \in {"detectOs", "createTempFile", "copyResource", "load"} => loaded = 0
    /\ pc[t] \in {"detectOs", "createTempFile", "copyResource", "load", "createJniZstd"} =>
         structs = 0
    /\ pc[t] \in {"createJniZstd", "compressorFields", "decompressorFields", "store"} =>
         loaded = 1
    /\ pc[t] \in {"compressorFields", "decompressorFields", "store"} => structs = 1

\* What is there, by the state of JniZstdKt.
ByClass ==
    /\ class[Library] = "linked" => files = 0 /\ loaded = 0 /\ structs = 0
    /\ class[Library] \in {"linked", "initializing"} => ~served /\ ~refused
    /\ class[Library] = "initialized" => /\ loaded = 1 /\ structs = 1
                                         /\ jniZstdPointer /\ ~refused
    /\ class[Library] = "erroneous" => ~served

\* Only the initializer of JniZstdKt takes the initializer's steps, and nobody is in native
\* code on its own behalf before that is done.
OneInitializer ==
    \A t \in Threads :
        /\ pc[t] \in InitializerSteps =>
             class[Library] = "initializing" /\ initializer[Library] = t
        /\ pc[t] = "native" => class[Library] = "initialized"
        /\ pc[t] = "newCodec" => request[t] \in CodecClasses

IInv ==
    /\ TypeOK
    /\ BroughtUpOnce
    /\ OneInitializer
    /\ \A t \in Threads : Progress(t)
    /\ ByClass

\* The class that a step needs.
LEMMA NeededLemma ==
    ASSUME IInv, NEW t \in Threads, NeedsClass(t)
    PROVE  /\ Needed(t) \in Classes
           /\ Needed(t) = Library <=> pc[t] = "callStatic"
           /\ Needed(t) \in CodecClasses <=> pc[t] # "callStatic"
<1>1. pc[t] = "newCodec" => request[t] \in CodecClasses
  BY DEF IInv, OneInitializer
<1>2. Library \notin CodecClasses
  BY DEF Library, CodecClasses
<1>3. pc[t] \in {"newCodec", "callStatic", "compressorFields", "decompressorFields"}
  BY DEF NeedsClass
<1>4. CASE pc[t] = "newCodec"
  BY <1>1, <1>2, <1>4 DEF Needed, Classes
<1>5. CASE pc[t] = "callStatic"
  BY <1>2, <1>5 DEF Needed, Classes
<1>6. CASE pc[t] = "compressorFields"
  BY <1>2, <1>6 DEF Needed, Classes, CodecClasses
<1>7. CASE pc[t] = "decompressorFields"
  BY <1>2, <1>7 DEF Needed, Classes, CodecClasses
<1>8. QED
  BY <1>3, <1>4, <1>5, <1>6, <1>7

LEMMA InitIInv == ASSUME Init PROVE IInv
<1>1. TypeOK
  BY DEF Init, TypeOK, Steps, Requests
<1>2. class[Library] = "linked" /\ \A t \in Threads : pc[t] = "idle"
  BY DEF Init, Classes
<1>3. OneInitializer /\ \A t \in Threads : Progress(t)
  BY <1>2 DEF OneInitializer, Progress, InitializerSteps
<1>4. BroughtUpOnce /\ ByClass
  BY <1>2 DEF Init, BroughtUpOnce, ByClass
<1>5. QED
  BY <1>1, <1>3, <1>4 DEF IInv

LEMMA BeginInitializerIInv ==
    ASSUME IInv, NEW t \in Threads, BeginInitializer(t)
    PROVE  IInv'
<1> DEFINE c == Needed(t)
<1>1. /\ c \in Classes /\ (c = Library <=> pc[t] = "callStatic")
      /\ class[c] = "linked"
      /\ class' = [class EXCEPT ![c] = "initializing"]
      /\ initializer' = [initializer EXCEPT ![c] = t]
      /\ IF c = Library THEN Goto(t, FirstStep) ELSE pc' = pc
  BY NeededLemma DEF BeginInitializer, Untouched
<1>2. UNCHANGED <<platform, request, files, loaded, structs, jniZstdPointer, served, refused>>
  BY DEF BeginInitializer
<1> HIDE DEF c
<1>3. TypeOK'
  <2>1. FirstStep \in Steps
    BY DEF FirstStep, Steps, InitializerSteps
  <2>2. pc' \in [Threads -> Steps]
    BY <1>1, <2>1 DEF IInv, TypeOK, Goto
  <2>3. class' \in [Classes -> {"linked", "initializing", "initialized", "erroneous"}]
    BY <1>1 DEF IInv, TypeOK
  <2>4. initializer' \in [Classes -> Threads \cup {NoThread}]
    BY <1>1 DEF IInv, TypeOK
  <2>5. ASSUME NEW d \in Classes
        PROVE  class'[d] = "initializing" <=> initializer'[d] # NoThread
    <3>1. t # NoThread
      BY NoThreadAssumption
    <3>2. CASE d = c
      BY <1>1, <3>1, <3>2 DEF IInv, TypeOK
    <3>3. CASE d # c
      <4>1. class'[d] = class[d] /\ initializer'[d] = initializer[d]
        BY <1>1, <3>3 DEF IInv, TypeOK
      <4> QED BY <4>1 DEF IInv, TypeOK
    <3> QED BY <3>2, <3>3
  <2>6. QED
    BY <1>2, <2>2, <2>3, <2>4, <2>5 DEF IInv, TypeOK
<1>4. CASE c = Library
  <2>1. /\ class[Library] = "linked" /\ class'[Library] = "initializing"
        /\ initializer'[Library] = t
    BY <1>1, <1>4 DEF IInv, TypeOK
  <2>2. /\ pc' = [pc EXCEPT ![t] = FirstStep]
        /\ FirstStep \in {"detectOs", "load"}
    BY <1>1, <1>4 DEF Goto, FirstStep
  <2>3. files = 0 /\ loaded = 0 /\ structs = 0 /\ ~served /\ ~refused
    BY <2>1 DEF IInv, ByClass
  <2>4. \A u \in Threads : pc[u] \notin InitializerSteps /\ pc[u] # "native"
    BY <2>1 DEF IInv, OneInitializer
  <2>5. OneInitializer'
    BY <1>2, <2>1, <2>2, <2>4 DEF IInv, TypeOK, OneInitializer, InitializerSteps
  <2>6. (\A u \in Threads : Progress(u))'
    BY <1>2, <2>2, <2>3, <2>4 DEF IInv, TypeOK, Progress, InitializerSteps
  <2>7. ByClass' /\ BroughtUpOnce'
    BY <1>2, <2>1, <2>3 DEF ByClass, BroughtUpOnce
  <2>8. QED
    BY <1>3, <2>5, <2>6, <2>7 DEF IInv
<1>5. CASE c # Library
  <2>1. /\ class'[Library] = class[Library] /\ initializer'[Library] = initializer[Library]
        /\ pc' = pc
    BY <1>1, <1>5 DEF IInv, TypeOK, Classes
  <2>2. OneInitializer' /\ (\A u \in Threads : Progress(u))' /\ ByClass' /\ BroughtUpOnce'
    BY <1>2, <2>1 DEF IInv, OneInitializer, Progress, ByClass, BroughtUpOnce
  <2>3. QED
    BY <1>3, <2>2 DEF IInv
<1>6. QED
  BY <1>4, <1>5

LEMMA EndInitializerIInv ==
    ASSUME IInv, NEW t \in Threads, EndInitializer(t)
    PROVE  IInv'
<1> DEFINE c == Needed(t)
<1>1. /\ c \in CodecClasses
      /\ class' = [class EXCEPT ![c] = "initialized"]
      /\ initializer' = [initializer EXCEPT ![c] = NoThread]
  BY DEF EndInitializer
<1>2. UNCHANGED <<platform, pc, request, files, loaded, structs, jniZstdPointer, served,
                  refused>>
  BY DEF EndInitializer
<1>3. c # Library /\ c \in Classes /\ Library \in Classes
  BY <1>1 DEF Library, CodecClasses, Classes
<1> HIDE DEF c
<1>4. TypeOK'
  BY <1>1, <1>2, <1>3 DEF IInv, TypeOK
<1>5. class'[Library] = class[Library] /\ initializer'[Library] = initializer[Library]
  BY <1>1, <1>3 DEF IInv, TypeOK
<1>6. OneInitializer' /\ (\A u \in Threads : Progress(u))' /\ ByClass' /\ BroughtUpOnce'
  BY <1>2, <1>5 DEF IInv, OneInitializer, Progress, ByClass, BroughtUpOnce
<1>7. QED
  BY <1>4, <1>6 DEF IInv

LEMMA ClassIsReadyIInv ==
    ASSUME IInv, NEW t \in Threads, ClassIsReady(t)
    PROVE  IInv'
<1>1. /\ NeedsClass(t) /\ class[Needed(t)] = "initialized"
      /\ pc' = [pc EXCEPT ![t] = Following(pc[t])]
      /\ UNCHANGED <<platform, class, initializer, request, files, loaded, structs,
                     jniZstdPointer, served, refused>>
  BY DEF ClassIsReady, Goto
<1>2. /\ pc[t] \in {"newCodec", "callStatic", "compressorFields", "decompressorFields"}
      /\ pc[t] = "callStatic" => class[Library] = "initialized"
  BY <1>1, NeededLemma DEF NeedsClass
<1>3. /\ pc[t] = "newCodec" => Following(pc[t]) = "callStatic"
      /\ pc[t] = "callStatic" => Following(pc[t]) = "native"
      /\ pc[t] = "compressorFields" => Following(pc[t]) = "decompressorFields"
      /\ pc[t] = "decompressorFields" => Following(pc[t]) = "store"
  BY DEF Following
<1>4. TypeOK'
  BY <1>1, <1>2, <1>3 DEF IInv, TypeOK, Steps, InitializerSteps
<1>5. OneInitializer'
  BY <1>1, <1>2, <1>3 DEF IInv, TypeOK, OneInitializer, InitializerSteps
<1>6. (\A u \in Threads : Progress(u))'
  BY <1>1, <1>2, <1>3 DEF IInv, TypeOK, Progress
<1>7. ByClass' /\ BroughtUpOnce'
  BY <1>1 DEF IInv, ByClass, BroughtUpOnce
<1>8. QED
  BY <1>4, <1>5, <1>6, <1>7 DEF IInv

\* An initializer that throws at one of its steps, when the counts are as before or grew
\* within the bounds.
LEMMA ThrowsIInv ==
    ASSUME IInv, NEW t \in Threads, pc[t] \in InitializerSteps, InitializerThrows(t),
           UNCHANGED <<platform, request, files, loaded, structs, jniZstdPointer, served>>
    PROVE  IInv'
<1>1. /\ class[Library] = "initializing"
      /\ \A u \in Threads : u # t => pc[u] \notin InitializerSteps
      /\ \A u \in Threads : pc[u] # "native"
  BY DEF IInv, OneInitializer
<1>2. /\ class' = [class EXCEPT ![Library] = "erroneous"]
      /\ initializer' = [initializer EXCEPT ![Library] = NoThread]
      /\ pc' = [pc EXCEPT ![t] = "idle"] /\ refused' = TRUE
  BY DEF InitializerThrows, ClassAfterFailure, Goto
<1>3. class'[Library] = "erroneous"
  BY <1>2 DEF IInv, TypeOK, Classes
<1>4. TypeOK'
  BY <1>2 DEF IInv, TypeOK, Steps
<1>5. \A u \in Threads : /\ pc'[u] \notin InitializerSteps /\ pc'[u] # "native"
                         /\ pc'[u] = "newCodec" => pc[u] = "newCodec"
  BY <1>1, <1>2 DEF IInv, TypeOK, InitializerSteps
<1>6. OneInitializer' /\ (\A u \in Threads : Progress(u))'
  BY <1>5 DEF IInv, OneInitializer, Progress, InitializerSteps
<1>7. ByClass' /\ BroughtUpOnce'
  BY <1>1, <1>3 DEF IInv, ByClass, BroughtUpOnce
<1>8. QED
  BY <1>4, <1>6, <1>7 DEF IInv

\* A step of the initializer that goes on to the next one.
LEMMA GoesOnIInv ==
    ASSUME IInv, NEW t \in Threads, pc[t] \in InitializerSteps, NEW s \in InitializerSteps,
           pc' = [pc EXCEPT ![t] = s],
           UNCHANGED <<platform, class, initializer, request, jniZstdPointer, served, refused>>,
           files' \in Nat, loaded' \in Nat, structs' \in Nat, Progress(t)', BroughtUpOnce'
    PROVE  IInv'
<1>1. /\ class[Library] = "initializing" /\ initializer[Library] = t
      /\ \A u \in Threads : u # t => pc[u] \notin InitializerSteps
  BY DEF IInv, OneInitializer
<1>2. TypeOK'
  BY DEF IInv, TypeOK, Steps
<1>3. OneInitializer'
  BY <1>1 DEF IInv, TypeOK, OneInitializer, InitializerSteps
<1>4. ASSUME NEW u \in Threads, u # t PROVE Progress(u)'
  <2>1. pc'[u] = pc[u] /\ pc[u] \notin InitializerSteps
    BY <1>1, <1>4 DEF IInv, TypeOK
  <2>2. QED
    BY <2>1 DEF Progress, InitializerSteps
<1>5. ByClass'
  BY <1>1 DEF IInv, ByClass
<1>6. QED
  BY <1>2, <1>3, <1>4, <1>5 DEF IInv

LEMMA InitializerIInv ==
    ASSUME IInv, NEW t \in Threads,
           DetectOs(t) \/ CreateTempFile(t) \/ CopyResource(t) \/ Load(t) \/ CreateJniZstd(t)
    PROVE  IInv'
<1>1. pc[t] \in InitializerSteps /\ Progress(t) /\ BroughtUpOnce
      /\ files \in Nat /\ loaded \in Nat /\ structs \in Nat /\ pc \in [Threads -> Steps]
  BY DEF IInv, TypeOK, DetectOs, CreateTempFile, CopyResource, Load, CreateJniZstd,
         InitializerSteps
<1>2. CASE DetectOs(t)
  BY <1>1, <1>2, ThrowsIInv, GoesOnIInv
     DEF DetectOs, Goto, Progress, BroughtUpOnce, InitializerSteps
<1>3. CASE CreateTempFile(t)
  BY <1>1, <1>3, ThrowsIInv, GoesOnIInv
     DEF CreateTempFile, Goto, Progress, BroughtUpOnce, InitializerSteps
<1>4. CASE CopyResource(t)
  BY <1>1, <1>4, ThrowsIInv, GoesOnIInv
     DEF CopyResource, Goto, Progress, BroughtUpOnce, InitializerSteps
<1>5. CASE Load(t)
  BY <1>1, <1>5, ThrowsIInv, GoesOnIInv
     DEF Load, Goto, Progress, BroughtUpOnce, InitializerSteps
<1>6. CASE CreateJniZstd(t)
  <2>1. /\ structs = 0 /\ structs' = 1 /\ loaded = 1
        /\ pc' = [pc EXCEPT ![t] = "compressorFields"]
        /\ UNCHANGED <<platform, class, initializer, request, files, loaded,
                       jniZstdPointer, served, refused>>
    BY <1>1, <1>6 DEF CreateJniZstd, Goto, Progress
  <2>2. pc'[t] = "compressorFields"
    BY <1>1, <2>1
  <2>3. Progress(t)' /\ BroughtUpOnce'
    BY <1>1, <2>1, <2>2 DEF Progress, BroughtUpOnce
  <2>4. "compressorFields" \in InitializerSteps
    BY DEF InitializerSteps
  <2>5. QED
    BY <1>1, <2>1, <2>3, <2>4, GoesOnIInv
<1>7. QED
  BY <1>2, <1>3, <1>4, <1>5, <1>6

LEMMA StoreIInv ==
    ASSUME IInv, NEW t \in Threads, Store(t)
    PROVE  IInv'
<1>1. pc[t] = "store" /\ pc[t] \in InitializerSteps
      /\ UNCHANGED <<platform, request, files, loaded, structs, served>>
  BY DEF Store, InitializerSteps
<1>2. CASE InitializerThrows(t) /\ UNCHANGED jniZstdPointer
  BY <1>1, <1>2, ThrowsIInv
<1>3. CASE /\ jniZstdPointer' = TRUE
           /\ class' = [class EXCEPT ![Library] = "initialized"]
           /\ initializer' = [initializer EXCEPT ![Library] = NoThread]
           /\ Goto(t, "callStatic")
           /\ UNCHANGED refused
  <2>1. /\ class[Library] = "initializing"
        /\ \A u \in Threads : u # t => pc[u] \notin InitializerSteps
    BY <1>1 DEF IInv, OneInitializer
  <2>2. class'[Library] = "initialized" /\ pc' = [pc EXCEPT ![t] = "callStatic"]
    BY <1>3 DEF IInv, TypeOK, Classes, Goto
  <2>3. loaded = 1 /\ structs = 1
    BY <1>1 DEF IInv, Progress
  <2>4. TypeOK'
    BY <1>1, <1>3, <2>2 DEF IInv, TypeOK, Steps
  <2>5. \A u \in Threads : /\ pc'[u] \notin InitializerSteps
                           /\ pc'[u] = "newCodec" => pc[u] = "newCodec"
    BY <2>1, <2>2 DEF IInv, TypeOK, InitializerSteps
  <2>6. OneInitializer' /\ (\A u \in Threads : Progress(u))'
    BY <1>1, <2>2, <2>5 DEF IInv, OneInitializer, Progress, InitializerSteps
  <2>7. ByClass' /\ BroughtUpOnce'
    BY <1>1, <1>3, <2>1, <2>2, <2>3 DEF IInv, ByClass, BroughtUpOnce
  <2>8. QED
    BY <2>4, <2>6, <2>7 DEF IInv
<1>4. QED
  BY <1>2, <1>3 DEF Store

LEMMA RequestIInv ==
    ASSUME IInv, NEW t \in Threads,
           \/ \E r \in Requests : Ask(t, r)
           \/ CallNative(t)
           \/ ClassIsErroneous(t)
           \/ End(t)
    PROVE  IInv'
<1>1. UNCHANGED <<platform, class, initializer, files, loaded, structs, jniZstdPointer>>
  BY DEF Ask, CallNative, ClassIsErroneous, End
<1>2. CASE \E r \in Requests : Ask(t, r)
  <2>1. PICK r \in Requests : Ask(t, r)
    BY <1>2
  <2> DEFINE s == IF r \in CodecClasses THEN "newCodec" ELSE "callStatic"
  <2>2. /\ pc' = [pc EXCEPT ![t] = s] /\ request' = [request EXCEPT ![t] = r]
        /\ UNCHANGED <<served, refused>>
        /\ s = "newCodec" \/ s = "callStatic"
        /\ s = "newCodec" => r \in CodecClasses
    BY <2>1 DEF Ask, Goto
  <2> HIDE DEF s
  <2>3. TypeOK'
    BY <1>1, <2>2 DEF IInv, TypeOK, Steps
  <2>4. OneInitializer' /\ (\A u \in Threads : Progress(u))'
    BY <1>1, <2>2 DEF IInv, TypeOK, OneInitializer, Progress, InitializerSteps
  <2>5. ByClass' /\ BroughtUpOnce'
    BY <1>1, <2>2 DEF IInv, ByClass, BroughtUpOnce
  <2>6. QED
    BY <2>3, <2>4, <2>5 DEF IInv
<1>3. CASE CallNative(t) \/ ClassIsErroneous(t) \/ End(t)
  <2>1. /\ \/ pc' = [pc EXCEPT ![t] = "idle"]
           \/ pc' = [pc EXCEPT ![t] = "ended"]
        /\ request' = request
    BY <1>3 DEF CallNative, ClassIsErroneous, End, Goto
  <2>2. \/ served' = TRUE /\ refused' = refused /\ class[Library] = "initialized"
        \/ served' = served /\ refused' = TRUE /\ class[Library] = "erroneous"
        \/ served' = served /\ refused' = refused
    BY <1>3 DEF CallNative, ClassIsErroneous, End, IInv, OneInitializer
  <2>3. TypeOK'
    BY <1>1, <2>1, <2>2 DEF IInv, TypeOK, Steps
  <2>4. OneInitializer' /\ (\A u \in Threads : Progress(u))'
    BY <1>1, <2>1 DEF IInv, TypeOK, OneInitializer, Progress, InitializerSteps
  <2>5. ByClass' /\ BroughtUpOnce'
    BY <1>1, <2>2 DEF IInv, ByClass, BroughtUpOnce
  <2>6. QED
    BY <2>3, <2>4, <2>5 DEF IInv
<1>4. QED
  BY <1>2, <1>3

LEMMA StepIInv == ASSUME IInv, [Next]_vars PROVE IInv'
<1>1. CASE UNCHANGED vars
  BY <1>1 DEF vars, IInv, TypeOK, BroughtUpOnce, OneInitializer, Progress, ByClass
<1>2. CASE Next
  BY <1>2, BeginInitializerIInv, EndInitializerIInv, ClassIsReadyIInv, InitializerIInv,
     StoreIInv, RequestIInv, Zenon DEF Next, Step
<1>3. QED
  BY <1>1, <1>2

LEMMA Invariance == Spec => []IInv
BY InitIInv, StepIInv, PTL DEF Spec

-----------------------------------------------------------------------------
(* Theorems *)

\* Every variable keeps its type, and a class is being initialized just as long as some thread
\* will end it.
THEOREM TypeCorrect == Spec => []TypeOK
<1>1. IInv => TypeOK
  BY DEF IInv
<1>2. QED
  BY <1>1, Invariance, PTL

\* However many threads race, the library is brought up at most once.
THEOREM Once == Spec => []BroughtUpOnce
<1>1. IInv => BroughtUpOnce
  BY DEF IInv
<1>2. QED
  BY <1>1, Invariance, PTL

\* No thread runs native code before the library and the JniZstd are there.
THEOREM LinkedFirst == Spec => []NativeCodeIsThere
<1>1. IInv => NativeCodeIsThere
  BY DEF IInv, OneInitializer, Progress, ByClass, NativeCodeIsThere, InitializerSteps
<1>2. QED
  BY <1>1, Invariance, PTL

\* A failure to bring the library up is final, for every thread.
THEOREM Final == Spec => []AllOrNone
<1>1. IInv => AllOrNone
  <2>1. TypeOK => class[Library] \in {"linked", "initializing", "initialized", "erroneous"}
    BY DEF TypeOK, Classes
  <2>2. QED
    BY <2>1 DEF IInv, ByClass, AllOrNone
<1>2. QED
  BY <1>1, Invariance, PTL
=============================================================================
