---------------------------- MODULE NativeLibrary ---------------------------
(***************************************************************************)
(* How the JVM and Android bring up the native library: the threads of a   *)
(* process that ask for a first codec or for the name of an error, the     *)
(* initialization of the class JniZstdKt (JniZstd.kt), whose only static   *)
(* field loads the library and asks it for a JniZstd, and the              *)
(* initialization of the codec classes, which GetFieldID may start while   *)
(* JniZstdKt is being initialized.                                         *)
(*                                                                         *)
(* A class is initialized by one thread, which may use it meanwhile; other *)
(* threads wait; a class whose initializer threw can never be used.        *)
(***************************************************************************)
EXTENDS Naturals

CONSTANTS
    Threads,        \* threads of the process
    NoThread        \* no thread

ASSUME NoThreadAssumption == NoThread \notin Threads

VARIABLES
    platform,       \* "jvm" or "android"
    class,          \* of each class: how far its initialization is
    initializer,    \* of each class: the thread that initializes it
    pc,             \* of each thread: what it does next
    request,        \* of each thread: what it was asked for
    files,          \* temporary files created
    loaded,         \* libraries loaded
    structs,        \* JniZstd objects created
    jniZstdPointer, \* the static field is set
    served,         \* some thread got into the native code that it asked for
    refused         \* some thread was told that there is no library

vars == <<platform, class, initializer, pc, request, files, loaded, structs,
          jniZstdPointer, served, refused>>

Library == "JniZstdKt"
CodecClasses == {"ZstdCompressor", "ZstdDecompressor"}
Classes == {Library} \cup CodecClasses

\* A codec of one of the classes, or getErrorName().
Requests == CodecClasses \cup {"getErrorName"}

\* The steps of the initializer of JniZstdKt.
InitializerSteps == {"detectOs", "createTempFile", "copyResource", "load", "createJniZstd",
                     "compressorFields", "decompressorFields", "store"}

Steps == {"idle", "ended", "newCodec", "callStatic", "native"} \cup InitializerSteps

\* The types of the variables; and a class is being initialized just as long as there is a
\* thread that will end it, successfully or not.
TypeOK ==
    /\ platform \in {"jvm", "android"}
    /\ class \in [Classes -> {"linked", "initializing", "initialized", "erroneous"}]
    /\ initializer \in [Classes -> Threads \cup {NoThread}]
    /\ \A c \in Classes : class[c] = "initializing" <=> initializer[c] # NoThread
    /\ pc \in [Threads -> Steps]
    /\ request \in [Threads -> Requests]
    /\ files \in Nat /\ loaded \in Nat /\ structs \in Nat
    /\ jniZstdPointer \in BOOLEAN /\ served \in BOOLEAN /\ refused \in BOOLEAN

Init ==
    /\ platform \in {"jvm", "android"}
    /\ class = [c \in Classes |-> "linked"]
    /\ initializer = [c \in Classes |-> NoThread]
    /\ pc = [t \in Threads |-> "idle"]
    /\ request = [t \in Threads |-> "getErrorName"]
    /\ files = 0 /\ loaded = 0 /\ structs = 0
    /\ jniZstdPointer = FALSE /\ served = FALSE /\ refused = FALSE

Goto(t, step) == pc' = [pc EXCEPT ![t] = step]

-----------------------------------------------------------------------------
(* The initialization of a class *)

\* The class that thread t needs for its next step.
Needed(t) ==
    CASE pc[t] = "newCodec" -> request[t]
      [] pc[t] = "callStatic" -> Library
      [] pc[t] = "compressorFields" -> "ZstdCompressor"
      [] pc[t] = "decompressorFields" -> "ZstdDecompressor"

NeedsClass(t) == pc[t] \in {"newCodec", "callStatic", "compressorFields", "decompressorFields"}

\* Mutant: a thread does not wait for the one that initializes the class.
NotInitialized(c) == class[c] \in {"linked", "initializing"}

\* No thread has begun to initialize class c.
Untouched(c) == class[c] = "linked"

\* Mutant: JniZstd is created before the library is loaded.
CreateBeforeLoad == "createJniZstd"

\* The first step of run { loadNativeLibrary(); createJniZstd() }.
FirstStep == IF platform = "jvm" THEN "detectOs" ELSE "load"

BeginInitializer(t) ==
    /\ NeedsClass(t)
    /\ LET c == Needed(t)
       IN  /\ Untouched(c)
           /\ class' = [class EXCEPT ![c] = "initializing"]
           /\ initializer' = [initializer EXCEPT ![c] = t]
           /\ IF c = Library THEN Goto(t, FirstStep) ELSE pc' = pc
    /\ UNCHANGED <<platform, request, files, loaded, structs, jniZstdPointer, served, refused>>

\* Mutant: a static field of the codec classes reads jniZstdPointer, so that the initializers
\* of these classes need JniZstdKt.
EndWithLibrary(t) ==
    /\ NeedsClass(t)
    /\ initializer[Library] \in {t, NoThread}
    /\ LET c == Needed(t)
       IN  /\ c \in CodecClasses
           /\ class[c] = "initializing" /\ initializer[c] = t
           /\ class' = [class EXCEPT ![c] = "initialized"]
           /\ initializer' = [initializer EXCEPT ![c] = NoThread]
    /\ UNCHANGED <<platform, pc, request, files, loaded, structs, jniZstdPointer, served,
                   refused>>

\* The codec classes have nothing to initialize, but it takes a step.
EndInitializer(t) ==
    /\ NeedsClass(t)
    /\ LET c == Needed(t)
       IN  /\ c \in CodecClasses
           /\ class[c] = "initializing" /\ initializer[c] = t
           /\ class' = [class EXCEPT ![c] = "initialized"]
           /\ initializer' = [initializer EXCEPT ![c] = NoThread]
    /\ UNCHANGED <<platform, pc, request, files, loaded, structs, jniZstdPointer, served,
                   refused>>

\* What comes after a step that needed a class.
Following(step) ==
    CASE step = "newCodec" -> "callStatic"
      [] step = "callStatic" -> "native"
      [] step = "compressorFields" -> "decompressorFields"
      [] step = "decompressorFields" -> "store"

ClassIsReady(t) ==
    /\ NeedsClass(t)
    /\ class[Needed(t)] = "initialized"
    /\ Goto(t, Following(pc[t]))
    /\ UNCHANGED <<platform, class, initializer, request, files, loaded, structs,
                   jniZstdPointer, served, refused>>

\* Mutant: the next thread tries again.
ClassLinkedAgain == "linked"

\* Mutant: nobody is told that the initializer threw.
ClassStillInitializing == "initializing"

ClassAfterFailure == "erroneous"

\* An initializer of JniZstdKt that throws ends the request with an Error.
InitializerThrows(t) ==
    /\ class' = [class EXCEPT ![Library] = ClassAfterFailure]
    /\ initializer' = [initializer EXCEPT ![Library] = NoThread]
    /\ Goto(t, "idle")
    /\ refused' = TRUE

\* Any other thread then gets a NoClassDefFoundError.
ClassIsErroneous(t) ==
    /\ pc[t] = "callStatic"
    /\ class[Library] = "erroneous"
    /\ Goto(t, "idle")
    /\ refused' = TRUE
    /\ UNCHANGED <<platform, class, initializer, request, files, loaded, structs,
                   jniZstdPointer, served>>

-----------------------------------------------------------------------------
(* loadNativeLibrary() *)

\* An operating system without a library is an IllegalStateException.
DetectOs(t) ==
    /\ pc[t] = "detectOs"
    /\ \/ Goto(t, "createTempFile") /\ UNCHANGED <<class, initializer, refused>>
       \/ InitializerThrows(t)
    /\ UNCHANGED <<platform, request, files, loaded, structs, jniZstdPointer, served>>

\* Files.createTempFile() and deleteOnExit().
CreateTempFile(t) ==
    /\ pc[t] = "createTempFile"
    /\ \/ /\ files' = files + 1
          /\ Goto(t, "copyResource")
          /\ UNCHANGED <<class, initializer, refused>>
       \/ InitializerThrows(t) /\ UNCHANGED files
    /\ UNCHANGED <<platform, request, loaded, structs, jniZstdPointer, served>>

\* The resource may be missing, for an architecture without a library, and the copy may
\* fail.
CopyResource(t) ==
    /\ pc[t] = "copyResource"
    /\ \/ Goto(t, "load") /\ UNCHANGED <<class, initializer, refused>>
       \/ InitializerThrows(t)
    /\ UNCHANGED <<platform, request, files, loaded, structs, jniZstdPointer, served>>

\* System.load(), or System.loadLibrary() on Android.
Load(t) ==
    /\ pc[t] = "load"
    /\ \/ /\ loaded' = loaded + 1
          /\ Goto(t, "createJniZstd")
          /\ UNCHANGED <<class, initializer, refused>>
       \/ InitializerThrows(t) /\ UNCHANGED loaded
    /\ UNCHANGED <<platform, request, files, structs, jniZstdPointer, served>>

-----------------------------------------------------------------------------
(* createJniZstd() *)

\* FindClass, twice, and the allocation of the JniZstd, whose constructor looks up the
\* fields of the two classes next.
CreateJniZstd(t) ==
    /\ pc[t] = "createJniZstd"
    /\ structs' = structs + 1
    /\ Goto(t, "compressorFields")
    /\ UNCHANGED <<platform, class, initializer, request, files, loaded, jniZstdPointer,
                   served, refused>>

\* The pointer is returned and stored, and JniZstdKt is initialized; or a field was not
\* found, and the NoSuchFieldError that is pending surfaces on the return.
Store(t) ==
    /\ pc[t] = "store"
    /\ \/ /\ jniZstdPointer' = TRUE
          /\ class' = [class EXCEPT ![Library] = "initialized"]
          /\ initializer' = [initializer EXCEPT ![Library] = NoThread]
          /\ Goto(t, "callStatic")
          /\ UNCHANGED refused
       \/ InitializerThrows(t) /\ UNCHANGED jniZstdPointer
    /\ UNCHANGED <<platform, request, files, loaded, structs, served>>

-----------------------------------------------------------------------------
(* Requests *)

\* zstdCompressor(), zstdDecompressor() or getErrorName().
Ask(t, r) ==
    /\ pc[t] = "idle"
    /\ request' = [request EXCEPT ![t] = r]
    /\ Goto(t, IF r \in CodecClasses THEN "newCodec" ELSE "callStatic")
    /\ UNCHANGED <<platform, class, initializer, files, loaded, structs, jniZstdPointer,
                   served, refused>>

\* The native function runs and the request ends, with a codec or an OutOfMemoryError.
CallNative(t) ==
    /\ pc[t] = "native"
    /\ served' = TRUE
    /\ Goto(t, "idle")
    /\ UNCHANGED <<platform, class, initializer, request, files, loaded, structs,
                   jniZstdPointer, refused>>

\* A thread ends.
End(t) ==
    /\ pc[t] = "idle"
    /\ Goto(t, "ended")
    /\ UNCHANGED <<platform, class, initializer, request, files, loaded, structs,
                   jniZstdPointer, served, refused>>

-----------------------------------------------------------------------------
Step(t) ==
    \/ BeginInitializer(t) \/ EndInitializer(t) \/ ClassIsReady(t) \/ ClassIsErroneous(t)
    \/ DetectOs(t) \/ CreateTempFile(t) \/ CopyResource(t) \/ Load(t)
    \/ CreateJniZstd(t) \/ Store(t) \/ CallNative(t)

Next == \E t \in Threads : Step(t) \/ (\E r \in Requests : Ask(t, r)) \/ End(t)

Spec == Init /\ [][Next]_vars

\* A thread that can go on does so in the end: the operating system schedules it, and the
\* JVM wakes it when the class it waits for is initialized.
FairSpec == Spec /\ \A t \in Threads : WF_vars(Step(t))

-----------------------------------------------------------------------------
(* Properties *)

\* Whatever the threads do, one temporary file, one library and one JniZstd at most.
BroughtUpOnce == files =< 1 /\ loaded =< 1 /\ structs =< 1

\* Code of the library runs, from createJniZstd() on, only when the library is loaded, and
\* a thread gets to what it asked for only when the JniZstd with the fields is stored.
NativeCodeIsThere ==
    \A t \in Threads :
        /\ pc[t] \in {"createJniZstd", "compressorFields", "decompressorFields", "store",
                      "native"} => loaded = 1
        /\ pc[t] = "native" => jniZstdPointer /\ structs = 1

\* No process in which one thread was told that there is no library and another, sooner or
\* later, used it.
AllOrNone == ~(served /\ refused)

\* Every request ends: the initializations of the three classes never wait for each other.
RequestsEnd == \A t \in Threads : pc[t] \notin {"idle", "ended"} ~> pc[t] = "idle"
=============================================================================
