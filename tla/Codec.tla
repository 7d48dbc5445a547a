------------------------------- MODULE Codec --------------------------------
(***************************************************************************)
(* What ZstdCompressor and ZstdDecompressor promise their user, on every   *)
(* platform: a codec is open from its creation until it is closed; a call  *)
(* moves it on in its two streams, and tells by how much and with what     *)
(* outcome.                                                                *)
(***************************************************************************)
EXTENDS Integers

CONSTANT
    Codecs          \* the codecs of the process

VARIABLES
    state,          \* of each codec: absent, open or closed
    position,       \* how far each codec is in its input and its output
    outcome,        \* of the last call on each codec: what it was
    advance,        \* what inputBytesProcessed and outputBytesProcessed tell about it
    told            \* what getErrorName(result) and result == 0L tell about it

vars == <<state, position, outcome, advance, told>>

Place == [in : Int, out : Int]

Start == [in |-> 0, out |-> 0]

\* No call has been made: the fields have their initial values.
Unknown == [in |-> -1, out |-> -1]

NoOutcome == [of |-> "nothing", error |-> 0, finished |-> FALSE]

Init ==
    /\ state = [c \in Codecs |-> "absent"]
    /\ position = [c \in Codecs |-> Start]
    /\ outcome = [c \in Codecs |-> NoOutcome]
    /\ advance = [c \in Codecs |-> Unknown]
    /\ told = [c \in Codecs |-> NoOutcome]

\* A creation that fails leaves no codec.
Create(c) ==
    /\ state[c] # "open"
    /\ \E s \in {"open", "absent"} : state' = [state EXCEPT ![c] = s]
    /\ position' = [position EXCEPT ![c] = Start]
    /\ outcome' = [outcome EXCEPT ![c] = NoOutcome]
    /\ advance' = [advance EXCEPT ![c] = Unknown]
    /\ told' = [told EXCEPT ![c] = NoOutcome]

\* The two fields are by how much the codec has moved on, and the caller reads the
\* outcome that was.
Call(c) ==
    /\ state[c] = "open"
    /\ position'[c].in = position[c].in + advance'[c].in
    /\ position'[c].out = position[c].out + advance'[c].out
    /\ position' = [position EXCEPT ![c] = position'[c]]
    /\ outcome'[c].of = "stream"
    /\ outcome' = [outcome EXCEPT ![c] = outcome'[c]]
    /\ advance' = [advance EXCEPT ![c] = advance'[c]]
    /\ told' = [told EXCEPT ![c] = outcome'[c]]
    /\ UNCHANGED state

\* setParameter has an outcome and moves nothing.
SetParameter(c) ==
    /\ state[c] = "open"
    /\ outcome'[c].of = "setParameter"
    /\ outcome' = [outcome EXCEPT ![c] = outcome'[c]]
    /\ told' = [told EXCEPT ![c] = outcome'[c]]
    /\ UNCHANGED <<state, position, advance>>

Close(c) ==
    /\ state[c] = "open"
    /\ state' = [state EXCEPT ![c] = "closed"]
    /\ position' = [position EXCEPT ![c] = Start]
    /\ UNCHANGED <<outcome, advance, told>>

Next == \E c \in Codecs : Create(c) \/ Call(c) \/ SetParameter(c) \/ Close(c)

Spec == Init /\ [][Next]_vars
=============================================================================
