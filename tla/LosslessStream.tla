--------------------------- MODULE LosslessStream ---------------------------
(***************************************************************************)
(* What zstdCompress() and zstdDecompress() promise together: a writer and *)
(* a reader of one stream of bytes, and nothing in between.  The reader    *)
(* gets the bytes in order, as many as it likes of those written, and is   *)
(* told of the end only when there is one and it has read everything.      *)
(***************************************************************************)
EXTENDS Naturals

VARIABLES
    written,        \* bytes written
    read,           \* bytes read
    shut,           \* the writer has closed the stream
    told            \* what the reader was told last: "more" may come, or the "end"

vars == <<written, read, shut, told>>

Init == written = 0 /\ read = 0 /\ shut = FALSE /\ told = "more"

Write ==
    /\ ~shut
    /\ written' > written
    /\ UNCHANGED <<read, shut, told>>

Shut == shut' = TRUE /\ UNCHANGED <<written, read, told>>

Read ==
    /\ read' > read /\ read' =< written
    /\ told' = "more"
    /\ UNCHANGED <<written, shut>>

End ==
    /\ shut
    /\ read = written
    /\ told' = "end"
    /\ UNCHANGED <<written, read, shut>>

\* A call of the reader that neither reads nor finds the end.
Other == told' = "more" /\ UNCHANGED <<written, read, shut>>

Next == Write \/ Shut \/ Read \/ End \/ Other

Spec == Init /\ [][Next]_vars
=============================================================================
