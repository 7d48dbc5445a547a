--------------------------- MODULE MCZstdPipeline ---------------------------
(***************************************************************************)
(* The pipe of ZstdPipeline on a small instance.                           *)
(***************************************************************************)
EXTENDS ZstdPipeline

\* What is in the pipe before the writer has put anything into it.
NothingYet == {<<>>}
=============================================================================
