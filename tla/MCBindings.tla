----------------------------- MODULE MCBindings -----------------------------
(***************************************************************************)
(* Arrays for Bindings on a small instance.                                *)
(***************************************************************************)
EXTENDS Bindings, TLC

\* An array without elements, an empty range at the end of one, and a range of one byte
\* that starts behind another byte.
FewSpans ==
    {[length |-> 0, start |-> 0, end |-> 0], [length |-> 2, start |-> 2, end |-> 2],
     [length |-> 2, start |-> 1, end |-> 2]}

Symmetry == Permutations(Codecs) \cup Permutations(Addresses)
=============================================================================
