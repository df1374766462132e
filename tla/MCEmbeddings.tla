---------------------------- MODULE MCEmbeddings ----------------------------
(* Finite instances of Embeddings for TLC.                                 *)
EXTENDS Embeddings, TLC

CONSTANTS f1, f2, t1, t2, small, large

\* The default model has the default length.
Dims == small :> 1 @@ large :> 2

Symmetry == Permutations({f1, f2}) \cup Permutations({t1, t2})
=============================================================================
