------------------------------ MODULE MCModels ------------------------------
(* Instances of ModelsCache.tla for TLC.                                   *)
EXTENDS ModelsCache, TLC

\* Requests for the list are interchangeable.
ReaderSymmetry == Permutations(Readers)
=============================================================================
