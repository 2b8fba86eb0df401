----------------------------- MODULE MCGateway ------------------------------
(* Instances of Gateway.tla for TLC.                                       *)
EXTENDS Gateway, TLC

\* Requests are interchangeable: no action or property orders them.
RequestSymmetry == Permutations(Requests)
=============================================================================
