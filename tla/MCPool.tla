------------------------------- MODULE MCPool -------------------------------
(* Instances of Pool.tla for TLC.                                          *)
EXTENDS Pool
=============================================================================
