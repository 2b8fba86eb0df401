------------------------------ MODULE MCRelay -------------------------------
(* Instances of RelayConverter.tla for TLC.                                *)
EXTENDS RelayConverter
=============================================================================
