--------------------------- MODULE MCCredentials ----------------------------
(* Instances of Credentials.tla for TLC.                                   *)
EXTENDS Credentials
=============================================================================
