--------------------------- MODULE MCChatAttempt ----------------------------
(* Instances of ChatAttempt.tla for TLC.  The lengths of auth.inject are    *)
(* those on both sides of each limit of the header and of a frame.          *)
EXTENDS ChatAttempt

MCInjectLengths == {125, 126, 65535, 65536, 131072, 131073, 262145}
=============================================================================
