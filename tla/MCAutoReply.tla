---------------------------- MODULE MCAutoReply ----------------------------
(* Small instances of AutoReply for TLC.                                     *)
EXTENDS AutoReply, TLC
=============================================================================
