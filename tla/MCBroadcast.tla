----------------------------- MODULE MCBroadcast -----------------------------
(* Small instances of Broadcast for TLC.                                   *)
EXTENDS BroadcastInvariant, TLC

Symmetric == Permutations(Jobs) \cup Permutations(Phones)
                \cup Permutations(Workers)
=============================================================================
