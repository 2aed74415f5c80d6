---------------------------- MODULE MCBuddyCheck ----------------------------
(* Model values for the runs of BuddyCheck. *)
EXTENDS BuddyCheck

MCBlockSize == [k \in 0..(MAX_ORDER + 1) |-> 2 ^ k]
=============================================================================
