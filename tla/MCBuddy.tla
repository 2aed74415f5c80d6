------------------------------ MODULE MCBuddy ------------------------------
(* Model values for the runs of Buddy. *)
EXTENDS Buddy

MCBlockSize == [k \in 0..(MAX_ORDER + 1) |-> 2 ^ k]
=============================================================================
