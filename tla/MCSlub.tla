------------------------------- MODULE MCSlub -------------------------------
(* Model values for the runs of Slub: three classes of 4, 8 and 16 bytes in *)
(* pages of 16 bytes, as the classes of 8 to 4096 bytes in pages of 4096.   *)
EXTENDS Slub

MCObjSize == [i \in Classes |-> 4 * 2 ^ i]
=============================================================================
