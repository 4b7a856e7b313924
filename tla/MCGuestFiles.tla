---------------------------- MODULE MCGuestFiles -----------------------------
(* A file that exists, that of the program, and one that does not; three   *)
(* descriptors, two of them open: the file for reading, and once more as   *)
(* vm_create leaves it.                                                    *)
EXTENDS GuestFiles, TLC

MCInherited ==
  (0 :> [file |-> "old", access |-> {"r"}, pos |-> 0]) @@
  (1 :> [file |-> "old", access |-> Rights, pos |-> 1])

MCOffsets == {-1, 0, 2}
==============================================================================
