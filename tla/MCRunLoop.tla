----------------------------- MODULE MCRunLoop -------------------------------
(***************************************************************************)
(* A guest of two functions, as the compiler lays them out, in a memory of *)
(* 40 words.  `main` keeps four words on the stack, takes its third        *)
(* parameter from its caller's, where it keeps the second, stores one in   *)
(* its data, calls itself or not, and calls a system call stub of the      *)
(* run-time library directly, through a register, or not.                  *)
(***************************************************************************)
EXTENDS GuestLayout

Main == 1
Data == 26
Stub == 19

MCProgram == <<
  [op |-> "addiu", ra |-> SP, rb |-> SP, c |-> -4],
  [op |-> "st",    ra |-> LR, rb |-> SP, c |-> 3],
  [op |-> "st",    ra |-> R5, rb |-> SP, c |-> 5],
  [op |-> "st",    ra |-> R4, rb |-> SP, c |-> 2],
  [op |-> "ld",    ra |-> R4, rb |-> SP, c |-> 6],
  [op |-> "branch", c |-> 2],
  [op |-> "call",   c |-> Main - 8],
  [op |-> "nop"],
  [op |-> "branch", c |-> 1],
  [op |-> "call",   c |-> Stub - 11],
  [op |-> "addiu", ra |-> R6, rb |-> R0, c |-> Data],
  [op |-> "st",    ra |-> R2, rb |-> R6, c |-> 0],
  [op |-> "branch", c |-> 2],
  [op |-> "addiu", ra |-> R6, rb |-> R0, c |-> Stub],
  [op |-> "jalr",  rb |-> R6],
  [op |-> "ld",    ra |-> LR, rb |-> SP, c |-> 3],
  [op |-> "addiu", ra |-> SP, rb |-> SP, c |-> 4],
  [op |-> "ret"],
  (* Stub *)
  [op |-> "addiu", ra |-> SP, rb |-> SP, c |-> -1],
  [op |-> "ssc"],
  [op |-> "st",    ra |-> R3, rb |-> SP, c |-> 0],
  [op |-> "ld",    ra |-> R2, rb |-> SP, c |-> 0],
  [op |-> "addiu", ra |-> SP, rb |-> SP, c |-> 1],
  [op |-> "ret"]
>>

(* What is known of main before, in and behind its frame, and of the stub. *)
InFrame(saved, lr) == [depth |-> 4, saved |-> saved, lr |-> lr, args |-> FALSE]

InStub(depth) == [Entered(TRUE) EXCEPT !.depth = depth]

MCLayout == <<
  Entered(FALSE), InFrame(0, TRUE),
  InFrame(1, TRUE), InFrame(1, TRUE), InFrame(1, TRUE), InFrame(1, TRUE), InFrame(1, TRUE),
  InFrame(1, FALSE), InFrame(1, FALSE), InFrame(1, FALSE), InFrame(1, FALSE),
  InFrame(1, FALSE), InFrame(1, FALSE), InFrame(1, FALSE), InFrame(1, FALSE),
  InFrame(1, FALSE), InFrame(1, TRUE), Entered(FALSE),
  (* Stub *)
  InStub(0), InStub(1), InStub(1), InStub(1), InStub(1), InStub(0)
>>
==============================================================================
