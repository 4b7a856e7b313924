------------------------------ MODULE MCLoader -------------------------------
(* Programs: text, a note and data with .bss; one too large; one that      *)
(* reaches into the stack; no segment (an object file); no symbols; no     *)
(* alignment; an entry that reads as a failure.                            *)
EXTENDS Loader

Seg(load, vaddr, filesz, memsz, align) ==
  [load |-> load, vaddr |-> vaddr, filesz |-> filesz, memsz |-> memsz, align |-> align]

Syms == <<[name |-> "", value |-> 0], [name |-> "init", value |-> 2],
          [name |-> "undefined", value |-> 0], [name |-> "init", value |-> 5]>>

Prog(segs, syms, entry) == [segs |-> segs, symbols |-> syms, entry |-> entry]

Text == Seg(TRUE, 0, 3, 3, 2)

MCFiles ==
  {Prog(<<Text, Seg(FALSE, 0, 1, 1, 1), Seg(TRUE, 4, 1, 3, 2)>>, Syms, 1),
   Prog(<<Seg(FALSE, 0, 1, 1, 1), Text>>, <<>>, 1),
   Prog(<<Text, Seg(TRUE, 9, 1, 3, 1)>>, Syms, 1),
   Prog(<<Seg(TRUE, 1, 9, 9, 1)>>, Syms, 1),
   Prog(<<>>, Syms, 0),
   Prog(<<Seg(TRUE, 0, 2, 2, 0)>>, Syms, 1),
   Prog(<<Text>>, Syms, -1)}
==============================================================================
