----------------------------- MODULE GuestLayout -----------------------------
(***************************************************************************)
(* The conventions the compiler's code keeps, on which the run loop of     *)
(* RunLoop relies: a function gives back what it took from the stack, and  *)
(* returns by the address it was called with, which it saves before it     *)
(* calls another one.  It stores in its frame, its parameters in its       *)
(* caller's, and through other registers wherever they point to.           *)
(*                                                                         *)
(* They are stated of a program as a verifier of code would check them:    *)
(* Layout tells of each instruction that is reached what is known of the   *)
(* running function in front of it, and every instruction leaves what is   *)
(* known of the next.  Nothing is said of where a branch goes, of how deep *)
(* a recursion is, or of instructions that are not reached.                *)
(*                                                                         *)
(* What a program cannot be checked for, where its pointers point to, is   *)
(* said of its runs, by Behaves.                                           *)
(***************************************************************************)
EXTENDS RunLoop

CONSTANTS
  Layout,      (* what is known in front of each instruction reached       *)
  FRAME        (* the most words a function takes from the stack at once   *)

Code == DOMAIN Layout

(* depth   the words the function has taken from the stack                 *)
(* saved   which of them, counted from the caller's SP downwards, holds    *)
(*         the return address; 0 if none does                              *)
(* lr      does LR hold it                                                 *)
(* args    a guest's call got here, and its arguments are where it left    *)
(*         them                                                            *)
Places == [depth : Nat, saved : Nat, lr : BOOLEAN, args : BOOLEAN]

Entered(byGuest) ==
  [depth |-> 0, saved |-> 0, lr |-> TRUE, args |-> byGuest]

(* Less, or as much, is known in m than in l.                              *)
Weaker(m, l) ==
  /\ m.depth = l.depth
  /\ m.saved \in {0, l.saved}
  /\ m.lr => l.lr
  /\ m.args => l.args

(* What is known at l is enough to go on at address a.                     *)
Leads(a, l) == a \in Code /\ Weaker(Layout[a], l)

(* A write to register r loses what was known of it.                       *)
Written(r, l) == [l EXCEPT !.args = @ /\ r \notin {R4, R5}]

Kept(depth, saved) == IF saved <= depth THEN saved ELSE 0

KeepsAddImmediate(a, inst, l) ==
  /\ inst.ra \notin {R0, LR}
  /\ \/ /\ inst.ra = SP /\ inst.rb = SP
        /\ inst.c + FRAME >= 0 /\ inst.c <= l.depth
        /\ Leads(a + 1, [l EXCEPT !.depth = l.depth - inst.c,
                                  !.saved = Kept(l.depth - inst.c, l.saved)])
     \/ inst.ra # SP /\ Leads(a + 1, Written(inst.ra, l))

KeepsLoad(a, inst, l) ==
  \/ /\ inst.ra = LR /\ inst.rb = SP
     /\ l.saved # 0 /\ inst.c = l.depth - l.saved
     /\ Leads(a + 1, [l EXCEPT !.lr = TRUE])
  \/ inst.ra \notin {R0, SP, LR} /\ Leads(a + 1, Written(inst.ra, l))

(* The first part of a store is in the function's own frame, the second in *)
(* the caller's, where parameters are, or anywhere.                        *)
KeepsStore(a, inst, l) ==
  \/ /\ inst.rb = SP /\ inst.c \in 0 .. l.depth - 1
     /\ \/ inst.ra = LR /\ l.lr /\ Leads(a + 1, [l EXCEPT !.saved = l.depth - inst.c])
        \/ inst.c # l.depth - l.saved /\ Leads(a + 1, l)
  \/ /\ inst.rb = SP => inst.c \in l.depth .. l.depth + HOLE - 1
     /\ Leads(a + 1, [l EXCEPT !.args = FALSE])

(* A call comes back behind a.                                             *)
KeepsCall(a, l) ==
  /\ l.saved # 0
  /\ Leads(a + 1, [l EXCEPT !.lr = FALSE, !.args = FALSE])

Keeps(a, inst, l) ==
  \/ inst.op = "nop" /\ Leads(a + 1, l)
  \/ inst.op = "addiu" /\ KeepsAddImmediate(a, inst, l)
  \/ inst.op = "ld" /\ KeepsLoad(a, inst, l)
  \/ inst.op = "st" /\ KeepsStore(a, inst, l)
  \/ inst.op = "branch" /\ Leads(a + 1, l) /\ Leads(a + 1 + inst.c, l)
  \/ inst.op = "call" /\ Leads(a + 1 + inst.c, Entered(TRUE)) /\ KeepsCall(a, l)
  \/ inst.op = "jalr" /\ KeepsCall(a, l)
  \/ inst.op = "ssc" /\ l.args /\ Leads(a + 1, l)
  \/ inst.op = "ret" /\ l.lr /\ l.depth = 0

(* The guest keeps to the conventions, and so do the functions the host    *)
(* runs, which have no caller in the guest.                                *)
ASSUME LayoutAssumption ==
  /\ Code \subseteq DOMAIN Program /\ Code \subseteq Word \ {0}
  /\ \A a \in Code :
       /\ Layout[a] \in Places /\ Layout[a].saved <= Layout[a].depth
       /\ Keeps(a, Program[a], Layout[a])
  /\ \A f \in {Entry} \cup (Functions \ {0}) : Leads(f, Entered(FALSE))

(* Below a stack there is room for what a function takes at once, so that  *)
(* SP does not wrap before its next check.                                 *)
ASSUME FrameAssumption ==
  /\ FRAME \in Nat
  /\ \A s \in StackSizes : s <= MemSize => s + FRAME <= MemSize + 1

(* Where the function of frame i goes on.                                  *)
Resumes(i) == IF i = 1 THEN pc ELSE frames[i - 1].ret

(* The words of the stack that hold the return addresses of the functions  *)
(* that have not returned.                                                 *)
ReturnSlots ==
  {frames[i].sp - Layout[Resumes(i)].saved :
     i \in {k \in DOMAIN frames : Resumes(k) \in Code /\ Layout[Resumes(k)].saved # 0}}

InOwnFrame == Inst.rb = SP /\ Inst.c \in 0 .. Layout[pc].depth - 1

(* A guest behaves when its pointers spare return addresses and code, and  *)
(* a call through a register is one of a function.                         *)
Behaves ==
  host = "running" /\ ~ Overflowed /\ ended # "overflow" /\ pc \in Code =>
    /\ Inst.op = "st" /\ ~ InOwnFrame => Address \notin ReturnSlots \cup DOMAIN Program
    /\ Inst.op = "jalr" => Leads(regs[Inst.rb], Entered(TRUE))
==============================================================================
