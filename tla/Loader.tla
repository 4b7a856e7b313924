------------------------------- MODULE Loader --------------------------------
(***************************************************************************)
(* The making of machines: vm_create and what it calls (simulator/vm.c),   *)
(* load_elf and elf_resolve (elf_load.c), and the host of sim.c, which     *)
(* resolves a function and prepares the main thread to run it.             *)
(*                                                                         *)
(* One host process makes machines one after the other.  Any open, malloc  *)
(* or read may fail.  A file is what its headers say: its segments in      *)
(* order, its symbols, its entry.  A byte of the guest's memory is the     *)
(* byte of the segment it was read from, or what malloc left there.        *)
(***************************************************************************)
EXTENDS Integers, Sequences, FiniteSetsExt

CONSTANTS
  SIZE,        (* memsize                                                  *)
  HOLE,        (* STACK_SAFE_HOLE                                          *)
  Files,       (* the programs: [segs, symbols, entry]                     *)
  StackSizes,  (* the stacks asked for                                     *)
  Names,       (* the functions a host asks for                            *)
  MaxFd,       (* the largest descriptor the process may have              *)
  MaxCalls     (* bound: machines asked for                                *)

Segment == [load : BOOLEAN, vaddr : Nat, filesz : Nat, memsz : Nat, align : Nat]
Symbol  == [name : STRING, value : Int]

(* A well-formed file gives a segment no more bytes than it takes in       *)
(* memory; segments to load are in the order of their addresses.           *)
ASSUME FileAssumption ==
  /\ Files \subseteq [segs : Seq(Segment), symbols : Seq(Symbol), entry : Int]
  /\ \A f \in Files : \A i \in DOMAIN f.segs :
       /\ f.segs[i].filesz <= f.segs[i].memsz
       /\ \A j \in 1 .. i - 1 : f.segs[j].load /\ f.segs[i].load =>
            f.segs[j].vaddr + f.segs[j].memsz <= f.segs[i].vaddr

ASSUME LoaderAssumption ==
  /\ SIZE \in Nat /\ HOLE \in Nat /\ MaxFd \in Nat /\ MaxCalls \in Nat
  /\ StackSizes \subseteq Nat

Junk == <<0, 0>>

VARIABLES
  open,        (* the descriptors the process has open                     *)
  heap,        (* what malloc gave and free has not taken: <<call, what>>  *)
  machines,    (* what successful calls returned, with their call          *)
  thread,      (* what the last vm_create_main_thread was for              *)
  calls,       (* calls of vm_create so far                                *)
  (* The call that is running.                                             *)
  pc, file, stack_size, fd, i, addr, ram

locals == <<file, stack_size, fd, i, addr, ram>>
vars == <<open, heap, machines, thread, calls, pc, locals>>

NoFile == [segs |-> <<>>, symbols |-> <<>>, entry |-> 0]
NoThread == [machine |-> 0, name |-> "", entry |-> 0, ok |-> FALSE]

(* A host may start with standard input open or closed.                    *)
Init ==
  /\ open \in SUBSET {0}
  /\ heap = {} /\ machines = <<>> /\ thread = NoThread /\ calls = 0
  /\ pc = "idle" /\ file = NoFile /\ stack_size = 0 /\ fd = -1
  /\ i = 0 /\ addr = -1 /\ ram = [a \in 0 .. SIZE - 1 |-> Junk]

-----------------------------------------------------------------------------
(* vm_create opens the file before it looks at the stack.  The kernel      *)
(* gives the lowest descriptor that is free.                               *)
Create(f, size) ==
  /\ pc = "idle" /\ calls < MaxCalls
  /\ calls' = calls + 1
  /\ file' = f /\ stack_size' = size
  /\ i' = 1 /\ addr' = -1 /\ ram' = [a \in 0 .. SIZE - 1 |-> Junk]
  /\ LET free == (0 .. MaxFd) \ open
     IN  \/ /\ free # {}
            /\ fd' = Min(free) /\ open' = open \cup {fd'} /\ pc' = "stack"
         \/ fd' = -1 /\ open' = open /\ pc' = "failed"
  /\ UNCHANGED <<heap, machines, thread>>

CheckStack ==
  /\ pc = "stack"
  /\ pc' = IF stack_size * 2 < HOLE THEN "failed" ELSE "vm"
  /\ UNCHANGED <<open, heap, machines, thread, calls, locals>>

(* What is allocated, and what comes next.                                 *)
AfterMalloc == [vm |-> "memory", memory |-> "header", phdr |-> "read_phdr",
                shdr |-> "read_shdr"]

Allocate ==
  /\ pc \in DOMAIN AfterMalloc
  /\ \/ heap' = heap \cup {<<calls, pc>>} /\ pc' = AfterMalloc[pc]
     \/ heap' = heap /\ pc' = "failed"
  /\ UNCHANGED <<open, machines, thread, calls, locals>>

AfterRead == [header |-> "phdr", read_phdr |-> "segments", read_shdr |-> "find",
              read_strings |-> "syms", read_syms |-> "ready"]

(* strings and syms are not compared with NULL: the read fails then.       *)
Missing(what) == <<calls, what>> \notin heap

Read ==
  /\ pc \in DOMAIN AfterRead
  /\ \/ /\ pc = "read_strings" => ~ Missing("strings")
        /\ pc = "read_syms" => ~ Missing("syms")
        /\ pc' = AfterRead[pc]
     \/ pc' = "failed"
  /\ UNCHANGED <<open, heap, machines, thread, calls, locals>>

(* Seeded fault: the break ignores what the file does not hold.            *)
BreakAfterFile(s) == IF s.align = 0 THEN 0
                     ELSE ((s.vaddr + s.filesz + s.align - 1) \div s.align) * s.align

(* (vaddr + memsz + align - 1) & ~(align - 1), for the powers of two and 0.*)
BreakAfter(s) == IF s.align = 0 THEN 0
                 ELSE ((s.vaddr + s.memsz + s.align - 1) \div s.align) * s.align

(* Seeded fault: the loop goes on to the next segment only after loading.  *)
StayAtSegment == pc = "segments" /\ i \in DOMAIN file.segs /\ ~ file.segs[i].load /\ UNCHANGED vars

SkipSegment ==
  /\ pc = "segments" /\ i \in DOMAIN file.segs
  /\ ~ file.segs[i].load
  /\ i' = i + 1
  /\ UNCHANGED <<open, heap, machines, thread, calls, pc, file, stack_size, fd, addr, ram>>

(* Seeded fault: segments are read one behind the other.                   *)
ImagePacked(s) ==
  [a \in DOMAIN ram |-> IF a - addr - 1 \in 0 .. s.filesz - 1 THEN <<i, a - addr - 1>> ELSE ram[a]]

(* Seeded fault: as many bytes are read as the segment takes in memory.    *)
ImageWhole(s) ==
  [a \in DOMAIN ram |-> IF a - s.vaddr \in 0 .. s.memsz - 1 THEN <<i, a - s.vaddr>> ELSE ram[a]]

(* The read puts the bytes of the file at vaddr; what the segment takes    *)
(* beyond them is left alone.                                              *)
Image(s) ==
  [a \in DOMAIN ram |-> IF a - s.vaddr \in 0 .. s.filesz - 1 THEN <<i, a - s.vaddr>> ELSE ram[a]]

LoadSegment ==
  /\ pc = "segments" /\ i \in DOMAIN file.segs
  /\ LET s == file.segs[i]
     IN  /\ s.load
         /\ \/ /\ s.vaddr + s.memsz < SIZE
               /\ ram' = Image(s) /\ addr' = BreakAfter(s)
               /\ i' = i + 1 /\ pc' = pc
            \/ pc' = "failed" /\ UNCHANGED <<i, addr, ram>>
  /\ UNCHANGED <<open, heap, machines, thread, calls, file, stack_size, fd>>

(* vm->mem.brk = addr, which no segment may have set.                      *)
Loaded ==
  /\ pc = "segments" /\ i \notin DOMAIN file.segs
  /\ pc' = "shdr"
  /\ UNCHANGED <<open, heap, machines, thread, calls, locals>>

FindSymbols ==
  /\ pc = "find"
  /\ pc' = IF file.symbols = <<>> THEN "failed" ELSE "strings"
  /\ UNCHANGED <<open, heap, machines, thread, calls, locals>>

AllocateTable ==
  /\ pc \in {"strings", "syms"}
  /\ heap' \in {heap, heap \cup {<<calls, pc>>}}
  /\ pc' = [strings |-> "read_strings", syms |-> "read_syms"][pc]
  /\ UNCHANGED <<open, machines, thread, calls, locals>>

Tables == {<<calls, "phdr">>, <<calls, "shdr">>}

(* load_elf frees its tables; its result is compared with -1.  The         *)
(* descriptor stays open, and nothing refers to it any more.               *)
Ready ==
  /\ pc = "ready"
  /\ heap' = heap \ Tables
  /\ IF file.entry = -1
     THEN pc' = "failed" /\ UNCHANGED machines
     ELSE /\ pc' = "idle"
          /\ machines' = Append(machines,
               [call |-> calls, file |-> file, fd |-> fd, brk |-> addr, ram |-> ram,
                stack_size |-> stack_size, entry |-> file.entry])
  /\ UNCHANGED <<open, thread, calls, locals>>

(* Seeded fault: the descriptor is not given back.                         *)
FailedKeepsFd ==
  /\ pc = "failed" /\ pc' = "idle"
  /\ heap' = heap \ (Tables \cup {<<calls, "vm">>})
  /\ UNCHANGED <<open, machines, thread, calls, locals>>

(* Seeded fault: load_elf's tables are not.                                *)
FailedKeepsTables ==
  /\ pc = "failed" /\ pc' = "idle"
  /\ heap' = heap \ {<<calls, "vm">>}
  /\ open' = IF fd > 0 THEN open \ {fd} ELSE open
  /\ UNCHANGED <<machines, thread, calls, locals>>

(* load_elf's tables, the descriptor unless it is 0, and the vm_t are      *)
(* given back; the guest's memory and the tables of symbols are not.       *)
Failed ==
  /\ pc = "failed" /\ pc' = "idle"
  /\ heap' = heap \ (Tables \cup {<<calls, "vm">>})
  /\ open' = IF fd > 0 THEN open \ {fd} ELSE open
  /\ UNCHANGED <<machines, thread, calls, locals>>

-----------------------------------------------------------------------------
Symbols(m) == machines[m].file.symbols

Named(m, name) == {k \in DOMAIN Symbols(m) : Symbols(m)[k].name = name}

(* elf_resolve: the first symbol of that name, or -1.                      *)
Resolve(m, name) == IF Named(m, name) = {} THEN -1
                    ELSE Symbols(m)[Min(Named(m, name))].value

ThreadInitResult == 0

(* sim.c: elf_resolve, then vm_create_main_thread, which takes the entry   *)
(* for a symbol of value 0 and tests the result of vm_thread_init for      *)
(* being positive, which it never is.                                      *)
Prepare(m, name) ==
  /\ pc = "idle"
  /\ LET func == Resolve(m, name)
     IN  thread' = [machine |-> m, name |-> name,
                    entry |-> IF func = 0 THEN machines[m].entry ELSE func,
                    ok |-> ~ 0 < ThreadInitResult]
  /\ UNCHANGED <<open, heap, machines, calls, pc, locals>>

-----------------------------------------------------------------------------
Step == CheckStack \/ Allocate \/ Read \/ SkipSegment \/ LoadSegment \/ Loaded
        \/ FindSymbols \/ AllocateTable \/ Ready \/ Failed

Next == \/ \E f \in Files, size \in StackSizes : Create(f, size)
        \/ Step
        \/ \E m \in DOMAIN machines, name \in Names : Prepare(m, name)

Spec == Init /\ [][Next]_vars /\ WF_vars(Step)

-----------------------------------------------------------------------------
(* Type invariant.  What is in the guest's memory are bytes of its file.   *)
TypeOK ==
  /\ open \subseteq 0 .. MaxFd /\ fd \in -1 .. MaxFd
  /\ heap \subseteq (1 .. calls) \X {"vm", "memory", "phdr", "shdr", "strings", "syms"}
  /\ i \in Nat /\ addr \in Nat \cup {-1}
  /\ \A a \in DOMAIN ram : ram[a] # Junk =>
       ram[a][1] \in DOMAIN file.segs /\ ram[a][2] \in 0 .. file.segs[ram[a][1]].filesz - 1
  /\ Len(machines) <= calls

MachineOf(k) == {m \in DOMAIN machines : machines[m].call = k}

Held(k) == {h[2] : h \in {x \in heap : x[1] = k}}

(* Between calls the memory of the process is accounted for, whichever     *)
(* step of a call failed: a machine has its vm_t, its memory and its       *)
(* tables of symbols; a failed call has given back its vm_t and load_elf's *)
(* tables and has lost the guest's memory and the tables of symbols, as    *)
(* far as it had got.                                                      *)
HeapAccounted ==
  pc = "idle" => \A k \in 1 .. calls :
    IF MachineOf(k) # {} THEN Held(k) = {"vm", "memory", "strings", "syms"}
    ELSE /\ Held(k) \subseteq {"memory", "strings", "syms"}
         /\ Held(k) # {} => "memory" \in Held(k)

(* Between calls every open descriptor above 0 is that of a machine, its   *)
(* own: failures cost none, however often they are retried, but 0.         *)
DescriptorsAccounted ==
  pc = "idle" =>
    /\ open \ {0} = {machines[m].fd : m \in DOMAIN machines} \ {0}
    /\ \A m, o \in DOMAIN machines : machines[m].fd = machines[o].fd => m = o

(* What the process holds is what its machines need and its failures have  *)
(* cost, memory and descriptors alike, on states of the right types.       *)
ResourceInv == TypeOK /\ HeapAccounted /\ DescriptorsAccounted

Loads(f) == {s \in {f.segs[k] : k \in DOMAIN f.segs} : s.load}

(* The bytes of every segment are where the program expects them, with     *)
(* segments that are not loaded between those that are.                    *)
ImageInPlace ==
  \A m \in DOMAIN machines : \A k \in DOMAIN machines[m].file.segs :
    LET s == machines[m].file.segs[k]
    IN  s.load => \A b \in 0 .. s.filesz - 1 : machines[m].ram[s.vaddr + b] = <<k, b>>

AboveProgram(m) == \A s \in Loads(m.file) : m.brk >= s.vaddr + s.memsz

(* The heap starts above everything that is loaded, .bss included, when    *)
(* something is and the alignments are powers of two.                      *)
BreakAboveProgram ==
  \A m \in DOMAIN machines :
    Loads(machines[m].file) # {} /\ (\A s \in Loads(machines[m].file) : s.align > 0)
      => AboveProgram(machines[m])

(* A machine starts with its program in place and its heap above it.       *)
ProgramInv == ImageInPlace /\ BreakAboveProgram

(* Every vm_create returns, whatever fails in it.                          *)
EveryCallReturns == pc # "idle" ~> pc = "idle"
==============================================================================
