----------------------------- MODULE LoaderProofs -----------------------------
(***************************************************************************)
(* Proofs about Loader for every set of well-formed files, every size of   *)
(* the memory and any number of machines.  Each part of the inductive      *)
(* invariant - the types, the process's memory, its descriptors, the image *)
(* of the program - is shown to be kept by every step; the parts need only *)
(* the types of each other.                                                *)
(***************************************************************************)
EXTENDS Loader, SequenceTheorems, WellFoundedInduction, TLAPS

(* A set of natural numbers that is not empty has a least one.             *)
LEMMA LeastNatural ==
  ASSUME NEW S \in SUBSET Nat, S # {}
  PROVE  \E x \in S : \A y \in S : x <= y
<1> DEFINE R == {ss \in Nat \X Nat : ss[1] < ss[2]}
<1>1. OpToRel(<, Nat) = R
  BY DEF OpToRel
<1>2. IsWellFoundedOn(R, Nat)
  BY <1>1, NatLessThanWellFounded
<1>3. \A x, y \in Nat : <<x, y>> \in R <=> x < y
  OBVIOUS
<1> HIDE DEF R
<1>4. PICK x \in S : \A y \in S : ~ (<<y, x>> \in R)
  BY <1>2, WFMin
<1>5. ASSUME NEW y \in S PROVE x <= y
  <2>1. x \in Nat /\ y \in Nat
    OBVIOUS
  <2>2. ~ (y < x)
    BY <1>3, <1>4, <2>1
  <2>3. QED
    BY <2>1, <2>2
<1>6. QED
  BY <1>5

(* The minimum the library defines is the least of the numbers.            *)
LEMMA MinIn ==
  ASSUME NEW S \in SUBSET Nat, S # {}
  PROVE  Min(S) \in S /\ \A y \in S : Min(S) <= y
BY LeastNatural DEF Min

-----------------------------------------------------------------------------
(* The parts of the inductive invariant.                                   *)

(* What the call that is running has allocated for sure at each step.      *)
Needs ==
  [idle |-> {}, failed |-> {}, stack |-> {}, vm |-> {}, memory |-> {"vm"},
   header |-> {"vm", "memory"}, phdr |-> {"vm", "memory"}, read_phdr |-> {"vm", "memory"},
   segments |-> {"vm", "memory"}, shdr |-> {"vm", "memory"}, read_shdr |-> {"vm", "memory"},
   find |-> {"vm", "memory"}, strings |-> {"vm", "memory"}, read_strings |-> {"vm", "memory"},
   syms |-> {"vm", "memory", "strings"}, read_syms |-> {"vm", "memory", "strings"},
   ready |-> {"vm", "memory", "strings", "syms"}]

Kinds == {"vm", "memory", "phdr", "shdr", "strings", "syms"}

Images == [0 .. SIZE - 1 -> Nat \X Nat]

Machine == [call : Nat, file : Files, fd : Int, brk : Nat \cup {-1}, ram : Images,
            stack_size : StackSizes, entry : Int]

(* The types, with those that TypeOK leaves open.                          *)
TypesInv ==
  /\ open \subseteq 0 .. MaxFd /\ fd \in -1 .. MaxFd
  /\ calls \in Nat /\ heap \subseteq (1 .. calls) \X Kinds
  /\ i \in Nat /\ addr \in Nat \cup {-1}
  /\ pc \in DOMAIN Needs
  /\ ram \in Images
  /\ \A a \in DOMAIN ram : ram[a] # Junk =>
       ram[a][1] \in DOMAIN file.segs /\ ram[a][2] \in 0 .. file.segs[ram[a][1]].filesz - 1
  /\ machines \in Seq(Machine) /\ Len(machines) <= calls
  /\ pc # "idle" => /\ file \in Files /\ stack_size \in StackSizes
                    /\ Len(machines) < calls

(* A machine belongs to one call that has returned.                        *)
CallsInv ==
  \A m \in DOMAIN machines :
    machines[m].call \in 1 .. calls /\ (pc # "idle" => machines[m].call # calls)

(* What a call that has returned has left in the process's memory.         *)
Accounted(k) ==
  IF MachineOf(k) # {} THEN Held(k) = {"vm", "memory", "strings", "syms"}
  ELSE /\ Held(k) \subseteq {"memory", "strings", "syms"}
       /\ Held(k) # {} => "memory" \in Held(k)

(* The memory of the process, call by call.                                *)
MemoryInv ==
  /\ \A k \in 1 .. calls : (k = calls /\ pc # "idle") \/ Accounted(k)
  /\ pc # "idle" =>
       /\ Needs[pc] \subseteq Held(calls)
       /\ "strings" \in Held(calls) \/ "syms" \in Held(calls) => "memory" \in Held(calls)

(* The descriptors: those of the machines, each one's own, and the one of  *)
(* the call that is running.                                               *)
MachineFds == {machines[m].fd : m \in DOMAIN machines}

FdsInv ==
  /\ MachineFds \subseteq open
  /\ \A m, o \in DOMAIN machines : machines[m].fd = machines[o].fd => m = o
  /\ pc \notin {"idle", "failed"} => fd # -1
  /\ IF pc = "idle" \/ fd = -1
     THEN open \ {0} = MachineFds \ {0}
     ELSE /\ fd \in open /\ fd \notin MachineFds
          /\ open \ {0} = (MachineFds \cup {fd}) \ {0}

(* The segments before the i-th are in the memory, those to load at least. *)
LoadedBefore ==
  \A k \in DOMAIN file.segs : k < i /\ file.segs[k].load =>
    /\ file.segs[k].vaddr + file.segs[k].memsz < SIZE
    /\ \A b \in 0 .. file.segs[k].filesz - 1 : ram[file.segs[k].vaddr + b] = <<k, b>>

(* And the break is above them.                                            *)
BreakBefore ==
  (\A k \in DOMAIN file.segs : file.segs[k].load => file.segs[k].align > 0) =>
    \A k \in DOMAIN file.segs : k < i /\ file.segs[k].load =>
      addr >= file.segs[k].vaddr + file.segs[k].memsz

Beyond == {"shdr", "read_shdr", "find", "strings", "read_strings", "syms", "read_syms", "ready"}

ImageInv ==
  /\ ProgramInv
  /\ pc \notin {"idle", "failed"} => i \in 1 .. Len(file.segs) + 1 /\ LoadedBefore /\ BreakBefore
  /\ pc \in {"stack", "vm", "memory", "header", "phdr", "read_phdr"} => i = 1
  /\ pc \in Beyond => i = Len(file.segs) + 1

LoaderInv == TypesInv /\ CallsInv /\ MemoryInv /\ FdsInv /\ ImageInv

-----------------------------------------------------------------------------
(* What the steps have in common.                                          *)

(* The steps within a call leave the call and the machines as they are.    *)
InCall ==
  /\ pc \notin {"idle", "failed"} /\ pc' \in DOMAIN Needs \ {"idle"}
  /\ UNCHANGED <<open, machines, thread, calls, file, stack_size, fd>>

LEMMA StepsInCall ==
  ASSUME CheckStack \/ Allocate \/ Read \/ SkipSegment \/ LoadSegment \/ Loaded
         \/ FindSymbols \/ AllocateTable
  PROVE  InCall
<1>1. CASE CheckStack
  BY <1>1 DEF CheckStack, InCall, Needs, locals
<1>2. CASE Allocate
  BY <1>2 DEF Allocate, AfterMalloc, InCall, Needs, locals
<1>3. CASE Read
  BY <1>3 DEF Read, AfterRead, InCall, Needs, locals
<1>4. CASE SkipSegment
  BY <1>4 DEF SkipSegment, InCall, Needs
<1>5. CASE LoadSegment
  BY <1>5 DEF LoadSegment, InCall, Needs
<1>6. CASE Loaded
  BY <1>6 DEF Loaded, InCall, Needs, locals
<1>7. CASE FindSymbols
  BY <1>7 DEF FindSymbols, InCall, Needs, locals
<1>8. CASE AllocateTable
  BY <1>8 DEF AllocateTable, InCall, Needs, locals
<1>9. QED
  BY <1>1, <1>2, <1>3, <1>4, <1>5, <1>6, <1>7, <1>8

(* What is known of a segment of the file.                                 *)
LEMMA SegmentFacts ==
  ASSUME file \in Files, NEW k \in DOMAIN file.segs
  PROVE  LET s == file.segs[k]
         IN  /\ file.segs \in Seq(Segment) /\ Len(file.segs) \in Nat
             /\ DOMAIN file.segs = 1 .. Len(file.segs)
             /\ k \in Nat \ {0} /\ k <= Len(file.segs)
             /\ s \in Segment /\ s.vaddr \in Nat /\ s.filesz \in Nat /\ s.memsz \in Nat
             /\ s.align \in Nat /\ s.filesz <= s.memsz
<1>1. file.segs \in Seq(Segment)
  BY FileAssumption
<1>2. /\ DOMAIN file.segs = 1 .. Len(file.segs) /\ Len(file.segs) \in Nat
      /\ k \in 1 .. Len(file.segs)
  BY <1>1
<1>3. file.segs[k] \in Segment
  BY <1>1, <1>2, ElementOfSeq
<1>4. file.segs[k].filesz <= file.segs[k].memsz
  BY FileAssumption
<1>5. QED
  BY <1>1, <1>2, <1>3, <1>4 DEF Segment

(* Rounding up to an alignment.                                            *)
LEMMA RoundUp ==
  ASSUME NEW x \in Nat, NEW n \in Nat \ {0}
  PROVE  LET r == ((x + n - 1) \div n) * n
         IN  r \in Nat /\ r >= x
<1> DEFINE y == x + n - 1
           q == y \div n
<1>1. y \in Nat
  OBVIOUS
<1>2. q \in Nat /\ q * n <= y /\ y < q * n + n /\ q * n \in Nat
  <2> HIDE DEF y
  <2>1. QED
    BY <1>1
<1> HIDE DEF q
<1>3. q * n >= x
  BY <1>1, <1>2
<1>4. QED
  BY <1>2, <1>3 DEF q

LEMMA BreakAfterIs ==
  ASSUME NEW s \in Segment
  PROVE  /\ BreakAfter(s) \in Nat
         /\ s.align > 0 => BreakAfter(s) >= s.vaddr + s.memsz
<1>1. s.vaddr + s.memsz \in Nat /\ s.align \in Nat
  BY DEF Segment
<1>2. CASE s.align = 0
  BY <1>2 DEF BreakAfter
<1>3. CASE s.align # 0
  <2> DEFINE x == s.vaddr + s.memsz
             n == s.align
  <2>1. x \in Nat /\ n \in Nat \ {0} /\ BreakAfter(s) = ((x + n - 1) \div n) * n
    BY <1>1, <1>3 DEF BreakAfter
  <2> HIDE DEF x, n
  <2>2. BreakAfter(s) \in Nat /\ BreakAfter(s) >= x
    BY <2>1, RoundUp
  <2>3. QED
    BY <2>2 DEF x
<1>4. QED
  BY <1>2, <1>3

(* The memory a segment has been read into.                                *)
LEMMA ImageIs ==
  ASSUME TypesInv, NEW s \in Segment
  PROVE  /\ Image(s) \in Images
         /\ \A a \in 0 .. SIZE - 1 :
              /\ a - s.vaddr \in 0 .. s.filesz - 1 => Image(s)[a] = <<i, a - s.vaddr>>
              /\ a - s.vaddr \notin 0 .. s.filesz - 1 => Image(s)[a] = ram[a]
<1>1. DOMAIN ram = 0 .. SIZE - 1 /\ ram \in Images /\ i \in Nat
  BY DEF TypesInv, Images
<1>2. SIZE \in Nat /\ s.vaddr \in Nat /\ s.filesz \in Nat
  BY LoaderAssumption DEF Segment
<1>3. \A a \in 0 .. SIZE - 1 : a - s.vaddr \in 0 .. s.filesz - 1 => <<i, a - s.vaddr>> \in Nat \X Nat
  BY <1>1, <1>2
<1>4. QED
  BY <1>1, <1>3 DEF Image, Images

(* The sequence of machines grows by one, behind those there are.          *)
LEMMA MoreMachines ==
  ASSUME machines \in Seq(Machine), NEW new \in Machine, machines' = Append(machines, new)
  PROVE  LET n == Len(machines) + 1
         IN  /\ machines' \in Seq(Machine) /\ Len(machines') = n
             /\ n \notin DOMAIN machines /\ DOMAIN machines' = DOMAIN machines \cup {n}
             /\ machines'[n] = new
             /\ \A m \in DOMAIN machines : machines'[m] = machines[m]
BY AppendProperties

(* What Ready does when the file has an entry.                             *)
NewMachine ==
  [call |-> calls, file |-> file, fd |-> fd, brk |-> addr, ram |-> ram,
   stack_size |-> stack_size, entry |-> file.entry]

LEMMA NewMachineType ==
  ASSUME TypesInv, pc # "idle"
  PROVE  NewMachine \in Machine
<1>1. file.entry \in Int
  BY FileAssumption DEF TypesInv
<1>2. QED
  BY <1>1 DEF TypesInv, NewMachine, Machine

-----------------------------------------------------------------------------
(* The types.                                                              *)

LEMMA TypesInit == Init => TypesInv
<1>1. SUFFICES ASSUME Init PROVE TypesInv
  OBVIOUS
<1>2. ram \in Images /\ \A a \in DOMAIN ram : ram[a] = Junk
  BY <1>1 DEF Init, Images, Junk
<1>3. QED
  BY <1>1, <1>2, LoaderAssumption DEF Init, TypesInv, Needs

LEMMA TypesCreate ==
  ASSUME TypesInv, NEW f \in Files, NEW size \in StackSizes, Create(f, size)
  PROVE  TypesInv'
<1> DEFINE free == (0 .. MaxFd) \ open
<1>1. calls' = calls + 1 /\ calls \in Nat /\ file' = f /\ stack_size' = size /\ i' = 1 /\ addr' = -1
      /\ UNCHANGED <<heap, machines, thread>>
  BY DEF Create, TypesInv
<1>2. ram' \in Images /\ \A a \in DOMAIN ram' : ram'[a] = Junk
  BY DEF Create, Images, Junk
<1>3. open' \subseteq 0 .. MaxFd /\ fd' \in -1 .. MaxFd /\ pc' \in {"stack", "failed"}
  <2>1. CASE free # {} /\ fd' = Min(free) /\ open' = open \cup {fd'} /\ pc' = "stack"
    <3>1. free \in SUBSET Nat
      BY LoaderAssumption
    <3>2. fd' \in free
      BY <2>1, <3>1, MinIn
    <3>3. open \subseteq 0 .. MaxFd
      BY DEF TypesInv
    <3>4. fd' \in 0 .. MaxFd
      BY <3>2
    <3>5. open' \subseteq 0 .. MaxFd
      BY <2>1, <3>3, <3>4
    <3>6. QED
      BY <2>1, <3>4, <3>5, LoaderAssumption
  <2>2. CASE fd' = -1 /\ open' = open /\ pc' = "failed"
    BY <2>2, LoaderAssumption DEF TypesInv
  <2>3. QED
    BY <2>1, <2>2 DEF Create
<1>4. heap' \subseteq (1 .. calls') \X Kinds
  BY <1>1 DEF TypesInv
<1>5. QED
  BY <1>1, <1>2, <1>3, <1>4 DEF TypesInv, Needs

LEMMA TypesInCall ==
  ASSUME TypesInv, InCall, heap' \subseteq heap \cup ({calls} \X Kinds),
         i' \in Nat, addr' \in Nat \cup {-1}, ram' \in Images,
         \A a \in DOMAIN ram' : ram'[a] # Junk =>
           ram'[a][1] \in DOMAIN file.segs /\ ram'[a][2] \in 0 .. file.segs[ram'[a][1]].filesz - 1
  PROVE  TypesInv'
<1>1. Len(machines) < calls /\ Len(machines) \in Nat /\ calls \in Nat
  BY DEF TypesInv, InCall
<1>2. heap' \subseteq (1 .. calls) \X Kinds
  BY <1>1 DEF TypesInv
<1>3. QED
  BY <1>1, <1>2 DEF TypesInv, InCall

(* The steps that touch neither the memory of the guest nor the segment.   *)
LEMMA TypesQuiet ==
  ASSUME TypesInv, InCall, heap' \subseteq heap \cup ({calls} \X Kinds),
         UNCHANGED <<i, addr, ram>>
  PROVE  TypesInv'
<1>1. /\ i' \in Nat /\ addr' \in Nat \cup {-1} /\ ram' \in Images
      /\ \A a \in DOMAIN ram' : ram'[a] # Junk =>
           ram'[a][1] \in DOMAIN file.segs /\ ram'[a][2] \in 0 .. file.segs[ram'[a][1]].filesz - 1
  BY DEF TypesInv
<1>2. QED
  BY <1>1, TypesInCall

LEMMA TypesLoad ==
  ASSUME TypesInv, LoadSegment
  PROVE  TypesInv'
<1> DEFINE s == file.segs[i]
<1>1. InCall /\ heap' = heap /\ pc # "idle"
  BY StepsInCall DEF LoadSegment
<1>2. CASE UNCHANGED <<i, addr, ram>>
  BY <1>1, <1>2, TypesQuiet
<1>3. CASE ram' = Image(s) /\ addr' = BreakAfter(s) /\ i' = i + 1
  <2>1. file \in Files /\ i \in DOMAIN file.segs /\ i \in Nat
    BY <1>1 DEF TypesInv, LoadSegment
  <2>2. s \in Segment /\ s.vaddr \in Nat /\ s.filesz \in Nat
    BY <2>1, SegmentFacts
  <2>3. addr' \in Nat /\ i' \in Nat
    BY <1>3, <2>1, <2>2, BreakAfterIs
  <2>4. /\ ram' \in Images /\ DOMAIN ram' = 0 .. SIZE - 1 /\ DOMAIN ram = 0 .. SIZE - 1
        /\ \A a \in 0 .. SIZE - 1 :
             /\ a - s.vaddr \in 0 .. s.filesz - 1 => ram'[a] = <<i, a - s.vaddr>>
             /\ a - s.vaddr \notin 0 .. s.filesz - 1 => ram'[a] = ram[a]
    <3>1. Image(s) \in Images
      BY <2>2, ImageIs
    <3>2. DOMAIN ram' = 0 .. SIZE - 1 /\ DOMAIN ram = 0 .. SIZE - 1
      BY <1>3, <3>1 DEF Images, TypesInv
    <3> HIDE DEF s
    <3>3. QED
      BY <1>3, <2>2, <3>1, <3>2, ImageIs
  <2>5. ASSUME NEW a \in DOMAIN ram', ram'[a] # Junk
        PROVE  /\ ram'[a][1] \in DOMAIN file.segs
               /\ ram'[a][2] \in 0 .. file.segs[ram'[a][1]].filesz - 1
    <3>1. CASE a - s.vaddr \in 0 .. s.filesz - 1
      BY <2>1, <2>4, <3>1
    <3>2. CASE a - s.vaddr \notin 0 .. s.filesz - 1
      BY <2>4, <2>5, <3>2 DEF TypesInv
    <3>3. QED
      BY <3>1, <3>2
  <2>6. heap' \subseteq heap \cup ({calls} \X Kinds)
    BY <1>1
  <2>7. QED
    BY <1>1, <2>3, <2>4, <2>5, <2>6, TypesInCall
<1>4. QED
  BY <1>2, <1>3 DEF LoadSegment

LEMMA TypesNext == TypesInv /\ [Next]_vars => TypesInv'
<1>1. SUFFICES ASSUME TypesInv, [Next]_vars PROVE TypesInv'
  OBVIOUS
<1>2. ASSUME NEW f \in Files, NEW size \in StackSizes, Create(f, size) PROVE TypesInv'
  BY <1>1, <1>2, TypesCreate
<1>3. CASE CheckStack \/ Read \/ Loaded \/ FindSymbols
  <2>1. InCall /\ heap' = heap /\ UNCHANGED <<i, addr, ram>>
    BY <1>3, StepsInCall DEF CheckStack, Read, Loaded, FindSymbols, locals
  <2>2. QED
    BY <1>1, <2>1, TypesQuiet
<1>4. CASE Allocate
  <2>1. InCall /\ UNCHANGED <<i, addr, ram>> /\ heap' \subseteq heap \cup {<<calls, pc>>} /\ pc \in Kinds
    BY <1>4, StepsInCall DEF Allocate, AfterMalloc, locals, Kinds
  <2>2. heap' \subseteq heap \cup ({calls} \X Kinds)
    BY <2>1
  <2>3. QED
    BY <1>1, <2>1, <2>2, TypesQuiet
<1>5. CASE AllocateTable
  <2>1. InCall /\ UNCHANGED <<i, addr, ram>> /\ heap' \subseteq heap \cup {<<calls, pc>>} /\ pc \in Kinds
    BY <1>5, StepsInCall DEF AllocateTable, locals, Kinds
  <2>2. heap' \subseteq heap \cup ({calls} \X Kinds)
    BY <2>1
  <2>3. QED
    BY <1>1, <2>1, <2>2, TypesQuiet
<1>6. CASE SkipSegment
  <2>1. InCall /\ heap' = heap /\ UNCHANGED <<addr, ram>> /\ i' = i + 1
    BY <1>6, StepsInCall DEF SkipSegment
  <2>2. /\ i' \in Nat /\ addr' \in Nat \cup {-1} /\ ram' \in Images
        /\ \A a \in DOMAIN ram' : ram'[a] # Junk =>
             ram'[a][1] \in DOMAIN file.segs /\ ram'[a][2] \in 0 .. file.segs[ram'[a][1]].filesz - 1
    BY <1>1, <2>1 DEF TypesInv
  <2>3. heap' \subseteq heap \cup ({calls} \X Kinds)
    BY <2>1
  <2>4. QED
    BY <1>1, <2>1, <2>2, <2>3, TypesInCall
<1>7. CASE LoadSegment
  BY <1>1, <1>7, TypesLoad
<1>8. CASE Ready
  <2>1. CASE machines' = Append(machines, NewMachine)
    <3>1. NewMachine \in Machine /\ machines \in Seq(Machine)
      BY <1>1, <1>8, NewMachineType DEF Ready, TypesInv
    <3>2. machines' \in Seq(Machine) /\ Len(machines') = Len(machines) + 1
      BY <2>1, <3>1, MoreMachines
    <3>3. pc' = "idle" /\ Len(machines) < calls /\ Len(machines) \in Nat
      <4>1. machines' # machines
        BY <3>1, <3>2
      <4>2. QED
        BY <1>1, <1>8, <4>1 DEF Ready, TypesInv
    <3>4. QED
      BY <1>1, <1>8, <3>2, <3>3 DEF Ready, TypesInv, locals, Needs
  <2>2. CASE UNCHANGED machines /\ pc' = "failed"
    BY <1>1, <1>8, <2>2 DEF Ready, TypesInv, locals, Needs
  <2>3. QED
    BY <1>8, <2>1, <2>2 DEF Ready, NewMachine
<1>9. CASE Failed
  BY <1>1, <1>9 DEF Failed, TypesInv, locals, Needs
<1>10. CASE UNCHANGED <<open, heap, machines, calls, pc, locals>>
  BY <1>1, <1>10 DEF TypesInv, locals
<1>11. QED
  BY <1>1, <1>2, <1>3, <1>4, <1>5, <1>6, <1>7, <1>8, <1>9, <1>10
     DEF Next, Step, Prepare, vars

-----------------------------------------------------------------------------
(* The calls and the memory of the process.                                *)

LEMMA CallsNext ==
  ASSUME TypesInv, CallsInv, [Next]_vars
  PROVE  CallsInv'
<1>1. ASSUME NEW f \in Files, NEW size \in StackSizes, Create(f, size) PROVE CallsInv'
  BY <1>1 DEF Create, CallsInv, TypesInv
<1>2. CASE InCall
  BY <1>2 DEF InCall, CallsInv
<1>3. CASE Ready
  <2>1. CASE machines' = Append(machines, NewMachine)
    <3> DEFINE n == Len(machines) + 1
    <3>1. NewMachine \in Machine /\ machines \in Seq(Machine)
      BY <1>3, NewMachineType DEF Ready, TypesInv
    <3>2. /\ DOMAIN machines' = DOMAIN machines \cup {n} /\ machines'[n] = NewMachine
          /\ \A m \in DOMAIN machines : machines'[m] = machines[m]
      BY <2>1, <3>1, MoreMachines
    <3>3. Len(machines) < calls /\ Len(machines) \in Nat /\ calls \in Nat /\ pc # "idle"
      BY <1>3 DEF Ready, TypesInv
    <3>4. machines'[n].call = calls /\ calls \in 1 .. calls
      BY <3>2, <3>3 DEF NewMachine
    <3>5. pc' = "idle" /\ calls' = calls
      <4>1. machines' # machines
        BY <3>1, <3>2, <2>1, MoreMachines
      <4>2. QED
        BY <1>3, <4>1 DEF Ready
    <3>6. ASSUME NEW m \in DOMAIN machines' PROVE machines'[m].call \in 1 .. calls
      BY <3>2, <3>4 DEF CallsInv
    <3>7. QED
      BY <3>5, <3>6 DEF CallsInv
  <2>2. CASE UNCHANGED machines /\ pc' = "failed"
    BY <1>3, <2>2 DEF Ready, CallsInv
  <2>3. QED
    BY <1>3, <2>1, <2>2 DEF Ready, NewMachine
<1>4. CASE Failed
  BY <1>4 DEF Failed, CallsInv
<1>5. CASE UNCHANGED <<machines, calls, pc>>
  BY <1>5 DEF CallsInv
<1>6. QED
  BY <1>1, <1>2, <1>3, <1>4, <1>5, StepsInCall DEF Next, Step, Prepare, vars

(* A step that leaves the machines and what other calls allocated alone    *)
(* leaves their accounts alone.                                            *)
LEMMA OthersAccounted ==
  ASSUME NEW k, Accounted(k), UNCHANGED machines,
         \A what : <<k, what>> \in heap' <=> <<k, what>> \in heap,
         heap \subseteq (1 .. calls) \X Kinds, heap' \subseteq (1 .. calls') \X Kinds
  PROVE  Accounted(k)'
<1>1. MachineOf(k)' = MachineOf(k)
  BY DEF MachineOf
<1>2. Held(k) = {what \in Kinds : <<k, what>> \in heap}
  BY DEF Held
<1>3. Held(k)' = {what \in Kinds : <<k, what>> \in heap'}
  BY DEF Held
<1>4. Held(k)' = Held(k)
  BY <1>2, <1>3
<1>5. QED
  BY <1>1, <1>4 DEF Accounted

(* What is held for a call, without the pairs.                             *)
LEMMA HeldIs ==
  ASSUME heap \subseteq (1 .. calls) \X Kinds, NEW k
  PROVE  Held(k) = {what \in Kinds : <<k, what>> \in heap}
BY DEF Held

LEMMA HeldIsNext ==
  ASSUME (heap \subseteq (1 .. calls) \X Kinds)', NEW k
  PROVE  Held(k)' = {what \in Kinds : <<k, what>> \in heap'}
BY DEF Held

LEMMA MemoryNext ==
  ASSUME TypesInv, CallsInv, MemoryInv, [Next]_vars
  PROVE  MemoryInv'
<1>1. TypesInv'
  BY TypesNext
<1>2. /\ heap \subseteq (1 .. calls) \X Kinds /\ (heap \subseteq (1 .. calls) \X Kinds)'
      /\ calls \in Nat
  BY <1>1 DEF TypesInv
<1> DEFINE Now(k)  == {what \in Kinds : <<k, what>> \in heap}
           Then(k) == {what \in Kinds : <<k, what>> \in heap'}
<1>3. \A k : Held(k) = Now(k) /\ Held(k)' = Then(k)
  BY <1>2, HeldIs, HeldIsNext
<1>4. ASSUME NEW f \in Files, NEW size \in StackSizes, Create(f, size) PROVE MemoryInv'
  <2>1. /\ calls' = calls + 1 /\ heap' = heap /\ UNCHANGED machines /\ pc = "idle"
        /\ pc' \in {"stack", "failed"}
    BY <1>4 DEF Create
  <2>2. Then(calls') = {}
    BY <1>2, <2>1
  <2>3. ASSUME NEW k \in 1 .. calls', k # calls' PROVE Accounted(k)'
    <3>1. k \in 1 .. calls
      BY <1>2, <2>1, <2>3
    <3>2. Accounted(k)
      BY <2>1, <3>1 DEF MemoryInv
    <3>3. \A what : <<k, what>> \in heap' <=> <<k, what>> \in heap
      BY <2>1
    <3>4. QED
      BY <1>2, <2>1, <3>2, <3>3, OthersAccounted
  <2>4. Held(calls)' = {}
    BY <1>3, <2>2 DEF Held
  <2>5. pc' # "idle" /\ Needs[pc'] = {}
    BY <2>1 DEF Needs
  <2>6. QED
    BY <2>3, <2>4, <2>5 DEF MemoryInv
<1>5. ASSUME InCall, heap \subseteq heap', heap' \subseteq heap \cup ({calls} \X Kinds),
             Needs[pc'] \subseteq Then(calls),
             "strings" \in Then(calls) \/ "syms" \in Then(calls) => "memory" \in Then(calls)
      PROVE  MemoryInv'
  <2>1. ASSUME NEW k \in 1 .. calls, k # calls PROVE Accounted(k)'
    <3>1. Accounted(k)
      BY <1>5, <2>1 DEF MemoryInv, InCall
    <3>2. \A what : <<k, what>> \in heap' <=> <<k, what>> \in heap
      BY <1>5, <2>1
    <3>3. QED
      BY <1>2, <1>5, <3>1, <3>2, OthersAccounted DEF InCall
  <2>2. calls' = calls /\ pc' # "idle"
    BY <1>5 DEF InCall
  <2>3. Held(calls)' = Then(calls)
    BY <1>3, <2>2 DEF Held
  <2>4. QED
    BY <1>5, <2>1, <2>2, <2>3 DEF MemoryInv
<1>6. ASSUME pc # "idle"
      PROVE  /\ Needs[pc] \subseteq Now(calls)
             /\ "strings" \in Now(calls) \/ "syms" \in Now(calls) => "memory" \in Now(calls)
  BY <1>3, <1>6 DEF MemoryInv
<1>7. CASE CheckStack \/ SkipSegment \/ LoadSegment \/ Loaded \/ FindSymbols
  <2>1. InCall /\ heap' = heap /\ Needs[pc'] \subseteq Needs[pc] /\ pc # "idle"
    BY <1>7, StepsInCall
       DEF CheckStack, SkipSegment, LoadSegment, Loaded, FindSymbols, Needs, locals, InCall
  <2>2. QED
    BY <1>5, <1>6, <2>1
<1>8. CASE Read
  <2>1. InCall /\ heap' = heap /\ pc # "idle"
    BY <1>8, StepsInCall DEF Read, locals, InCall
  <2>2. Needs[pc'] \subseteq Now(calls)
    <3>1. CASE pc = "read_strings" /\ pc' = "syms"
      BY <1>6, <1>8, <2>1, <3>1 DEF Read, Missing, Needs, Kinds
    <3>2. CASE pc = "read_syms" /\ pc' = "ready"
      BY <1>6, <1>8, <2>1, <3>2 DEF Read, Missing, Needs, Kinds
    <3>3. CASE pc' = "failed"
      BY <3>3 DEF Needs
    <3>4. CASE pc \in {"header", "read_phdr", "read_shdr"} /\ pc' = AfterRead[pc]
      BY <1>6, <2>1, <3>4 DEF AfterRead, Needs
    <3>5. QED
      BY <1>8, <3>1, <3>2, <3>3, <3>4 DEF Read, AfterRead
  <2>3. QED
    BY <1>5, <1>6, <2>1, <2>2
<1>9. CASE Allocate
  <2>1. InCall /\ pc # "idle" /\ pc \in {"vm", "memory", "phdr", "shdr"}
    BY <1>9, StepsInCall DEF Allocate, AfterMalloc, InCall
  <2>2. CASE heap' = heap \cup {<<calls, pc>>} /\ pc' = AfterMalloc[pc]
    <3>1. Then(calls) = Now(calls) \cup {pc}
      BY <2>1, <2>2 DEF Kinds
    <3>2. Needs[pc'] \subseteq Needs[pc] \cup {pc}
      BY <2>1, <2>2 DEF Needs, AfterMalloc
    <3>3. heap' \subseteq heap \cup ({calls} \X Kinds)
      BY <2>1, <2>2 DEF Kinds
    <3>4. QED
      BY <1>5, <1>6, <2>1, <2>2, <3>1, <3>2, <3>3
  <2>3. CASE heap' = heap /\ pc' = "failed"
    <3>1. Needs[pc'] = {}
      BY <2>3 DEF Needs
    <3>2. QED
      BY <1>5, <1>6, <2>1, <2>3, <3>1
  <2>4. QED
    BY <1>9, <2>2, <2>3 DEF Allocate
<1>10. CASE AllocateTable
  <2>1. InCall /\ pc # "idle" /\ pc \in {"strings", "syms"} /\ heap' \in {heap, heap \cup {<<calls, pc>>}}
    BY <1>10, StepsInCall DEF AllocateTable, InCall
  <2>2. Needs[pc'] = Needs[pc] /\ "memory" \in Needs[pc]
    BY <1>10 DEF AllocateTable, Needs
  <2>3. Now(calls) \subseteq Then(calls) /\ "memory" \in Then(calls)
    BY <1>6, <2>1, <2>2
  <2>4. heap' \subseteq heap \cup ({calls} \X Kinds) /\ heap \subseteq heap'
    BY <2>1 DEF Kinds
  <2>5. QED
    BY <1>5, <1>6, <2>1, <2>2, <2>3, <2>4
<1>11. CASE Ready
  <2>1. /\ pc = "ready" /\ heap' = heap \ Tables /\ calls' = calls
        /\ Tables = {<<calls, "phdr">>, <<calls, "shdr">>}
    BY <1>11 DEF Ready, Tables
  <2>2. {"vm", "memory", "strings", "syms"} \subseteq Now(calls)
    BY <1>6, <2>1 DEF Needs
  <2>3. Then(calls) = {"vm", "memory", "strings", "syms"}
    BY <2>1, <2>2 DEF Kinds
  <2>4. \A k, what : k # calls => (<<k, what>> \in heap' <=> <<k, what>> \in heap)
    BY <2>1
  <2>5. CASE UNCHANGED machines /\ pc' = "failed"
    <3>1. ASSUME NEW k \in 1 .. calls, k # calls PROVE Accounted(k)'
      <4>1. Accounted(k)
        BY <2>1, <3>1 DEF MemoryInv
      <4>2. QED
        BY <1>2, <2>4, <2>5, <3>1, <4>1, OthersAccounted
    <3>2. Held(calls)' = Then(calls)
      BY <1>3, <2>1 DEF Held
    <3>3. Needs["failed"] = {}
      BY DEF Needs
    <3>4. QED
      BY <2>1, <2>3, <2>5, <3>1, <3>2, <3>3 DEF MemoryInv
  <2>6. CASE machines' = Append(machines, NewMachine) /\ pc' = "idle"
    <3> DEFINE n == Len(machines) + 1
    <3>1. NewMachine \in Machine /\ machines \in Seq(Machine)
      BY <2>1, NewMachineType DEF TypesInv
    <3>2. /\ DOMAIN machines' = DOMAIN machines \cup {n} /\ machines'[n] = NewMachine
          /\ \A m \in DOMAIN machines : machines'[m] = machines[m]
      BY <2>6, <3>1, MoreMachines
    <3>3. n \in DOMAIN machines' /\ machines'[n].call = calls
      BY <3>2 DEF NewMachine
    <3>4. MachineOf(calls)' # {}
      BY <2>1, <3>3 DEF MachineOf
    <3>5. Accounted(calls)'
      BY <1>3, <2>1, <2>3, <3>4 DEF Accounted, Held
    <3>6. ASSUME NEW k \in 1 .. calls, k # calls PROVE Accounted(k)'
      <4>1. Accounted(k)
        BY <2>1, <3>6 DEF MemoryInv
      <4>2. MachineOf(k)' = MachineOf(k)
        BY <3>2, <3>3, <3>6 DEF MachineOf
      <4>3. Held(k)' = Held(k)
        <5>1. Then(k) = Now(k)
          BY <2>4, <3>6
        <5>2. QED
          BY <1>3, <5>1
      <4>4. QED
        BY <4>1, <4>2, <4>3 DEF Accounted
    <3>7. QED
      BY <2>1, <2>6, <3>5, <3>6 DEF MemoryInv
  <2>7. QED
    BY <1>11, <2>5, <2>6 DEF Ready, NewMachine
<1>12. CASE Failed
  <2>1. /\ pc = "failed" /\ pc' = "idle" /\ calls' = calls /\ UNCHANGED machines
        /\ heap' = heap \ {<<calls, "phdr">>, <<calls, "shdr">>, <<calls, "vm">>}
    BY <1>12 DEF Failed, Tables
  <2>2. Then(calls) = Now(calls) \ {"phdr", "shdr", "vm"}
    BY <2>1
  <2>3. \A k, what : k # calls => (<<k, what>> \in heap' <=> <<k, what>> \in heap)
    BY <2>1
  <2>4. ASSUME NEW k \in 1 .. calls, k # calls PROVE Accounted(k)'
    <3>1. Accounted(k)
      BY <2>1, <2>4 DEF MemoryInv
    <3>2. QED
      BY <1>2, <2>1, <2>3, <2>4, <3>1, OthersAccounted
  <2>5. MachineOf(calls)' = {}
    BY <2>1 DEF MachineOf, CallsInv
  <2>6. Held(calls)' = Then(calls)
    BY <1>3, <2>1 DEF Held
  <2>7. /\ Then(calls) \subseteq {"memory", "strings", "syms"}
        /\ Then(calls) # {} => "memory" \in Then(calls)
    BY <1>6, <2>1, <2>2 DEF Kinds
  <2>8. Accounted(calls)'
    BY <2>1, <2>5, <2>6, <2>7 DEF Accounted, Held
  <2>9. QED
    BY <2>1, <2>4, <2>8 DEF MemoryInv
<1>13. CASE UNCHANGED <<heap, machines, calls, pc>>
  BY <1>13 DEF MemoryInv, Accounted, Held, MachineOf
<1>14. QED
  BY <1>4, <1>7, <1>8, <1>9, <1>10, <1>11, <1>12, <1>13 DEF Next, Step, Prepare, vars

-----------------------------------------------------------------------------
(* The descriptors.                                                        *)

LEMMA FdsNext ==
  ASSUME TypesInv, FdsInv, [Next]_vars
  PROVE  FdsInv'
<1>1. open \subseteq 0 .. MaxFd /\ fd \in -1 .. MaxFd
  BY DEF TypesInv
<1>2. ASSUME NEW f \in Files, NEW size \in StackSizes, Create(f, size) PROVE FdsInv'
  <2> DEFINE free == (0 .. MaxFd) \ open
  <2>1. /\ UNCHANGED machines /\ pc = "idle" /\ MachineFds' = MachineFds
        /\ open \ {0} = MachineFds \ {0}
    BY <1>2 DEF Create, FdsInv, MachineFds
  <2>2. CASE free # {} /\ fd' = Min(free) /\ open' = open \cup {fd'} /\ pc' = "stack"
    <3>1. free \in SUBSET Nat
      BY LoaderAssumption
    <3>2. fd' \in free
      BY <2>2, <3>1, MinIn
    <3>3. fd' \notin MachineFds /\ fd' # -1 /\ fd' \in open'
      BY <2>2, <3>2, LoaderAssumption DEF FdsInv
    <3>4. open' \ {0} = (MachineFds \cup {fd'}) \ {0}
      BY <2>1, <2>2
    <3>5. QED
      BY <2>1, <2>2, <3>3, <3>4 DEF FdsInv
  <2>3. CASE fd' = -1 /\ open' = open /\ pc' = "failed"
    BY <2>1, <2>3 DEF FdsInv
  <2>4. QED
    BY <1>2, <2>2, <2>3 DEF Create
<1>3. CASE InCall
  BY <1>3 DEF InCall, FdsInv, MachineFds, Needs
<1>4. CASE Ready
  <2>1. pc = "ready" /\ UNCHANGED <<open, fd>> /\ fd # -1
    BY <1>4 DEF Ready, locals, FdsInv
  <2>2. fd \in open /\ fd \notin MachineFds /\ open \ {0} = (MachineFds \cup {fd}) \ {0}
    BY <2>1 DEF FdsInv
  <2>3. CASE machines' = Append(machines, NewMachine) /\ pc' = "idle"
    <3> DEFINE n == Len(machines) + 1
    <3>1. NewMachine \in Machine /\ machines \in Seq(Machine)
      BY <2>1, NewMachineType DEF TypesInv
    <3>2. /\ DOMAIN machines' = DOMAIN machines \cup {n} /\ machines'[n] = NewMachine
          /\ n \notin DOMAIN machines
          /\ \A m \in DOMAIN machines : machines'[m] = machines[m]
      BY <2>3, <3>1, MoreMachines
    <3>3. machines'[n].fd = fd
      BY <3>2 DEF NewMachine
    <3>4. MachineFds' = MachineFds \cup {fd}
      BY <3>2, <3>3 DEF MachineFds
    <3>5. ASSUME NEW m \in DOMAIN machines', NEW o \in DOMAIN machines',
                 machines'[m].fd = machines'[o].fd
          PROVE  m = o
      <4>1. CASE m = n /\ o # n
        BY <2>2, <3>2, <3>3, <3>5, <4>1 DEF MachineFds
      <4>2. CASE m # n /\ o = n
        BY <2>2, <3>2, <3>3, <3>5, <4>2 DEF MachineFds
      <4>3. CASE m # n /\ o # n
        BY <3>2, <3>5, <4>3 DEF FdsInv
      <4>4. QED
        BY <4>1, <4>2, <4>3
    <3>6. QED
      BY <2>1, <2>2, <2>3, <3>4, <3>5 DEF FdsInv
  <2>4. CASE UNCHANGED machines /\ pc' = "failed"
    BY <2>1, <2>2, <2>4 DEF FdsInv, MachineFds
  <2>5. QED
    BY <1>4, <2>3, <2>4 DEF Ready, NewMachine
<1>5. CASE Failed
  <2>1. /\ pc = "failed" /\ pc' = "idle" /\ UNCHANGED machines /\ MachineFds' = MachineFds
        /\ open' = IF fd > 0 THEN open \ {fd} ELSE open
    BY <1>5 DEF Failed, MachineFds
  <2>2. MachineFds \subseteq open' /\ open' \ {0} = MachineFds \ {0}
    <3>1. CASE fd = -1
      BY <2>1, <3>1 DEF FdsInv
    <3>2. CASE fd = 0
      BY <2>1, <3>2 DEF FdsInv
    <3>3. CASE fd > 0
      BY <2>1, <3>3 DEF FdsInv
    <3>4. QED
      BY <1>1, <3>1, <3>2, <3>3, LoaderAssumption
  <2>3. QED
    BY <2>1, <2>2 DEF FdsInv
<1>6. CASE UNCHANGED <<open, machines, pc, fd>>
  BY <1>6 DEF FdsInv, MachineFds
<1>7. QED
  BY <1>2, <1>3, <1>4, <1>5, <1>6, StepsInCall DEF Next, Step, Prepare, vars, locals

-----------------------------------------------------------------------------
(* The image.                                                              *)

(* What ProgramInv says of a machine.                                      *)
InPlace(m) ==
  \A k \in DOMAIN m.file.segs :
    LET s == m.file.segs[k]
    IN  s.load => \A b \in 0 .. s.filesz - 1 : m.ram[s.vaddr + b] = <<k, b>>

BreakAbove(m) ==
  Loads(m.file) # {} /\ (\A s \in Loads(m.file) : s.align > 0) => AboveProgram(m)

LEMMA ProgramInvIs ==
  ProgramInv <=> \A m \in DOMAIN machines : InPlace(machines[m]) /\ BreakAbove(machines[m])
BY DEF ProgramInv, ImageInPlace, BreakAboveProgram, InPlace, BreakAbove

LEMMA ProgramInvIsNext ==
  ProgramInv' <=> \A m \in DOMAIN machines' : InPlace(machines'[m]) /\ BreakAbove(machines'[m])
BY DEF ProgramInv, ImageInPlace, BreakAboveProgram, InPlace, BreakAbove

(* A call that has come to its end has its whole program in memory.        *)
LEMMA NewMachineImage ==
  ASSUME TypesInv, pc # "idle", i = Len(file.segs) + 1, LoadedBefore, BreakBefore
  PROVE  InPlace(NewMachine) /\ BreakAbove(NewMachine)
<1>1. NewMachine.file = file /\ NewMachine.ram = ram /\ NewMachine.brk = addr
  BY DEF NewMachine
<1>2. file \in Files
  BY DEF TypesInv
<1>3. \A k \in DOMAIN file.segs : k < i
  BY <1>2, SegmentFacts
<1>4. InPlace(NewMachine)
  BY <1>1, <1>3 DEF InPlace, LoadedBefore
<1>5. ASSUME \A s \in Loads(file) : s.align > 0, NEW s \in Loads(file)
      PROVE  addr >= s.vaddr + s.memsz
  <2>1. PICK k \in DOMAIN file.segs : s = file.segs[k] /\ file.segs[k].load
    BY <1>5 DEF Loads
  <2>2. \A j \in DOMAIN file.segs : file.segs[j].load => file.segs[j].align > 0
    BY <1>5 DEF Loads
  <2>3. QED
    BY <1>3, <2>1, <2>2 DEF BreakBefore
<1>6. BreakAbove(NewMachine)
  BY <1>1, <1>5 DEF BreakAbove, AboveProgram
<1>7. QED
  BY <1>4, <1>6

(* A byte of a segment that fits is in the memory.                         *)
LEMMA ByteInMemory ==
  ASSUME NEW s \in Segment, NEW size \in Nat, s.filesz <= s.memsz, s.vaddr + s.memsz < size,
         NEW b \in 0 .. s.filesz - 1
  PROVE  s.vaddr + b \in 0 .. size - 1 /\ (s.vaddr + b) - s.vaddr = b
<1>1. s.vaddr \in Nat /\ s.filesz \in Nat /\ s.memsz \in Nat
  BY DEF Segment
<1>2. QED
  BY <1>1

(* And not of the segment above it, which ends higher.                     *)
LEMMA SegmentsApart ==
  ASSUME NEW s \in Segment, NEW t \in Segment, t.filesz <= t.memsz,
         t.vaddr + t.memsz <= s.vaddr
  PROVE  /\ t.vaddr + t.memsz <= s.vaddr + s.memsz
         /\ \A b \in 0 .. t.filesz - 1 : (t.vaddr + b) - s.vaddr \notin 0 .. s.filesz - 1
<1>1. s.vaddr \in Nat /\ s.filesz \in Nat /\ s.memsz \in Nat
  BY DEF Segment
<1>2. t.vaddr \in Nat /\ t.filesz \in Nat /\ t.memsz \in Nat
  BY DEF Segment
<1>3. t.vaddr + t.memsz <= s.vaddr + s.memsz
  BY <1>1, <1>2
<1>4. ASSUME NEW b \in 0 .. t.filesz - 1 PROVE (t.vaddr + b) - s.vaddr \notin 0 .. s.filesz - 1
  BY <1>1, <1>2
<1>5. QED
  BY <1>3, <1>4

(* Reading a segment leaves those before it where they are.                *)
LEMMA ImageLoad ==
  ASSUME TypesInv, ImageInv, LoadSegment, i' = i + 1,
         file.segs[i].vaddr + file.segs[i].memsz < SIZE,
         ram' = Image(file.segs[i]), addr' = BreakAfter(file.segs[i])
  PROVE  i' \in 1 .. Len(file.segs) + 1 /\ LoadedBefore' /\ BreakBefore'
<1> DEFINE s == file.segs[i]
<1>1. /\ pc = "segments" /\ i \in DOMAIN file.segs /\ s.load /\ file' = file
      /\ file \in Files /\ i \in Nat
  BY DEF LoadSegment, TypesInv
<1>2. /\ DOMAIN file.segs = 1 .. Len(file.segs) /\ Len(file.segs) \in Nat
      /\ s \in Segment /\ s.vaddr \in Nat /\ s.filesz \in Nat /\ s.memsz \in Nat
      /\ s.align \in Nat /\ s.filesz <= s.memsz
  BY <1>1, SegmentFacts
<1>3. LoadedBefore /\ BreakBefore
  BY <1>1 DEF ImageInv
<1>4. SIZE \in Nat
  BY LoaderAssumption
<1>5. \A a \in 0 .. SIZE - 1 :
        /\ a - s.vaddr \in 0 .. s.filesz - 1 => ram'[a] = <<i, a - s.vaddr>>
        /\ a - s.vaddr \notin 0 .. s.filesz - 1 => ram'[a] = ram[a]
  BY <1>2, ImageIs
<1>6. ASSUME NEW k \in DOMAIN file.segs, k < i', file.segs[k].load
      PROVE  /\ file.segs[k].vaddr + file.segs[k].memsz < SIZE
             /\ \A b \in 0 .. file.segs[k].filesz - 1 :
                  ram'[file.segs[k].vaddr + b] = <<k, b>>
  <2> DEFINE t == file.segs[k]
  <2>1. t \in Segment /\ t.filesz <= t.memsz /\ k \in Nat
    BY <1>1, SegmentFacts
  <2>2. ASSUME k = i
        PROVE  /\ t.vaddr + t.memsz < SIZE
               /\ \A b \in 0 .. t.filesz - 1 : ram'[t.vaddr + b] = <<k, b>>
    <3>1. s.vaddr + s.memsz < SIZE
      OBVIOUS
    <3>2. ASSUME NEW b \in 0 .. s.filesz - 1 PROVE ram'[s.vaddr + b] = <<i, b>>
      <4>1. s.vaddr + b \in 0 .. SIZE - 1 /\ (s.vaddr + b) - s.vaddr = b
        <5> HIDE DEF s
        <5>1. QED
          BY <1>2, <1>4, <3>1, ByteInMemory
      <4>2. QED
        BY <1>5, <4>1
    <3>3. QED
      BY <2>2, <3>1, <3>2
  <2>3. ASSUME k < i
        PROVE  /\ t.vaddr + t.memsz < SIZE
               /\ \A b \in 0 .. t.filesz - 1 : ram'[t.vaddr + b] = <<k, b>>
    <3>1. t.vaddr + t.memsz < SIZE /\ \A b \in 0 .. t.filesz - 1 : ram[t.vaddr + b] = <<k, b>>
      BY <1>3, <1>6, <2>3 DEF LoadedBefore
    <3>2. t.vaddr + t.memsz <= s.vaddr
      <4>1. k \in 1 .. i - 1
        BY <1>1, <1>2, <2>1, <2>3
      <4>2. QED
        BY <1>1, <1>6, <4>1, FileAssumption
    <3>3. ASSUME NEW b \in 0 .. t.filesz - 1 PROVE ram'[t.vaddr + b] = <<k, b>>
      <4>1. /\ t.vaddr + b \in 0 .. SIZE - 1
            /\ (t.vaddr + b) - s.vaddr \notin 0 .. s.filesz - 1
        <5> HIDE DEF s, t
        <5>1. t.vaddr + b \in 0 .. SIZE - 1
          BY <1>4, <2>1, <3>1, ByteInMemory
        <5>2. (t.vaddr + b) - s.vaddr \notin 0 .. s.filesz - 1
          BY <1>2, <2>1, <3>2, SegmentsApart
        <5>3. QED
          BY <5>1, <5>2
      <4>2. ram'[t.vaddr + b] = ram[t.vaddr + b]
        BY <1>5, <4>1
      <4>3. QED
        BY <3>1, <4>2
    <3>4. QED
      BY <3>1, <3>3
  <2>4. k = i \/ k < i
    BY <1>1, <1>6, <2>1
  <2>5. QED
    BY <2>2, <2>3, <2>4
<1>7. ASSUME \A k \in DOMAIN file.segs : file.segs[k].load => file.segs[k].align > 0,
             NEW k \in DOMAIN file.segs, k < i', file.segs[k].load
      PROVE  addr' >= file.segs[k].vaddr + file.segs[k].memsz
  <2> DEFINE t == file.segs[k]
  <2>1. t \in Segment /\ t.filesz <= t.memsz /\ k \in Nat
    BY <1>1, SegmentFacts
  <2>2. addr' \in Nat /\ addr' >= s.vaddr + s.memsz
    BY <1>1, <1>2, <1>7, BreakAfterIs
  <2>3. ASSUME k < i PROVE addr' >= t.vaddr + t.memsz
    <3>1. k \in 1 .. i - 1
      BY <1>1, <1>2, <2>1, <2>3
    <3>2. t.vaddr + t.memsz <= s.vaddr
      BY <1>1, <1>7, <3>1, FileAssumption
    <3>3. t.vaddr + t.memsz <= s.vaddr + s.memsz
      <4> HIDE DEF s, t
      <4>1. QED
        BY <1>2, <2>1, <3>2, SegmentsApart
    <3>4. t.vaddr + t.memsz \in Nat /\ s.vaddr + s.memsz \in Nat
      <4> HIDE DEF s, t
      <4>1. QED
        BY <1>2, <2>1 DEF Segment
    <3> DEFINE x == t.vaddr + t.memsz
               y == s.vaddr + s.memsz
    <3>5. x \in Nat /\ y \in Nat /\ x <= y /\ addr' >= y
      BY <2>2, <3>3, <3>4
    <3> HIDE DEF x, y
    <3>6. addr' >= x
      BY <2>2, <3>5
    <3>7. QED
      BY <3>6 DEF x
  <2>4. k = i \/ k < i
    BY <1>1, <1>7, <2>1
  <2>5. QED
    BY <2>2, <2>3, <2>4
<1>8. i' \in 1 .. Len(file.segs) + 1
  BY <1>1, <1>2
<1>9. LoadedBefore'
  BY <1>1, <1>6 DEF LoadedBefore
<1>10. BreakBefore'
  BY <1>1, <1>7 DEF BreakBefore
<1>11. QED
  BY <1>8, <1>9, <1>10

LEMMA ImageNext ==
  ASSUME TypesInv, ImageInv, [Next]_vars
  PROVE  ImageInv'
<1>1. ASSUME NEW f \in Files, NEW size \in StackSizes, Create(f, size) PROVE ImageInv'
  <2>1. UNCHANGED machines /\ file' = f /\ i' = 1 /\ pc' \in {"stack", "failed"}
    BY <1>1 DEF Create
  <2>2. f.segs \in Seq(Segment)
    BY FileAssumption
  <2>3. Len(f.segs) \in Nat /\ DOMAIN f.segs = 1 .. Len(f.segs)
    BY <2>2
  <2>4. LoadedBefore' /\ BreakBefore' /\ i' \in 1 .. Len(f.segs) + 1
    BY <2>1, <2>3 DEF LoadedBefore, BreakBefore
  <2>5. ProgramInv'
    BY <2>1, ProgramInvIs, ProgramInvIsNext DEF ImageInv
  <2>6. QED
    BY <2>1, <2>4, <2>5 DEF ImageInv, Beyond
<1>2. ASSUME InCall, UNCHANGED <<i, addr, ram>>, pc' \in {pc, "failed"} \cup Beyond \/ i = 1,
             pc' \in Beyond => i = Len(file.segs) + 1
      PROVE  ImageInv'
  <2>1. ProgramInv'
    BY <1>2, ProgramInvIs, ProgramInvIsNext DEF ImageInv, InCall
  <2>2. i \in 1 .. Len(file.segs) + 1 /\ LoadedBefore /\ BreakBefore
    BY <1>2 DEF ImageInv, InCall
  <2>3. LoadedBefore' /\ BreakBefore' /\ i' \in 1 .. Len(file'.segs) + 1
    BY <1>2, <2>2 DEF LoadedBefore, BreakBefore, InCall
  <2>4. pc' \in {"stack", "vm", "memory", "header", "phdr", "read_phdr"} => i = 1
    BY <1>2 DEF ImageInv, Beyond
  <2>5. QED
    BY <1>2, <2>1, <2>3, <2>4 DEF ImageInv, InCall
<1>3. CASE CheckStack \/ Allocate \/ Read \/ FindSymbols \/ AllocateTable
  <2>1. InCall /\ UNCHANGED <<i, addr, ram>>
    BY <1>3, StepsInCall DEF CheckStack, Allocate, Read, FindSymbols, AllocateTable, locals
  <2>2. /\ pc \in {"stack", "vm", "memory", "header", "phdr", "read_phdr"} \/ pc \in Beyond
        /\ pc' = "failed" \/ pc' \in Beyond => pc' = "failed" \/ pc \in Beyond
    BY <1>3 DEF CheckStack, Allocate, AfterMalloc, Read, AfterRead, FindSymbols, AllocateTable, Beyond
  <2>3. pc \in Beyond => pc' = "failed" \/ pc' \in Beyond
    BY <1>3 DEF CheckStack, Allocate, AfterMalloc, Read, AfterRead, FindSymbols, AllocateTable, Beyond
  <2>4. pc \in {"stack", "vm", "memory", "header", "phdr", "read_phdr"} => i = 1
    BY DEF ImageInv
  <2>5. pc \in Beyond => i = Len(file.segs) + 1
    BY DEF ImageInv
  <2>6. "failed" \notin Beyond
    BY DEF Beyond
  <2>7. QED
    BY <1>2, <2>1, <2>2, <2>3, <2>4, <2>5, <2>6
<1>4. CASE SkipSegment
  <2>1. /\ pc = "segments" /\ pc' = pc /\ i' = i + 1 /\ i \in DOMAIN file.segs
        /\ UNCHANGED <<machines, file, addr, ram>> /\ ~ file.segs[i].load /\ file \in Files
    BY <1>4 DEF SkipSegment, TypesInv
  <2>2. ProgramInv'
    BY <2>1, ProgramInvIs, ProgramInvIsNext DEF ImageInv
  <2>3. DOMAIN file.segs = 1 .. Len(file.segs) /\ Len(file.segs) \in Nat
    BY <2>1, SegmentFacts
  <2>4. LoadedBefore /\ BreakBefore
    BY <2>1 DEF ImageInv
  <2>5. \A k \in DOMAIN file.segs : k < i' /\ file.segs[k].load => k < i
    BY <2>1, <2>3
  <2>6. LoadedBefore' /\ BreakBefore' /\ i' \in 1 .. Len(file'.segs) + 1
    BY <2>1, <2>3, <2>4, <2>5 DEF LoadedBefore, BreakBefore
  <2>7. QED
    BY <2>1, <2>2, <2>6 DEF ImageInv, Beyond
<1>5. CASE LoadSegment
  <2>1. InCall /\ pc = "segments" /\ UNCHANGED <<machines, file>>
    BY <1>5, StepsInCall DEF LoadSegment
  <2>2. ProgramInv'
    BY <2>1, ProgramInvIs, ProgramInvIsNext DEF ImageInv
  <2>3. CASE pc' = "failed" /\ UNCHANGED <<i, addr, ram>>
    BY <2>2, <2>3 DEF ImageInv, Beyond
  <2>4. CASE /\ file.segs[i].vaddr + file.segs[i].memsz < SIZE
             /\ ram' = Image(file.segs[i]) /\ addr' = BreakAfter(file.segs[i])
             /\ i' = i + 1 /\ pc' = pc
    <3>1. i' \in 1 .. Len(file.segs) + 1 /\ LoadedBefore' /\ BreakBefore'
      BY <1>5, <2>4, ImageLoad
    <3>2. QED
      BY <2>1, <2>2, <2>4, <3>1 DEF ImageInv, Beyond
  <2>5. QED
    BY <1>5, <2>3, <2>4 DEF LoadSegment
<1>6. CASE Loaded
  <2>1. /\ InCall /\ UNCHANGED <<i, addr, ram>> /\ pc = "segments" /\ pc' = "shdr"
        /\ i \notin DOMAIN file.segs /\ file \in Files
    BY <1>6, StepsInCall DEF Loaded, locals, TypesInv
  <2>2. file.segs \in Seq(Segment)
    BY <2>1, FileAssumption
  <2>3. i \in 1 .. Len(file.segs) + 1 /\ DOMAIN file.segs = 1 .. Len(file.segs) /\ Len(file.segs) \in Nat
    BY <2>1, <2>2 DEF ImageInv
  <2>4. i = Len(file.segs) + 1
    BY <2>1, <2>3
  <2>5. QED
    BY <1>2, <2>1, <2>4 DEF Beyond
<1>7. CASE Ready
  <2>1. pc = "ready" /\ i = Len(file.segs) + 1 /\ LoadedBefore /\ BreakBefore
    BY <1>7 DEF Ready, ImageInv, Beyond
  <2>2. CASE machines' = Append(machines, NewMachine) /\ pc' = "idle"
    <3> DEFINE n == Len(machines) + 1
    <3>1. NewMachine \in Machine /\ machines \in Seq(Machine)
      BY <2>1, NewMachineType DEF TypesInv
    <3>2. /\ DOMAIN machines' = DOMAIN machines \cup {n} /\ machines'[n] = NewMachine
          /\ \A m \in DOMAIN machines : machines'[m] = machines[m]
      BY <2>2, <3>1, MoreMachines
    <3>3. InPlace(NewMachine) /\ BreakAbove(NewMachine)
      BY <2>1, NewMachineImage
    <3>4. \A m \in DOMAIN machines : InPlace(machines[m]) /\ BreakAbove(machines[m])
      BY ProgramInvIs DEF ImageInv
    <3>5. ProgramInv'
      BY <3>2, <3>3, <3>4, ProgramInvIsNext
    <3>6. QED
      BY <2>2, <3>5 DEF ImageInv, Beyond
  <2>3. CASE UNCHANGED machines /\ pc' = "failed"
    <3>1. ProgramInv'
      BY <2>3, ProgramInvIs, ProgramInvIsNext DEF ImageInv
    <3>2. QED
      BY <2>3, <3>1 DEF ImageInv, Beyond
  <2>4. QED
    BY <1>7, <2>2, <2>3 DEF Ready, NewMachine
<1>8. CASE Failed
  <2>1. UNCHANGED machines /\ pc' = "idle"
    BY <1>8 DEF Failed
  <2>2. ProgramInv'
    BY <2>1, ProgramInvIs, ProgramInvIsNext DEF ImageInv
  <2>3. QED
    BY <2>1, <2>2 DEF ImageInv, Beyond
<1>9. CASE UNCHANGED <<machines, pc, file, i, addr, ram>>
  <2>1. ProgramInv'
    BY <1>9, ProgramInvIs, ProgramInvIsNext DEF ImageInv
  <2>2. LoadedBefore => LoadedBefore'
    BY <1>9 DEF LoadedBefore
  <2>3. BreakBefore => BreakBefore'
    BY <1>9 DEF BreakBefore
  <2>4. QED
    BY <1>9, <2>1, <2>2, <2>3 DEF ImageInv
<1>10. QED
  BY <1>1, <1>3, <1>4, <1>5, <1>6, <1>7, <1>8, <1>9 DEF Next, Step, Prepare, vars, locals

-----------------------------------------------------------------------------
(* The invariant holds at the start and no step breaks it.                 *)
LEMMA LoaderInit == Init => LoaderInv
<1>1. SUFFICES ASSUME Init PROVE LoaderInv
  OBVIOUS
<1>2. /\ DOMAIN machines = {} /\ pc = "idle" /\ calls = 0 /\ heap = {} /\ fd = -1
      /\ open \subseteq {0}
  <2>1. machines = <<>> /\ pc = "idle" /\ calls = 0 /\ heap = {} /\ fd = -1
    BY <1>1 DEF Init
  <2>2. open \subseteq {0}
    BY <1>1 DEF Init
  <2>3. DOMAIN machines = {}
    BY <2>1
  <2>4. QED
    BY <2>1, <2>2, <2>3
<1>3. CallsInv /\ MemoryInv
  BY <1>2 DEF CallsInv, MemoryInv
<1>4. FdsInv
  BY <1>2 DEF FdsInv, MachineFds
<1>5. ProgramInv
  BY <1>2, ProgramInvIs
<1>6. ImageInv
  BY <1>2, <1>5 DEF ImageInv, Beyond
<1>7. QED
  BY <1>1, <1>3, <1>4, <1>6, TypesInit DEF LoaderInv

LEMMA LoaderNext == LoaderInv /\ [Next]_vars => LoaderInv'
BY TypesNext, CallsNext, MemoryNext, FdsNext, ImageNext DEF LoaderInv

(* The inductive invariant holds in every state.                           *)
THEOREM LoaderInvariant == Spec => []LoaderInv
<1>1. Init => LoaderInv
  BY LoaderInit
<1>2. LoaderInv /\ [Next]_vars => LoaderInv'
  BY LoaderNext
<1>3. QED
  BY <1>1, <1>2, PTL DEF Spec

(* Whichever step of whichever vm_create failed, the process's memory and  *)
(* descriptors between calls are those of its machines and what a failure  *)
(* is known to leave behind.                                               *)
THEOREM ResourcesAccounted == Spec => []ResourceInv
<1>1. LoaderInv => TypeOK
  BY DEF LoaderInv, TypesInv, TypeOK, Kinds
<1>2. LoaderInv => HeapAccounted
  BY DEF LoaderInv, MemoryInv, Accounted, HeapAccounted
<1>3. LoaderInv => DescriptorsAccounted
  BY DEF LoaderInv, FdsInv, MachineFds, DescriptorsAccounted
<1>4. LoaderInv => ResourceInv
  BY <1>1, <1>2, <1>3 DEF ResourceInv
<1>5. QED
  BY <1>4, LoaderInvariant, PTL

(* Every machine load_elf made has every segment's bytes where the program *)
(* expects them and its heap above them, whatever the file's segments.     *)
THEOREM ProgramsInPlace == Spec => []ProgramInv
<1>1. LoaderInv => ProgramInv
  BY DEF LoaderInv, ImageInv
<1>2. QED
  BY <1>1, LoaderInvariant, PTL
==============================================================================
