---------------------------- MODULE RunLoopProofs ----------------------------
(***************************************************************************)
(* Proofs about RunLoop for every guest program, every width of a word and *)
(* every size of the memory: registers, addresses and the count of         *)
(* parameters stay in their ranges whatever the guest executes, and the    *)
(* parameters a host pushes arrive whatever runs there were before.  Of a  *)
(* guest that keeps the conventions of GuestLayout and behaves, besides,   *)
(* until a run of the machine overflows its stack: its returns match its   *)
(* calls, its system calls see their arguments, and its functions store    *)
(* in their frames above the end of the stack only.                        *)
(***************************************************************************)
EXTENDS GuestLayout, SequenceTheorems, TLAPS

(* The word size and the arithmetic of words.                              *)
LEMMA WordFacts ==
  /\ WORD \in Nat \ {0} /\ HOLE \in Nat \ {0} /\ MemSize \in Nat
  /\ HOLE < MemSize /\ MemSize < WORD
BY MachineAssumption DEF Word

LEMMA Wraps ==
  ASSUME NEW a \in Int
  PROVE  a % WORD \in Word
BY WordFacts DEF Word

LEMMA WrapsNot ==
  ASSUME NEW a \in Nat, a < WORD
  PROVE  a % WORD = a
BY WordFacts

-----------------------------------------------------------------------------
(* The types.                                                              *)

LEMMA ContinueTypes ==
  ASSUME TypeOK, NEW target \in Int, Continue(target)
  PROVE  /\ pc' \in Word /\ stack_size' \in Word /\ param_count' \in 0 .. HOLE
         /\ host' \in {"start", "failed", "ready", "set", "running"}
<1>1. pc' \in Word /\ stack_size' \in Word
  BY Wraps DEF TypeOK, Continue
<1>2. CASE UNCHANGED <<host, param_count>>
  BY <1>1, <1>2 DEF TypeOK
<1>3. CASE host' = "set" /\ param_count' = 0
  BY <1>1, <1>3, WordFacts
<1>4. QED
  BY <1>2, <1>3 DEF Continue, RunEnds

LEMMA LinkTypes ==
  ASSUME TypeOK, Link
  PROVE  /\ regs' \in [Registers -> Word]
         /\ thread' \in [entry : Word, sp : Word, sp_end : Word, prev_sp : Word]
<1>1. (pc + 1) % WORD \in Word
  <2>1. pc + 1 \in Int
    BY DEF TypeOK, Word
  <2>2. QED
    BY <2>1, Wraps
<1>2. SP \in Registers
  BY DEF Registers
<1>3. QED
  BY <1>1, <1>2 DEF TypeOK, Link

LEMMA StepTypes == TypeOK /\ Step => TypeOK'
<1>1. SUFFICES ASSUME TypeOK, Step PROVE TypeOK'
  OBVIOUS
<1>2. pc \in Int /\ pc + 1 \in Int /\ \A r \in Registers : regs[r] \in Word /\ regs[r] \in Int
  BY <1>1 DEF TypeOK, Word
<1>3. \A a \in Int : At(a) \in Word
  BY <1>1, Wraps DEF At, TypeOK
<1>4. ASSUME NEW op, Executes(op), op # "nop"
      PROVE  pc \in DOMAIN Program /\ Inst = Program[pc] /\ Program[pc].op = op
  BY <1>4 DEF Executes, Inst
<1>5. CASE StackOverflow
  <2>1. pc' \in Word
    BY <1>2, <1>5, Wraps DEF StackOverflow
  <2>2. QED
    BY <1>1, <1>5, <2>1, WordFacts DEF StackOverflow, RunEnds, TypeOK
<1>6. CASE Nop
  BY <1>1, <1>2, <1>6, ContinueTypes DEF Nop, TypeOK
<1>7. CASE AddImmediate
  <2>1. Inst.rb \in Registers /\ Inst.c \in Int
    BY <1>4, <1>7, ProgramAssumption DEF AddImmediate
  <2>2. (regs[Inst.rb] + Inst.c) % WORD \in Word
    BY <1>2, <2>1, Wraps
  <2>3. regs' \in [Registers -> Word]
    BY <1>1, <1>7, <2>2 DEF AddImmediate, TypeOK
  <2>4. Continue(pc + 1) /\ UNCHANGED <<thread, mem>>
    BY <1>7 DEF AddImmediate
  <2>5. QED
    BY <1>1, <1>2, <2>3, <2>4, ContinueTypes DEF TypeOK
<1>8. CASE Load
  <2>1. Inst.rb \in Registers /\ Inst.c \in Int
    BY <1>4, <1>8, ProgramAssumption DEF Load
  <2>2. At(regs[Inst.rb] + Inst.c) \in Word
    BY <1>2, <1>3, <2>1
  <2>3. regs' \in [Registers -> Word]
    BY <1>1, <1>8, <2>2 DEF Load, TypeOK
  <2>4. Continue(pc + 1) /\ UNCHANGED <<thread, mem>>
    BY <1>8 DEF Load
  <2>5. QED
    BY <1>1, <1>2, <2>3, <2>4, ContinueTypes DEF TypeOK
<1>9. CASE Store
  <2>1. Inst.ra \in Registers
    BY <1>4, <1>9, ProgramAssumption DEF Store
  <2>2. regs[Inst.ra] \in Word
    BY <1>2, <2>1
  <2>3. mem' \in [Word -> Word]
    BY <1>1, <1>9, <2>2 DEF Store, TypeOK
  <2>4. Continue(pc + 1) /\ UNCHANGED <<thread, regs>>
    BY <1>9 DEF Store
  <2>5. QED
    BY <1>1, <1>2, <2>3, <2>4, ContinueTypes DEF TypeOK
<1>10. CASE Branch
  <2>1. Inst.c \in Int
    BY <1>4, <1>10, ProgramAssumption DEF Branch
  <2>2. PICK target \in {pc + 1, pc + 1 + Inst.c} : Continue(target)
    BY <1>10 DEF Branch
  <2>3. target \in Int
    BY <1>2, <2>1
  <2>4. QED
    BY <1>1, <1>10, <2>2, <2>3, ContinueTypes DEF TypeOK, Branch
<1>11. CASE Call
  <2>1. Inst.c \in Int
    BY <1>4, <1>11, ProgramAssumption DEF Call
  <2>2. pc + 1 + Inst.c \in Int
    BY <1>2, <2>1
  <2>3. Link /\ Continue(pc + 1 + Inst.c) /\ mem' = mem
    BY <1>11 DEF Call
  <2>4. QED
    BY <1>1, <2>2, <2>3, LinkTypes, ContinueTypes DEF TypeOK
<1>12. CASE CallRegister
  <2>1. Inst.rb \in Registers
    BY <1>4, <1>12, ProgramAssumption DEF CallRegister
  <2>2. regs[Inst.rb] \in Int
    BY <1>2, <2>1
  <2>3. Link /\ Continue(regs[Inst.rb]) /\ mem' = mem
    BY <1>12 DEF CallRegister
  <2>4. QED
    BY <1>1, <2>2, <2>3, LinkTypes, ContinueTypes DEF TypeOK
<1>13. CASE Ret
  <2>1. regs[LR] \in Int
    BY <1>2 DEF Registers
  <2>2. Continue(regs[LR]) /\ UNCHANGED <<thread, regs, mem>>
    BY <1>13 DEF Ret
  <2>3. QED
    BY <1>1, <2>1, <2>2, ContinueTypes DEF TypeOK
<1>14. CASE SystemCall
  <2>1. regs' \in [Registers -> Word]
    BY <1>1, <1>14, MachineAssumption DEF SystemCall, TypeOK
  <2>2. Continue(pc + 1) /\ UNCHANGED <<thread, mem>>
    BY <1>14 DEF SystemCall
  <2>3. QED
    BY <1>1, <1>2, <2>1, <2>2, ContinueTypes DEF TypeOK
<1>15. QED
  BY <1>1, <1>5, <1>6, <1>7, <1>8, <1>9, <1>10, <1>11, <1>12, <1>13, <1>14 DEF Step

LEMMA HostTypes == TypeOK /\ HostCalls => TypeOK'
<1>1. SUFFICES ASSUME TypeOK, HostCalls PROVE TypeOK'
  OBVIOUS
<1>2. ASSUME NEW s \in StackSizes, VmCreate(s) PROVE TypeOK'
  BY <1>1, <1>2, MachineAssumption DEF VmCreate, TypeOK, machine
<1>3. CASE VmCreateFails
  BY <1>1, <1>3 DEF VmCreateFails, TypeOK, machine
<1>4. ASSUME NEW func \in Functions, CreateMainThread(func) PROVE TypeOK'
  <2>1. Entry \in Word /\ func \in Word
    BY MachineAssumption
  <2>2. MemSize - HOLE \in Int /\ MemSize - stack_size \in Int
    BY <1>1, WordFacts DEF TypeOK, Word
  <2>3. (MemSize - HOLE) % WORD \in Word /\ (MemSize - stack_size) % WORD \in Word
    BY <2>2, Wraps
  <2>4. thread' \in [entry : Word, sp : Word, sp_end : Word, prev_sp : Word]
    BY <1>1, <1>4, <2>1, <2>3 DEF CreateMainThread, TypeOK
  <2>5. QED
    BY <1>1, <1>4, <2>4 DEF CreateMainThread, TypeOK, machine
<1>5. ASSUME NEW param \in Params, PushParam(param) PROVE TypeOK'
  <2>1. param \in Word
    BY MachineAssumption
  <2>2. regs' \in [Registers -> Word]
    BY <1>1, <1>5, <2>1 DEF PushParam, TypeOK
  <2>3. mem' \in [Word -> Word]
    BY <1>1, <1>5, <2>1 DEF PushParam, TypeOK
  <2>4. param_count' \in 0 .. HOLE
    BY <1>1, <1>5, WordFacts DEF PushParam, TypeOK
  <2>5. QED
    BY <1>1, <1>5, <2>2, <2>3, <2>4 DEF PushParam, TypeOK
<1>6. CASE VmStart
  BY <1>1, <1>6 DEF VmStart, TypeOK
<1>7. QED
  BY <1>1, <1>2, <1>3, <1>4, <1>5, <1>6 DEF HostCalls

LEMMA TypeInit == Init => TypeOK
BY MachineAssumption, WordFacts DEF Init, TypeOK, Word

LEMMA TypeNext == TypeOK /\ [HostCalls \/ Step]_vars => TypeOK'
<1>1. TypeOK /\ UNCHANGED vars => TypeOK'
  BY DEF TypeOK, vars
<1>2. QED
  BY <1>1, HostTypes, StepTypes

(* An orderly host is a host.                                              *)
LEMMA OrderlyHost == Next => HostCalls \/ Step
BY DEF Next, OrderlyCalls, HostCalls

(* Whatever the guest executes and in whatever order the host calls,       *)
(* registers, addresses, the stack's bounds and the words of the memory    *)
(* are words, and no more parameters wait than there is room for.          *)
THEOREM AnyHostTypes == AnyHostSpec => []TypeOK
BY TypeInit, TypeNext, PTL DEF AnyHostSpec

(* The same for the host of sim.c, whose calls are in order.               *)
THEOREM TypesHold == Spec => []TypeOK
<1>1. TypeOK /\ [Next]_vars => TypeOK'
  BY TypeNext, OrderlyHost
<1>2. QED
  BY <1>1, TypeInit, PTL DEF Spec

-----------------------------------------------------------------------------
(* The parameters.                                                         *)

(* While the host prepares a run, what it pushed is counted and is where   *)
(* the function expects it; a run it starts has a thread.                  *)
Waiting ==
  /\ param_count = Len(given)
  /\ Len(given) >= 1 => regs[R4] = given[1]
  /\ Len(given) >= 2 => regs[R5] = given[2]
  /\ \A k \in 1 .. Len(given) : mem[(thread.sp + k - 1) % WORD] = given[k]

ParamsInv ==
  /\ given \in Seq(Params)
  /\ host # "running" => Waiting
  /\ host \notin {"set", "running"} => given = <<>>
  /\ host \in {"set", "running"} => thread.sp = MemSize - HOLE

(* The words kept for the parameters do not wrap, and are different ones.  *)
LEMMA SlotIs ==
  ASSUME NEW n \in Nat, n < HOLE
  PROVE  (MemSize - HOLE + n) % WORD = MemSize - HOLE + n /\ MemSize - HOLE + n \in Word
<1>1. MemSize - HOLE + n \in Nat /\ MemSize - HOLE + n < WORD
  BY WordFacts
<1>2. QED
  BY <1>1, WrapsNot, WordFacts DEF Word

LEMMA PushKeepsParams ==
  ASSUME TypeOK, ParamsInv, host = "set", NEW param \in Params, PushParam(param)
  PROVE  ParamsInv'
<1> DEFINE n == Len(given)
<1>1. /\ given \in Seq(Params) /\ n \in Nat /\ param_count = n /\ n < HOLE
      /\ thread.sp = MemSize - HOLE /\ Waiting
  BY DEF ParamsInv, Waiting, PushParam
<1>2. /\ given' = Append(given, param) /\ given' \in Seq(Params) /\ Len(given') = n + 1
      /\ given'[n + 1] = param /\ \A k \in 1 .. n : given'[k] = given[k]
  BY <1>1, AppendProperties DEF PushParam
<1>3. /\ param_count' = n + 1 /\ UNCHANGED <<host, thread>>
      /\ mem' = [mem EXCEPT ![(thread.sp + n) % WORD] = param]
      /\ regs' = [regs EXCEPT ![R4] = IF n = 0 THEN param ELSE @,
                              ![R5] = IF n = 1 THEN param ELSE @]
  BY <1>1 DEF PushParam
<1>4. regs \in [Registers -> Word] /\ mem \in [Word -> Word]
  BY DEF TypeOK
<1>5. /\ regs'[R4] = IF n = 0 THEN param ELSE regs[R4]
      /\ regs'[R5] = IF n = 1 THEN param ELSE regs[R5]
  BY <1>3, <1>4 DEF Registers, R4, R5
<1>6. ASSUME NEW k \in 1 .. n + 1 PROVE mem'[(thread.sp + k - 1) % WORD] = given'[k]
  <2>1. k - 1 \in Nat /\ k - 1 < HOLE
    BY <1>1, WordFacts
  <2>2. /\ (MemSize - HOLE + (k - 1)) % WORD = MemSize - HOLE + (k - 1)
        /\ MemSize - HOLE + (k - 1) \in Word
    BY <2>1, SlotIs
  <2>3. (MemSize - HOLE + n) % WORD = MemSize - HOLE + n /\ MemSize - HOLE + n \in Word
    BY <1>1, SlotIs
  <2>4. thread.sp + k - 1 = MemSize - HOLE + (k - 1)
    BY <1>1, WordFacts
  <2>5. CASE k = n + 1
    BY <1>1, <1>2, <1>3, <1>4, <2>2, <2>3, <2>4, <2>5
  <2>6. CASE k \in 1 .. n
    <3>1. mem[(thread.sp + k - 1) % WORD] = given[k]
      BY <1>1, <2>6 DEF Waiting
    <3>2. MemSize - HOLE + (k - 1) # MemSize - HOLE + n
      BY <1>1, <2>6, WordFacts
    <3>3. QED
      BY <1>1, <1>2, <1>3, <1>4, <2>2, <2>3, <2>4, <2>6, <3>1, <3>2
  <2>7. QED
    BY <1>1, <2>5, <2>6
<1>7. Waiting'
  <2>1. n + 1 >= 1 => regs'[R4] = given'[1]
    <3>1. CASE n = 0
      BY <1>2, <1>5, <3>1
    <3>2. CASE n >= 1
      BY <1>1, <1>2, <1>5, <3>2 DEF Waiting
    <3>3. QED
      BY <1>1, <3>1, <3>2
  <2>2. n + 1 >= 2 => regs'[R5] = given'[2]
    <3>1. CASE n = 1
      BY <1>2, <1>5, <3>1
    <3>2. CASE n >= 2
      BY <1>1, <1>2, <1>5, <3>2 DEF Waiting
    <3>3. QED
      BY <1>1, <3>1, <3>2
  <2>3. QED
    BY <1>2, <1>3, <1>6, <2>1, <2>2 DEF Waiting
<1>8. QED
  BY <1>1, <1>2, <1>3, <1>7 DEF ParamsInv

(* A run that goes on leaves the host waiting for it; one that ends leaves *)
(* no parameter behind.                                                    *)
LEMMA StepKeepsParams ==
  ASSUME TypeOK, ParamsInv, Step
  PROVE  ParamsInv'
<1>1. host = "running"
  BY DEF Step, StackOverflow, Nop, AddImmediate, Load, Store, Branch, Call, CallRegister, Ret,
         SystemCall, Executes
<1>2. thread'.sp = thread.sp
  <2>1. ASSUME Link PROVE thread'.sp = thread.sp
    BY <2>1 DEF Link, TypeOK
  <2>2. thread' = thread \/ Link
    BY DEF Step, StackOverflow, Nop, AddImmediate, Load, Store, Branch, Call, CallRegister, Ret,
           SystemCall
  <2>3. QED
    BY <2>1, <2>2
<1>3. UNCHANGED <<host, given>> \/ (host' = "set" /\ param_count' = 0 /\ given' = <<>>)
  <2>1. ASSUME NEW target, Continue(target)
        PROVE  UNCHANGED <<host, given>> \/ (host' = "set" /\ param_count' = 0 /\ given' = <<>>)
    BY <2>1 DEF Continue, RunEnds
  <2>2. CASE StackOverflow
    BY <2>2 DEF StackOverflow, RunEnds
  <2>3. CASE Branch
    BY <2>1, <2>3 DEF Branch
  <2>4. QED
    BY <2>1, <2>2, <2>3
       DEF Step, Nop, AddImmediate, Load, Store, Call, CallRegister, Ret, SystemCall
<1>4. thread.sp = MemSize - HOLE /\ given \in Seq(Params)
  BY <1>1 DEF ParamsInv
<1>5. CASE UNCHANGED <<host, given>>
  BY <1>1, <1>2, <1>4, <1>5 DEF ParamsInv
<1>6. CASE host' = "set" /\ param_count' = 0 /\ given' = <<>>
  <2>1. Len(given') = 0 /\ given' \in Seq(Params)
    BY <1>6
  <2>2. Waiting'
    BY <1>6, <2>1 DEF Waiting
  <2>3. QED
    BY <1>2, <1>4, <1>6, <2>1, <2>2 DEF ParamsInv
<1>7. QED
  BY <1>3, <1>5, <1>6

LEMMA ParamsInit == Init => ParamsInv
<1>1. SUFFICES ASSUME Init PROVE ParamsInv
  OBVIOUS
<1>2. given = <<>> /\ param_count = 0 /\ host = "start"
  BY <1>1 DEF Init
<1>3. Len(given) = 0 /\ given \in Seq(Params)
  BY <1>2
<1>4. Waiting
  BY <1>2, <1>3 DEF Waiting
<1>5. QED
  BY <1>2, <1>3, <1>4 DEF ParamsInv

LEMMA ParamsNext == TypeOK /\ ParamsInv /\ [Next]_vars => ParamsInv'
<1>1. SUFFICES ASSUME TypeOK, ParamsInv, [Next]_vars PROVE ParamsInv'
  OBVIOUS
<1>2. ASSUME NEW s \in StackSizes, VmCreate(s) PROVE ParamsInv'
  BY <1>1, <1>2 DEF VmCreate, ParamsInv, Waiting, machine, history
<1>3. CASE VmCreateFails
  BY <1>1, <1>3 DEF VmCreateFails, ParamsInv, Waiting, machine, history
<1>4. ASSUME param_count = 0, NEW func \in Functions, CreateMainThread(func) PROVE ParamsInv'
  <2>1. given' = <<>> /\ param_count' = 0 /\ host' = "set" /\ Len(given') = 0
    BY <1>4 DEF CreateMainThread
  <2>2. given' \in Seq(Params) /\ Waiting'
    BY <2>1 DEF Waiting
  <2>3. thread'.sp = (MemSize - HOLE) % WORD
    BY <1>1, <1>4 DEF CreateMainThread, TypeOK
  <2>4. thread'.sp = MemSize - HOLE
    BY <2>3, WordFacts, WrapsNot
  <2>5. QED
    BY <2>1, <2>2, <2>4 DEF ParamsInv
<1>5. ASSUME host = "set", NEW param \in Params, PushParam(param) PROVE ParamsInv'
  BY <1>1, <1>5, PushKeepsParams
<1>6. CASE VmStart
  BY <1>1, <1>6 DEF VmStart, ParamsInv
<1>7. CASE Step
  BY <1>1, <1>7, StepKeepsParams
<1>8. CASE UNCHANGED vars
  BY <1>1, <1>8 DEF ParamsInv, Waiting, vars
<1>9. QED
  BY <1>1, <1>2, <1>3, <1>4, <1>5, <1>6, <1>7, <1>8 DEF Next, OrderlyCalls

(* The function finds the parameters the host pushed for this run, in      *)
(* order, in r4, r5 and on the stack, whatever earlier runs left there.    *)
THEOREM ParamsArrive == Spec => HostParamsArrive
<1>1. Spec => []ParamsInv
  <2>1. TypeOK /\ ParamsInv /\ [Next]_vars => ParamsInv'
    BY ParamsNext
  <2>2. QED
    BY <2>1, ParamsInit, TypesHold, PTL DEF Spec
<1> DEFINE Arrive ==
      VmStart =>
        /\ Len(given) >= 1 => regs'[R4] = given[1]
        /\ Len(given) >= 2 => regs'[R5] = given[2]
        /\ \A i \in 1 .. Len(given) : mem'[(regs'[SP] + i - 1) % WORD] = given[i]
<1>2. TypeOK /\ ParamsInv => Arrive
  <2>1. SUFFICES ASSUME TypeOK, ParamsInv, VmStart
                 PROVE  /\ Len(given) >= 1 => regs'[R4] = given[1]
                        /\ Len(given) >= 2 => regs'[R5] = given[2]
                        /\ \A i \in 1 .. Len(given) : mem'[(regs'[SP] + i - 1) % WORD] = given[i]
    OBVIOUS
  <2>2. Waiting
    BY <2>1 DEF VmStart, ParamsInv
  <2>3. /\ mem' = mem /\ regs'[SP] = thread.sp /\ regs'[R4] = regs[R4] /\ regs'[R5] = regs[R5]
    BY <2>1 DEF VmStart, TypeOK, Registers, SP, R4, R5
  <2>4. QED
    BY <2>2, <2>3 DEF Waiting
<1>3. [](TypeOK /\ ParamsInv) => [][Arrive]_vars
  BY <1>2, PTL
<1>4. QED
  BY <1>1, <1>3, TypesHold, PTL DEF HostParamsArrive, Arrive

-----------------------------------------------------------------------------
(* Guests that keep the conventions of GuestLayout: LayoutAssumption and   *)
(* FrameAssumption are used from here on, and by nothing above.            *)

Arguments == Word \X Word \X Word

Frames == [ret : Word, sp : Nat, args : Arguments]

(* What is known at l of the function that runs, called with SP = b.       *)
Known(l, b) ==
  /\ l.depth <= b /\ regs[SP] = b - l.depth
  /\ l.lr => regs[LR] = frames[1].ret
  /\ l.saved # 0 => mem[b - l.saved] = frames[1].ret
  /\ l.args => /\ thread.prev_sp = b
               /\ <<regs[R4], regs[R5], At(b + 2)>> = frames[1].args

(* A function called with SP = b has called the one of frame i with SP = a *)
(* and finds its own return address when that comes back.                  *)
Waits(i, a, b, l) ==
  /\ ~ l.lr /\ ~ l.args
  /\ a = b - l.depth
  /\ l.saved # 0 => mem[b - l.saved] = frames[i + 1].ret

(* base[i] is SP at the call of frame i, or at the start of the run.       *)
Stacked(base) ==
  /\ base \in [1 .. Len(frames) -> Nat]
  /\ \A i \in 1 .. Len(frames) : base[i] = frames[i].sp
  /\ base[Len(frames)] = thread.sp
  /\ \A i, j \in 1 .. Len(frames) : i <= j => base[i] <= base[j]
  /\ \A i \in 1 .. Len(frames) - 1 :
       frames[i].ret \in Code /\ Waits(i, base[i], base[i + 1], Layout[frames[i].ret])
  /\ Known(Layout[pc], base[1])

RunInv ==
  host = "running" =>
    /\ pc \in Code /\ frames # <<>> /\ frames[Len(frames)].ret = 0
    /\ \E base : Stacked(base)

(* Between runs LR is 0, as long as the stack has not overflowed.          *)
HostInv ==
  /\ regs[R0] = 0 /\ ended # "overflow"
  /\ host # "running" => regs[LR] = 0
  /\ host \in {"ready", "set", "running"} => stack_size \in StackSizes
  /\ host \in {"set", "running"} =>
       /\ thread.sp = MemSize - HOLE
       /\ thread.sp_end = (MemSize - stack_size) % WORD
       /\ Leads(thread.entry, Entered(FALSE))

(* What holds until an overflow, for guests that keep the conventions.     *)
GuestInv == TypeOK /\ frames \in Seq(Frames) /\ HostInv /\ RunInv

(* Where a guest stands that executes an instruction: at address a, of     *)
(* which l is known, with the frames at base.                              *)
Standing(a, l, base) ==
  /\ a = pc /\ a \in Code /\ l = Layout[a] /\ l \in Places /\ l.saved <= l.depth
  /\ Inst = Program[a] /\ Keeps(a, Program[a], l)
  /\ Stacked(base) /\ Known(l, base[1])

LEMMA PlaceIs ==
  ASSUME NEW a \in Code
  PROVE  /\ a \in DOMAIN Program /\ a \in Word \ {0}
         /\ Layout[a] \in Places /\ Layout[a].saved <= Layout[a].depth
         /\ Keeps(a, Program[a], Layout[a])
BY LayoutAssumption

LEMMA Stands ==
  ASSUME GuestInv, host = "running"
  PROVE  \E a \in Code, l \in Places : \E base : Standing(a, l, base)
<1>1. pc \in Code
  BY DEF GuestInv, RunInv
<1>2. PICK base : Stacked(base)
  BY DEF GuestInv, RunInv
<1>3. PICK a \in Code : a = pc
  BY <1>1
<1>4. Layout[a] \in Places
  BY PlaceIs
<1>5. PICK l \in Places : l = Layout[a]
  BY <1>4
<1>6. Inst = Program[a]
  BY <1>3, PlaceIs DEF Inst
<1>7. Known(l, base[1])
  BY <1>2, <1>3, <1>5 DEF Stacked
<1>8. l.saved <= l.depth /\ Keeps(a, Program[a], l)
  BY <1>5, PlaceIs
<1>9. Standing(a, l, base)
  BY <1>2, <1>3, <1>5, <1>6, <1>7, <1>8 DEF Standing
<1>10. QED
  BY <1>9

LEMMA StackIs ==
  ASSUME GuestInv, host = "running", NEW base, Stacked(base)
  PROVE  /\ Len(frames) \in Nat \ {0}
         /\ \A i \in 1 .. Len(frames) : base[i] \in Nat /\ base[i] <= MemSize - HOLE
                                        /\ base[1] <= base[i] /\ frames[i] \in Frames
<1>1. frames \in Seq(Frames) /\ frames # <<>>
  BY DEF GuestInv, RunInv
<1>2. Len(frames) \in Nat \ {0}
  BY <1>1
<1>3. thread.sp = MemSize - HOLE
  BY DEF GuestInv, HostInv
<1>4. ASSUME NEW i \in 1 .. Len(frames)
      PROVE  base[i] \in Nat /\ base[i] <= MemSize - HOLE /\ base[1] <= base[i]
  BY <1>2, <1>3 DEF Stacked
<1>5. QED
  BY <1>1, <1>2, <1>4

(* Between two checks of the stack SP does not wrap.                       *)
LEMMA RoomIs ==
  ASSUME GuestInv, host = "running", ~ Overflowed, NEW base, Stacked(base),
         NEW l \in Places, Known(l, base[1])
  PROVE  /\ regs[SP] = base[1] - l.depth /\ regs[SP] \in Nat /\ FRAME <= regs[SP]
         /\ 0 < regs[SP] /\ thread.sp_end < regs[SP]
         /\ l.depth \in Nat /\ l.saved \in Nat
         /\ base[1] \in Nat /\ base[1] <= MemSize - HOLE
<1>1. base[1] \in Nat /\ base[1] <= MemSize - HOLE
  BY StackIs
<1>2. l.depth \in Nat /\ l.saved \in Nat
  BY DEF Places
<1>3. regs[SP] = base[1] - l.depth /\ l.depth <= base[1]
  BY DEF Known
<1>4. thread.sp_end \in Nat /\ thread.sp_end < regs[SP]
  BY <1>1, <1>2, <1>3 DEF Overflowed, GuestInv, TypeOK, Word
<1>5. /\ stack_size \in StackSizes /\ stack_size \in Nat /\ stack_size < WORD
      /\ thread.sp_end = (MemSize - stack_size) % WORD
  BY WordFacts DEF GuestInv, HostInv, TypeOK, Word
<1>6. CASE stack_size <= MemSize
  <2>1. MemSize - stack_size \in Nat /\ MemSize - stack_size < WORD
    BY <1>5, <1>6, WordFacts
  <2>2. thread.sp_end = MemSize - stack_size
    BY <1>5, <2>1, WrapsNot
  <2>3. FRAME \in Nat /\ stack_size + FRAME <= MemSize + 1
    BY <1>5, <1>6, FrameAssumption
  <2>4. QED
    BY <1>1, <1>2, <1>3, <1>4, <1>5, <2>2, <2>3, WordFacts
<1>7. CASE stack_size > MemSize
  <2>1. MemSize - stack_size + WORD \in Nat /\ MemSize - stack_size + WORD < WORD
    BY <1>5, <1>7, WordFacts
  <2>2. (MemSize - stack_size) % WORD = MemSize - stack_size + WORD
    BY <1>5, <2>1, WordFacts
  <2>3. thread.sp_end > MemSize
    BY <1>5, <2>2, WordFacts
  <2>4. QED
    BY <1>1, <1>2, <1>3, <1>4, <2>3, WordFacts
<1>8. QED
  BY <1>5, <1>6, <1>7, WordFacts

LEMMA WeakerKnown ==
  ASSUME NEW l, NEW m, NEW b, Known(l, b), Weaker(m, l)
  PROVE  Known(m, b)
BY DEF Known, Weaker

(* The next address is one of the guest's code, and the run goes on.       *)
LEMMA GoesOn ==
  ASSUME NEW target \in Code, Continue(target)
  PROVE  /\ pc' = target
         /\ UNCHANGED <<host, ended, stack_size>>
<1>1. target \in Nat /\ target < WORD /\ target # 0
  BY PlaceIs, WordFacts DEF Word
<1>2. target % WORD = target
  BY <1>1, WrapsNot
<1>3. pc' = target /\ pc' # 0
  BY <1>1, <1>2 DEF Continue
<1>4. QED
  BY <1>3 DEF Continue

(* The return addresses of the callers are left as they are.               *)
Spares(base) ==
  \A i \in 1 .. Len(frames) - 1 : \A c \in Places :
    c = Layout[frames[i].ret] /\ c.saved # 0 =>
      mem'[base[i + 1] - c.saved] = mem[base[i + 1] - c.saved]

LEMMA QuietSpares ==
  ASSUME UNCHANGED mem, NEW base
  PROVE  Spares(base)
BY DEF Spares

(* Where a caller's return address is: in its frame.                       *)
LEMMA CallersSlot ==
  ASSUME GuestInv, host = "running", NEW base, Stacked(base),
         NEW i \in 1 .. Len(frames) - 1, NEW c \in Places, c = Layout[frames[i].ret]
  PROVE  /\ base[i + 1] - c.saved \in Word /\ base[i + 1] - c.saved >= base[1]
         /\ i + 1 \in 1 .. Len(frames) /\ base[i + 1] = frames[i + 1].sp
         /\ frames[i].ret \in Code
<1>1. Len(frames) \in Nat \ {0} /\ \A k \in 1 .. Len(frames) : base[k] \in Nat
      /\ base[k] <= MemSize - HOLE /\ base[1] <= base[k]
  BY StackIs
<1>2. frames[i].ret \in Code /\ Waits(i, base[i], base[i + 1], c)
  BY DEF Stacked
<1>3. c.saved <= c.depth
  BY <1>2, PlaceIs
<1>4. c.depth \in Nat /\ c.saved \in Nat
  BY DEF Places
<1>5. i + 1 \in 1 .. Len(frames) /\ i \in 1 .. Len(frames)
  BY <1>1
<1>6. base[i] = base[i + 1] - c.depth
  BY <1>2 DEF Waits
<1>7. /\ base[i] \in Nat /\ base[1] \in Nat /\ base[1] <= base[i]
      /\ base[i + 1] \in Nat /\ base[i + 1] <= MemSize - HOLE
  BY <1>1, <1>5
<1>8. /\ base[i + 1] - c.saved \in Nat /\ base[i + 1] - c.saved >= base[1]
      /\ base[i + 1] - c.saved <= MemSize - HOLE
  BY <1>3, <1>4, <1>6, <1>7, WordFacts
<1>9. base[i + 1] - c.saved \in Word
  BY <1>8, WordFacts DEF Word
<1>10. base[i + 1] = frames[i + 1].sp
  BY <1>5 DEF Stacked
<1>11. QED
  BY <1>2, <1>5, <1>8, <1>9, <1>10

(* An instruction that leaves the callers' return addresses, and the       *)
(* frames, as they are.                                                    *)
LEMMA InFrameKeeps ==
  ASSUME GuestInv, host = "running", TypeOK',
         UNCHANGED <<host, ended, stack_size, frames>>,
         thread'.sp = thread.sp, thread'.sp_end = thread.sp_end,
         thread'.entry = thread.entry,
         regs'[R0] = 0,
         NEW base, Stacked(base),
         Spares(base),
         NEW l, Known(l, base[1])', Leads(pc', l)
  PROVE  GuestInv'
<1>1. HostInv'
  BY DEF GuestInv, HostInv
<1>2. frames' \in Seq(Frames)
  BY DEF GuestInv
<1>3. pc' \in Code /\ Known(Layout[pc], base[1])'
  <2>1. PICK m : m = Layout[pc']
    OBVIOUS
  <2>2. Weaker(m, l)
    BY <2>1 DEF Leads
  <2>3. Known(m, base[1])'
    BY <2>2 DEF Known, Weaker
  <2>4. QED
    BY <2>1, <2>3 DEF Leads, Known
<1>4. ASSUME NEW i \in 1 .. Len(frames) - 1
      PROVE  /\ frames[i].ret \in Code
             /\ Waits(i, base[i], base[i + 1], Layout[frames[i].ret])'
  <2>1. PICK c : c = Layout[frames[i].ret]
    OBVIOUS
  <2>2. frames[i].ret \in Code /\ Waits(i, base[i], base[i + 1], c)
    BY <2>1 DEF Stacked
  <2>3. c \in Places
    BY <2>1, <2>2, PlaceIs
  <2>4. c.saved # 0 => mem'[base[i + 1] - c.saved] = mem[base[i + 1] - c.saved]
    BY <2>1, <2>3 DEF Spares
  <2>5. Waits(i, base[i], base[i + 1], c)'
    BY <2>2, <2>4 DEF Waits
  <2>6. QED
    BY <2>1, <2>2, <2>5 DEF Waits
<1>5. Stacked(base)'
  BY <1>3, <1>4 DEF Stacked
<1>6. QED
  BY <1>1, <1>2, <1>3, <1>5 DEF GuestInv, RunInv

(* The arithmetic of addresses within the stack.                           *)
LEMMA NoWrap ==
  ASSUME NEW x \in Int, 0 <= x, x <= MemSize
  PROVE  x % WORD = x /\ x \in Word
BY WrapsNot, WordFacts DEF Word

LEMMA RunningTypes ==
  ASSUME GuestInv, Step
  PROVE  /\ TypeOK /\ TypeOK' /\ host = "running"
         /\ regs[R0] = 0 /\ regs \in [Registers -> Word] /\ mem \in [Word -> Word]
<1>1. host = "running"
  BY DEF Step, StackOverflow, Nop, AddImmediate, Load, Store, Branch, Call, CallRegister, Ret,
         SystemCall, Executes
<1>2. QED
  BY <1>1, StepTypes DEF GuestInv, HostInv, TypeOK

LEMMA NopKeeps ==
  ASSUME GuestInv, Nop
  PROVE  GuestInv'
<1>1. Step /\ Executes("nop") /\ Inst.op = "nop"
  BY DEF Step, Nop, Executes
<1>2. TypeOK' /\ host = "running" /\ regs[R0] = 0
  BY <1>1, RunningTypes
<1>3. PICK a \in Code, l \in Places : \E base : Standing(a, l, base)
  BY <1>2, Stands
<1>4. PICK base : Standing(a, l, base)
  BY <1>3
<1>5. Keeps(a, Program[a], l) /\ Program[a].op = "nop" /\ a = pc
  BY <1>1, <1>4 DEF Standing
<1>6. Leads(a + 1, l)
  BY <1>5 DEF Keeps
<1>7. pc' = a + 1 /\ UNCHANGED <<host, ended, stack_size>>
  BY <1>5, <1>6, GoesOn DEF Nop, Leads
<1>8. UNCHANGED <<thread, regs, mem, frames>>
  BY DEF Nop
<1>9. Stacked(base) /\ Known(l, base[1])
  BY <1>4 DEF Standing
<1>10. Known(l, base[1])'
  BY <1>8, <1>9 DEF Known, At
<1>11. QED
  BY <1>2, <1>6, <1>7, <1>8, <1>9, <1>10, InFrameKeeps, QuietSpares

LEMMA BranchKeeps ==
  ASSUME GuestInv, Branch
  PROVE  GuestInv'
<1>1. Step /\ Executes("branch") /\ Inst.op = "branch"
  BY DEF Step, Branch, Executes
<1>2. TypeOK' /\ host = "running" /\ regs[R0] = 0
  BY <1>1, RunningTypes
<1>3. PICK a \in Code, l \in Places : \E base : Standing(a, l, base)
  BY <1>2, Stands
<1>4. PICK base : Standing(a, l, base)
  BY <1>3
<1>5. /\ Keeps(a, Program[a], l) /\ Program[a].op = "branch" /\ a = pc
      /\ Inst = Program[a]
  BY <1>1, <1>4 DEF Standing
<1>6. Leads(a + 1, l) /\ Leads(a + 1 + Program[a].c, l)
  BY <1>5 DEF Keeps
<1>7. PICK target \in {pc + 1, pc + 1 + Inst.c} : Continue(target)
  BY DEF Branch
<1>8. Leads(target, l)
  BY <1>5, <1>6, <1>7
<1>9. pc' = target /\ UNCHANGED <<host, ended, stack_size>>
  BY <1>7, <1>8, GoesOn DEF Leads
<1>10. UNCHANGED <<thread, regs, mem, frames>>
  BY DEF Branch
<1>11. Stacked(base) /\ Known(l, base[1])
  BY <1>4 DEF Standing
<1>12. Known(l, base[1])'
  BY <1>10, <1>11 DEF Known, At
<1>13. QED
  BY <1>2, <1>8, <1>9, <1>10, <1>11, <1>12, InFrameKeeps, QuietSpares

(* What an instruction stores through SP lies above the end of the stack,  *)
(* in the function's frame or in what its caller keeps for parameters.     *)
LEMMA StackStore ==
  ASSUME GuestInv, Store, Inst.rb = SP
  PROVE  thread.sp_end < Address /\ Address < MemSize
<1>1. Step /\ Executes("st") /\ Inst.op = "st" /\ ~ Overflowed
  BY DEF Step, Store, Executes
<1>2. TypeOK /\ host = "running"
  BY <1>1, RunningTypes
<1>3. PICK a \in Code, l \in Places : \E base : Standing(a, l, base)
  BY <1>2, Stands
<1>4. PICK base : Standing(a, l, base)
  BY <1>3
<1>5. PICK inst : inst = Program[a]
  OBVIOUS
<1>6. Keeps(a, inst, l) /\ inst.op = "st" /\ Inst = inst
  BY <1>1, <1>4, <1>5 DEF Standing
<1>7. KeepsStore(a, inst, l)
  BY <1>6 DEF Keeps
<1>8. Stacked(base) /\ Known(l, base[1])
  BY <1>4 DEF Standing
<1>9. /\ regs[SP] = base[1] - l.depth /\ regs[SP] \in Nat /\ thread.sp_end < regs[SP]
      /\ l.depth \in Nat /\ base[1] \in Nat /\ base[1] <= MemSize - HOLE
  BY <1>1, <1>2, <1>8, RoomIs
<1>10. inst.c \in 0 .. l.depth + HOLE - 1
  <2>1. inst.c \in 0 .. l.depth - 1 \/ inst.c \in l.depth .. l.depth + HOLE - 1
    BY <1>6, <1>7 DEF KeepsStore
  <2>2. QED
    BY <1>9, <2>1, WordFacts
<1>11. PICK x \in Int : x = regs[SP] + inst.c
  BY <1>9, <1>10
<1>12. 0 <= x /\ x < MemSize /\ thread.sp_end < x
  <2>1. thread.sp_end \in Nat
    BY <1>2 DEF TypeOK, Word
  <2>2. QED
    BY <1>9, <1>10, <1>11, <2>1, WordFacts
<1>13. Address = x
  <2>1. x % WORD = x
    BY <1>12, NoWrap, WordFacts
  <2>2. QED
    BY <1>6, <1>11, <2>1 DEF Address
<1>14. QED
  BY <1>12, <1>13

(* A return address is in one of the slots that stores have to spare.      *)
LEMMA SlotIsOne ==
  ASSUME NEW k \in DOMAIN frames, Resumes(k) \in Code, Layout[Resumes(k)].saved # 0
  PROVE  frames[k].sp - Layout[Resumes(k)].saved \in ReturnSlots
BY DEF ReturnSlots

(* A store outside the function's frame, by a guest that behaves.          *)
LEMMA FarStoreKeeps ==
  ASSUME GuestInv, Store, Behaves, ~ InOwnFrame
  PROVE  GuestInv'
<1>1. Step /\ Executes("st") /\ Inst.op = "st" /\ ~ Overflowed
  BY DEF Step, Store, Executes
<1>2. /\ TypeOK /\ TypeOK' /\ host = "running" /\ regs[R0] = 0
      /\ mem \in [Word -> Word] /\ ended # "overflow"
  BY <1>1, RunningTypes DEF GuestInv, HostInv
<1>3. PICK a \in Code, l \in Places : \E base : Standing(a, l, base)
  BY <1>2, Stands
<1>4. PICK base : Standing(a, l, base)
  BY <1>3
<1>5. PICK inst : inst = Program[a]
  OBVIOUS
<1>6. Keeps(a, inst, l) /\ inst.op = "st" /\ a = pc /\ Inst = inst /\ l = Layout[pc]
  BY <1>1, <1>4, <1>5 DEF Standing
<1>7. Stacked(base) /\ Known(l, base[1]) /\ l.saved <= l.depth
  BY <1>4 DEF Standing
<1>8. Leads(a + 1, [l EXCEPT !.args = FALSE])
  <2>1. KeepsStore(a, inst, l)
    BY <1>6 DEF Keeps
  <2>2. ~ (inst.rb = SP /\ inst.c \in 0 .. l.depth - 1)
    BY <1>6 DEF InOwnFrame
  <2>3. QED
    BY <2>1, <2>2 DEF KeepsStore
<1>9. Address \notin ReturnSlots
  BY <1>1, <1>2, <1>3, <1>6 DEF Behaves
<1>10. \A y \in Word : y # Address => mem'[y] = mem[y]
  BY <1>2 DEF Store
<1>11. Continue(a + 1) /\ UNCHANGED <<thread, regs, frames>>
  BY <1>6 DEF Store
<1>12. /\ Len(frames) \in Nat \ {0} /\ DOMAIN frames = 1 .. Len(frames)
       /\ base[1] \in Nat /\ base[1] <= MemSize - HOLE
  <2>1. frames \in Seq(Frames)
    BY DEF GuestInv
  <2>2. QED
    BY <1>2, <1>7, <2>1, StackIs
<1>13. Spares(base)
  <2>1. SUFFICES ASSUME NEW i \in 1 .. Len(frames) - 1, NEW c \in Places,
                        c = Layout[frames[i].ret], c.saved # 0
                 PROVE  mem'[base[i + 1] - c.saved] = mem[base[i + 1] - c.saved]
    BY DEF Spares
  <2>2. /\ base[i + 1] - c.saved \in Word
        /\ i + 1 \in 1 .. Len(frames) /\ base[i + 1] = frames[i + 1].sp
        /\ frames[i].ret \in Code
    BY <1>2, <1>7, <2>1, CallersSlot
  <2>3. Resumes(i + 1) = frames[i].ret
    BY <1>12, <2>1 DEF Resumes
  <2>4. frames[i + 1].sp - c.saved \in ReturnSlots
    BY <1>12, <2>1, <2>2, <2>3, SlotIsOne
  <2>5. base[i + 1] - c.saved # Address
    BY <1>9, <2>2, <2>4
  <2>6. QED
    BY <1>10, <2>2, <2>5
<1> DEFINE m == [l EXCEPT !.args = FALSE]
<1>14. m.depth = l.depth /\ m.saved = l.saved /\ m.lr = l.lr /\ ~ m.args
  BY DEF Places
<1>15. l.saved # 0 => mem'[base[1] - l.saved] = mem[base[1] - l.saved]
  <2>1. SUFFICES ASSUME l.saved # 0 PROVE mem'[base[1] - l.saved] = mem[base[1] - l.saved]
    OBVIOUS
  <2>2. l.saved \in Nat /\ l.depth \in Nat /\ l.depth <= base[1]
    BY <1>7 DEF Places, Known
  <2>3. base[1] - l.saved \in Word
    BY <1>7, <1>12, <2>2, WordFacts DEF Word
  <2>4. 1 \in DOMAIN frames /\ base[1] = frames[1].sp
    BY <1>7, <1>12 DEF Stacked
  <2>5. Resumes(1) = pc /\ pc \in Code
    BY <1>6 DEF Resumes
  <2>6. frames[1].sp - l.saved \in ReturnSlots
    BY <1>6, <2>1, <2>4, <2>5, SlotIsOne
  <2>7. base[1] - l.saved # Address
    BY <1>9, <2>4, <2>6
  <2>8. QED
    BY <1>10, <2>3, <2>7
<1> HIDE DEF m
<1>16. Known(m, base[1])'
  BY <1>7, <1>11, <1>14, <1>15 DEF Known
<1>17. Leads(a + 1, m)
  BY <1>8 DEF m
<1>18. pc' = a + 1 /\ UNCHANGED <<host, ended, stack_size>>
  BY <1>11, <1>17, GoesOn DEF Leads
<1>19. QED
  BY <1>2, <1>7, <1>11, <1>13, <1>16, <1>17, <1>18, InFrameKeeps

(* A store in the function's frame.                                        *)
LEMMA NearStoreKeeps ==
  ASSUME GuestInv, Store, InOwnFrame
  PROVE  GuestInv'
<1>1. Step /\ Executes("st") /\ Inst.op = "st" /\ ~ Overflowed
  BY DEF Step, Store, Executes
<1>2. /\ TypeOK /\ TypeOK' /\ host = "running" /\ regs[R0] = 0
      /\ regs \in [Registers -> Word] /\ mem \in [Word -> Word]
  BY <1>1, RunningTypes
<1>3. PICK a \in Code, l \in Places : \E base : Standing(a, l, base)
  BY <1>2, Stands
<1>4. PICK base : Standing(a, l, base)
  BY <1>3
<1>5. PICK inst : inst = Program[a]
  OBVIOUS
<1>6. Keeps(a, inst, l) /\ inst.op = "st" /\ a = pc /\ Inst = inst /\ l = Layout[pc]
  BY <1>1, <1>4, <1>5 DEF Standing
<1>7. KeepsStore(a, inst, l)
  BY <1>6 DEF Keeps
<1>8. Stacked(base) /\ Known(l, base[1])
  BY <1>4 DEF Standing
<1>9. /\ regs[SP] = base[1] - l.depth /\ regs[SP] \in Nat /\ thread.sp_end < regs[SP]
      /\ 0 < regs[SP] /\ l.depth \in Nat /\ l.saved \in Nat
      /\ base[1] \in Nat /\ base[1] <= MemSize - HOLE
  BY <1>1, <1>2, <1>8, RoomIs
<1>10. inst.rb = SP /\ inst.c \in 0 .. l.depth - 1
  BY <1>6 DEF InOwnFrame
<1>11. PICK x \in Int : x = regs[SP] + inst.c
  BY <1>9, <1>10
<1>12. x < base[1] /\ 0 < x /\ x >= regs[SP] /\ thread.sp_end < x
  <2>1. thread.sp_end \in Nat
    BY <1>2 DEF TypeOK, Word
  <2>2. QED
    BY <1>9, <1>10, <1>11, <2>1
<1>13. x % WORD = x /\ x \in Word /\ x < MemSize
  BY <1>9, <1>12, NoWrap, WordFacts
<1>14. /\ mem' = [mem EXCEPT ![x] = regs[inst.ra]]
       /\ Continue(a + 1)
       /\ UNCHANGED <<thread, regs, frames>>
  BY <1>6, <1>10, <1>11, <1>13 DEF Store, Address
<1>15. \A y \in Word : y # x => mem'[y] = mem[y]
  BY <1>2, <1>14
<1>16. \A y \in Word : y >= base[1] => mem'[y] = mem[y]
  <2>1. ASSUME NEW y \in Word, y >= base[1] PROVE mem'[y] = mem[y]
    <3>1. y # x
      BY <1>9, <1>12, <2>1 DEF Word
    <3>2. QED
      BY <1>15, <3>1
  <2>2. QED
    BY <2>1
<1>17. l.args => At(base[1] + 2)' = At(base[1] + 2)
  <2>1. base[1] + 2 \in Nat /\ base[1] + 2 <= WORD
    BY <1>9, WordFacts
  <2>2. CASE base[1] + 2 < WORD
    <3>1. (base[1] + 2) % WORD = base[1] + 2 /\ base[1] + 2 \in Word
      BY <2>1, <2>2, WrapsNot, WordFacts DEF Word
    <3>2. base[1] + 2 >= base[1]
      BY <1>9
    <3>3. QED
      BY <1>16, <3>1, <3>2 DEF At
  <2>3. CASE base[1] + 2 = WORD
    <3>1. (base[1] + 2) % WORD = 0 /\ 0 \in Word
      BY <2>3, WordFacts DEF Word
    <3>2. 0 # x
      BY <1>12
    <3>3. QED
      BY <1>15, <3>1, <3>2 DEF At
  <2>4. QED
    BY <2>1, <2>2, <2>3, WordFacts
<1>18. \E m : Leads(a + 1, m) /\ Known(m, base[1])'
  <2>1. CASE inst.ra = LR /\ l.lr /\ Leads(a + 1, [l EXCEPT !.saved = l.depth - inst.c])
    <3> DEFINE m == [l EXCEPT !.saved = l.depth - inst.c]
    <3>1. /\ m.depth = l.depth /\ m.saved = l.depth - inst.c /\ m.lr = l.lr
          /\ m.args = l.args
      BY DEF Places
    <3>2. base[1] - m.saved = x
      BY <1>9, <1>10, <1>11, <3>1
    <3>3. mem'[x] = frames[1].ret
      BY <1>2, <1>8, <1>13, <1>14, <2>1 DEF Known
    <3> HIDE DEF m
    <3>4. Known(m, base[1])'
      BY <1>8, <1>14, <1>17, <3>1, <3>2, <3>3 DEF Known
    <3>5. QED
      BY <2>1, <3>4 DEF m
  <2>2. CASE inst.c # l.depth - l.saved /\ Leads(a + 1, l)
    <3>1. l.saved # 0 => mem'[base[1] - l.saved] = mem[base[1] - l.saved]
      <4>1. SUFFICES ASSUME l.saved # 0 PROVE mem'[base[1] - l.saved] = mem[base[1] - l.saved]
        OBVIOUS
      <4>2. l.saved <= l.depth /\ l.depth <= base[1]
        BY <1>4 DEF Standing, Known
      <4>3. base[1] - l.saved # x /\ base[1] - l.saved \in Nat /\ base[1] - l.saved <= MemSize
        BY <1>9, <1>10, <1>11, <2>2, <4>2, WordFacts
      <4>4. base[1] - l.saved \in Word
        BY <4>3, WordFacts DEF Word
      <4>5. QED
        BY <1>15, <4>3, <4>4
    <3>2. Known(l, base[1])'
      BY <1>8, <1>14, <1>17, <3>1 DEF Known
    <3>3. QED
      BY <2>2, <3>2
  <2>3. ~ (inst.rb = SP => inst.c \in l.depth .. l.depth + HOLE - 1)
    BY <1>9, <1>10
  <2>4. QED
    BY <1>7, <2>1, <2>2, <2>3 DEF KeepsStore
<1>19. PICK m : Leads(a + 1, m) /\ Known(m, base[1])'
  BY <1>18
<1>20. pc' = a + 1 /\ UNCHANGED <<host, ended, stack_size>>
  BY <1>14, <1>19, GoesOn DEF Leads
<1>21. Spares(base)
  <2>1. SUFFICES ASSUME NEW i \in 1 .. Len(frames) - 1, NEW c \in Places,
                        c = Layout[frames[i].ret]
                 PROVE  mem'[base[i + 1] - c.saved] = mem[base[i + 1] - c.saved]
    BY DEF Spares
  <2>2. base[i + 1] - c.saved \in Word /\ base[i + 1] - c.saved >= base[1]
    BY <1>2, <1>8, <2>1, CallersSlot
  <2>3. QED
    BY <1>16, <2>2
<1>22. QED
  BY <1>2, <1>8, <1>14, <1>19, <1>20, <1>21, InFrameKeeps

LEMMA StoreKeeps ==
  ASSUME GuestInv, Store, Behaves
  PROVE  GuestInv'
BY NearStoreKeeps, FarStoreKeeps

LEMMA AddImmediateKeeps ==
  ASSUME GuestInv, AddImmediate
  PROVE  GuestInv'
<1>1. Step /\ Executes("addiu") /\ Inst.op = "addiu" /\ ~ Overflowed
  BY DEF Step, AddImmediate, Executes
<1>2. /\ TypeOK /\ TypeOK' /\ host = "running" /\ regs[R0] = 0
      /\ regs \in [Registers -> Word]
  BY <1>1, RunningTypes
<1>3. PICK a \in Code, l \in Places : \E base : Standing(a, l, base)
  BY <1>2, Stands
<1>4. PICK base : Standing(a, l, base)
  BY <1>3
<1>5. PICK inst : inst = Program[a]
  OBVIOUS
<1>6. Keeps(a, inst, l) /\ inst.op = "addiu" /\ a = pc /\ Inst = inst
  BY <1>1, <1>4, <1>5 DEF Standing
<1>7. KeepsAddImmediate(a, inst, l)
  BY <1>6 DEF Keeps
<1>8. Stacked(base) /\ Known(l, base[1])
  BY <1>4 DEF Standing
<1>9. /\ regs[SP] = base[1] - l.depth /\ regs[SP] \in Nat /\ FRAME <= regs[SP]
      /\ l.depth \in Nat /\ l.saved \in Nat
      /\ base[1] \in Nat /\ base[1] <= MemSize - HOLE
  BY <1>1, <1>2, <1>8, RoomIs
<1>10. inst.ra \in Registers /\ inst.rb \in Registers /\ inst.c \in Int
  BY <1>4, <1>5, <1>6, PlaceIs, ProgramAssumption
<1>11. /\ regs' = [regs EXCEPT ![inst.ra] = (regs[inst.rb] + inst.c) % WORD]
       /\ Continue(a + 1)
       /\ UNCHANGED <<thread, mem, frames>>
  BY <1>6 DEF AddImmediate
<1>12. inst.ra \notin {R0, LR}
  BY <1>7 DEF KeepsAddImmediate
<1>13. /\ \A r \in Registers : r # inst.ra => regs'[r] = regs[r]
       /\ regs'[inst.ra] = (regs[inst.rb] + inst.c) % WORD
  BY <1>2, <1>10, <1>11
<1>14. regs'[R0] = 0 /\ regs'[LR] = regs[LR]
  BY <1>2, <1>12, <1>13 DEF Registers
<1>15. \E m : Leads(a + 1, m) /\ Known(m, base[1])'
  <2>1. CASE /\ inst.ra = SP /\ inst.rb = SP
             /\ inst.c + FRAME >= 0 /\ inst.c <= l.depth
             /\ Leads(a + 1, [l EXCEPT !.depth = l.depth - inst.c,
                                       !.saved = Kept(l.depth - inst.c, l.saved)])
    <3> DEFINE m == [l EXCEPT !.depth = l.depth - inst.c,
                              !.saved = Kept(l.depth - inst.c, l.saved)]
    <3>1. /\ m.depth = l.depth - inst.c /\ m.saved = Kept(l.depth - inst.c, l.saved)
          /\ m.lr = l.lr /\ m.args = l.args
      BY DEF Places
    <3>2. m.saved \in {0, l.saved}
      BY <3>1 DEF Kept
    <3>3. FRAME \in Nat
      BY FrameAssumption
    <3>4. /\ regs[SP] + inst.c \in Int /\ 0 <= regs[SP] + inst.c
          /\ regs[SP] + inst.c <= MemSize
          /\ regs[SP] + inst.c = base[1] - m.depth /\ m.depth <= base[1]
      BY <1>9, <1>10, <2>1, <3>1, <3>3, WordFacts
    <3>5. regs'[SP] = base[1] - m.depth
      BY <1>13, <2>1, <3>4, NoWrap
    <3>6. regs'[R4] = regs[R4] /\ regs'[R5] = regs[R5]
      BY <1>13, <2>1 DEF Registers, SP, R4, R5
    <3> HIDE DEF m
    <3>7. Known(m, base[1])'
      BY <1>8, <1>11, <1>14, <3>1, <3>2, <3>4, <3>5, <3>6 DEF Known, At
    <3>8. QED
      BY <2>1, <3>7 DEF m
  <2>2. CASE inst.ra # SP /\ Leads(a + 1, Written(inst.ra, l))
    <3> DEFINE m == Written(inst.ra, l)
    <3>1. /\ m.depth = l.depth /\ m.saved = l.saved /\ m.lr = l.lr
          /\ m.args => l.args /\ inst.ra \notin {R4, R5}
      BY DEF Places, Written
    <3>2. regs'[SP] = regs[SP]
      BY <1>13, <2>2 DEF Registers
    <3>3. m.args => regs'[R4] = regs[R4] /\ regs'[R5] = regs[R5]
      BY <1>13, <3>1 DEF Registers
    <3> HIDE DEF m
    <3>4. Known(m, base[1])'
      BY <1>8, <1>11, <1>14, <3>1, <3>2, <3>3 DEF Known, At
    <3>5. QED
      BY <2>2, <3>4 DEF m
  <2>3. QED
    BY <1>7, <2>1, <2>2 DEF KeepsAddImmediate
<1>16. PICK m : Leads(a + 1, m) /\ Known(m, base[1])'
  BY <1>15
<1>17. pc' = a + 1 /\ UNCHANGED <<host, ended, stack_size>>
  BY <1>11, <1>16, GoesOn DEF Leads
<1>18. QED
  BY <1>2, <1>8, <1>11, <1>14, <1>16, <1>17, InFrameKeeps, QuietSpares

LEMMA LoadKeeps ==
  ASSUME GuestInv, Load
  PROVE  GuestInv'
<1>1. Step /\ Executes("ld") /\ Inst.op = "ld" /\ ~ Overflowed
  BY DEF Step, Load, Executes
<1>2. /\ TypeOK /\ TypeOK' /\ host = "running" /\ regs[R0] = 0
      /\ regs \in [Registers -> Word]
  BY <1>1, RunningTypes
<1>3. PICK a \in Code, l \in Places : \E base : Standing(a, l, base)
  BY <1>2, Stands
<1>4. PICK base : Standing(a, l, base)
  BY <1>3
<1>5. PICK inst : inst = Program[a]
  OBVIOUS
<1>6. Keeps(a, inst, l) /\ inst.op = "ld" /\ a = pc /\ Inst = inst
  BY <1>1, <1>4, <1>5 DEF Standing
<1>7. KeepsLoad(a, inst, l)
  BY <1>6 DEF Keeps
<1>8. Stacked(base) /\ Known(l, base[1])
  BY <1>4 DEF Standing
<1>9. /\ regs[SP] = base[1] - l.depth /\ regs[SP] \in Nat
      /\ l.depth \in Nat /\ l.saved \in Nat
      /\ base[1] \in Nat /\ base[1] <= MemSize - HOLE
  BY <1>1, <1>2, <1>8, RoomIs
<1>10. inst.ra \in Registers /\ inst.rb \in Registers /\ inst.c \in Int
  BY <1>4, <1>5, <1>6, PlaceIs, ProgramAssumption
<1>11. /\ regs' = [regs EXCEPT ![inst.ra] = At(regs[inst.rb] + inst.c)]
       /\ Continue(a + 1)
       /\ UNCHANGED <<thread, mem, frames>>
  BY <1>6 DEF Load
<1>12. /\ \A r \in Registers : r # inst.ra => regs'[r] = regs[r]
       /\ regs'[inst.ra] = At(regs[inst.rb] + inst.c)
  BY <1>2, <1>10, <1>11
<1>13. inst.ra \notin {R0, SP}
  BY <1>7 DEF KeepsLoad, R0, SP, LR
<1>14. regs'[R0] = 0 /\ regs'[SP] = regs[SP]
  BY <1>2, <1>12, <1>13 DEF Registers
<1>15. \E m : Leads(a + 1, m) /\ Known(m, base[1])'
  <2>1. CASE /\ inst.ra = LR /\ inst.rb = SP
             /\ l.saved # 0 /\ inst.c = l.depth - l.saved
             /\ Leads(a + 1, [l EXCEPT !.lr = TRUE])
    <3> DEFINE m == [l EXCEPT !.lr = TRUE]
    <3>1. /\ m.depth = l.depth /\ m.saved = l.saved /\ m.lr = TRUE
          /\ m.args = l.args
      BY DEF Places
    <3>2. regs[SP] + inst.c = base[1] - l.saved
      BY <1>9, <1>10, <2>1
    <3>3. l.saved <= l.depth /\ l.depth <= base[1]
      BY <1>4 DEF Standing, Known
    <3>4. 0 <= base[1] - l.saved /\ base[1] - l.saved <= MemSize /\ base[1] - l.saved \in Int
      BY <1>9, <3>3, WordFacts
    <3>5. (base[1] - l.saved) % WORD = base[1] - l.saved
      BY <3>4, NoWrap
    <3>6. regs'[LR] = frames[1].ret
      BY <1>8, <1>12, <2>1, <3>2, <3>5 DEF Known, At
    <3>7. regs'[R4] = regs[R4] /\ regs'[R5] = regs[R5]
      BY <1>12, <2>1 DEF Registers, LR, R4, R5
    <3> HIDE DEF m
    <3>8. Known(m, base[1])'
      BY <1>8, <1>11, <1>14, <3>1, <3>6, <3>7 DEF Known, At
    <3>9. QED
      BY <2>1, <3>8 DEF m
  <2>2. CASE inst.ra \notin {R0, SP, LR} /\ Leads(a + 1, Written(inst.ra, l))
    <3> DEFINE m == Written(inst.ra, l)
    <3>1. /\ m.depth = l.depth /\ m.saved = l.saved /\ m.lr = l.lr
          /\ m.args => l.args /\ inst.ra \notin {R4, R5}
      BY DEF Places, Written
    <3>2. regs'[LR] = regs[LR]
      BY <1>12, <2>2 DEF Registers
    <3>3. m.args => regs'[R4] = regs[R4] /\ regs'[R5] = regs[R5]
      BY <1>12, <3>1 DEF Registers
    <3> HIDE DEF m
    <3>4. Known(m, base[1])'
      BY <1>8, <1>11, <1>14, <3>1, <3>2, <3>3 DEF Known, At
    <3>5. QED
      BY <2>2, <3>4 DEF m
  <2>3. QED
    BY <1>7, <2>1, <2>2 DEF KeepsLoad
<1>16. PICK m : Leads(a + 1, m) /\ Known(m, base[1])'
  BY <1>15
<1>17. pc' = a + 1 /\ UNCHANGED <<host, ended, stack_size>>
  BY <1>11, <1>16, GoesOn DEF Leads
<1>18. QED
  BY <1>2, <1>8, <1>11, <1>14, <1>16, <1>17, InFrameKeeps, QuietSpares

LEMMA SystemCallKeeps ==
  ASSUME GuestInv, SystemCall
  PROVE  /\ GuestInv'
         /\ frames # <<>> /\ fetched' = frames[1].args
<1>1. Step /\ Executes("ssc") /\ Inst.op = "ssc"
  BY DEF Step, SystemCall, Executes
<1>2. /\ TypeOK /\ TypeOK' /\ host = "running" /\ regs[R0] = 0
      /\ regs \in [Registers -> Word]
  BY <1>1, RunningTypes
<1>3. PICK a \in Code, l \in Places : \E base : Standing(a, l, base)
  BY <1>2, Stands
<1>4. PICK base : Standing(a, l, base)
  BY <1>3
<1>5. Keeps(a, Program[a], l) /\ Program[a].op = "ssc" /\ a = pc
  BY <1>1, <1>4 DEF Standing
<1>6. Leads(a + 1, l) /\ l.args
  BY <1>5 DEF Keeps
<1>7. Stacked(base) /\ Known(l, base[1])
  BY <1>4 DEF Standing
<1>8. PICK ret \in Results : regs' = [regs EXCEPT ![R3] = ret]
  BY DEF SystemCall
<1>9. Continue(a + 1) /\ UNCHANGED <<thread, mem, frames>>
  BY <1>5 DEF SystemCall
<1>10. \A r \in Registers : r # R3 => regs'[r] = regs[r]
  BY <1>2, <1>8
<1>11. /\ regs'[R0] = 0 /\ regs'[SP] = regs[SP] /\ regs'[LR] = regs[LR]
       /\ regs'[R4] = regs[R4] /\ regs'[R5] = regs[R5]
  BY <1>2, <1>10 DEF Registers, R0, R3, R4, R5, SP, LR
<1>12. Known(l, base[1])'
  BY <1>7, <1>9, <1>11 DEF Known, At
<1>13. pc' = a + 1 /\ UNCHANGED <<host, ended, stack_size>>
  BY <1>6, <1>9, GoesOn DEF Leads
<1>14. GuestInv'
  BY <1>2, <1>6, <1>7, <1>9, <1>11, <1>12, <1>13, InFrameKeeps, QuietSpares
<1>15. fetched' = <<regs[R4], regs[R5], At(thread.prev_sp + 2)>>
  <2>1. base[1] \in Nat /\ thread.prev_sp = base[1]
    BY <1>2, <1>6, <1>7, StackIs DEF Known
  <2>2. thread.prev_sp + 1 + (3 - 2) = thread.prev_sp + 2
    BY <2>1
  <2>3. /\ Param(1) = regs[R4] /\ Param(2) = regs[R5]
        /\ Param(3) = At(thread.prev_sp + 1 + (3 - 2))
    BY DEF Param
  <2>4. fetched' = <<Param(1), Param(2), Param(3)>>
    BY DEF SystemCall
  <2>5. QED
    BY <2>2, <2>3, <2>4
<1>16. fetched' = frames[1].args
  BY <1>6, <1>7, <1>15 DEF Known
<1>17. frames # <<>>
  BY <1>2 DEF GuestInv, RunInv
<1>18. QED
  BY <1>14, <1>16, <1>17

(* A frame put in front of the frames.                                     *)
LEMMA FramesGrow ==
  ASSUME NEW f \in Frames, NEW s \in Seq(Frames)
  PROVE  /\ <<f>> \o s \in Seq(Frames) /\ Len(<<f>> \o s) = Len(s) + 1
         /\ (<<f>> \o s)[1] = f
         /\ \A i \in 1 .. Len(s) : (<<f>> \o s)[i + 1] = s[i]
<1>1. <<f>> \in Seq(Frames) /\ Len(<<f>>) = 1 /\ <<f>>[1] = f
  OBVIOUS
<1>2. <<f>> \o s \in Seq(Frames) /\ Len(<<f>> \o s) = 1 + Len(s)
  BY <1>1, ConcatProperties
<1>3. \A i \in 1 .. Len(s) + 1 :
        (<<f>> \o s)[i] = IF i <= 1 THEN <<f>>[i] ELSE s[i - 1]
  BY <1>1, ConcatProperties
<1>4. ASSUME NEW i \in 1 .. Len(s) PROVE (<<f>> \o s)[i + 1] = s[i]
  <2>1. i + 1 \in 1 .. Len(s) + 1 /\ ~ (i + 1 <= 1) /\ (i + 1) - 1 = i
    OBVIOUS
  <2>2. QED
    BY <1>3, <2>1
<1>5. 1 \in 1 .. Len(s) + 1
  OBVIOUS
<1>6. (<<f>> \o s)[1] = f
  BY <1>1, <1>3, <1>5
<1>7. QED
  BY <1>2, <1>4, <1>6

(* A call puts a frame in front of the others; the caller's part of the    *)
(* stack is below SP now, and waits.                                       *)
LEMMA LinkKeeps ==
  ASSUME GuestInv, Step, ~ Overflowed,
         NEW a \in Code, NEW l \in Places, NEW base, Standing(a, l, base),
         NEW target, Leads(target, Entered(TRUE)), KeepsCall(a, l),
         Link, EnterFrame, Continue(target), mem' = mem
  PROVE  GuestInv'
<1>1. PICK n, b, f :
        /\ n = Len(frames) /\ b = regs[SP]
        /\ f = [ret  |-> (pc + 1) % WORD, sp |-> regs[SP],
               args |-> <<regs[R4], regs[R5], At(regs[SP] + 2)>>]
  OBVIOUS
<1>2. /\ TypeOK /\ TypeOK' /\ host = "running" /\ regs[R0] = 0
      /\ regs \in [Registers -> Word] /\ mem \in [Word -> Word]
  BY RunningTypes
<1>3. Stacked(base) /\ Known(l, base[1]) /\ a = pc /\ l.saved <= l.depth
  BY DEF Standing
<1>4. /\ b = base[1] - l.depth /\ b \in Nat /\ l.depth \in Nat /\ l.saved \in Nat
      /\ base[1] \in Nat /\ base[1] <= MemSize - HOLE
  BY <1>1, <1>2, <1>3, RoomIs
<1>5. /\ n \in Nat \ {0} /\ frames \in Seq(Frames) /\ frames[n].ret = 0
      /\ \A i \in 1 .. n : base[i] \in Nat /\ base[1] <= base[i]
  BY <1>1, <1>2, <1>3, StackIs DEF GuestInv, RunInv
<1>6. PICK c : c = Layout[a + 1]
  OBVIOUS
<1>7. /\ l.saved # 0 /\ target \in Code /\ Weaker(Layout[target], Entered(TRUE))
      /\ a + 1 \in Code
      /\ c.depth = l.depth /\ c.saved \in {0, l.saved} /\ ~ c.lr /\ ~ c.args
  <2> DEFINE m == [l EXCEPT !.lr = FALSE, !.args = FALSE]
  <2>1. m.depth = l.depth /\ m.saved = l.saved /\ ~ m.lr /\ ~ m.args
    BY DEF Places
  <2>2. a + 1 \in Code /\ Weaker(c, m)
    BY <1>6 DEF KeepsCall, Leads
  <2>3. l.saved # 0 /\ target \in Code /\ Weaker(Layout[target], Entered(TRUE))
    BY DEF KeepsCall, Leads
  <2> HIDE DEF m
  <2>4. QED
    BY <2>1, <2>2, <2>3 DEF Weaker
<1>8. pc' = target /\ UNCHANGED <<host, ended, stack_size>>
  BY <1>7, GoesOn
<1>9. a + 1 \in Word /\ (pc + 1) % WORD = a + 1
  <2>1. a + 1 \in Nat /\ a + 1 < WORD
    BY <1>7, PlaceIs, WordFacts DEF Word
  <2>2. QED
    BY <1>3, <2>1, WrapsNot, WordFacts DEF Word
<1>10. /\ \A r \in Registers : r # LR => regs'[r] = regs[r]
      /\ regs'[LR] = a + 1
  BY <1>2, <1>9 DEF Link, Registers
<1>11. /\ thread'.prev_sp = b /\ thread'.sp = thread.sp /\ thread'.sp_end = thread.sp_end
       /\ thread'.entry = thread.entry
  BY <1>1, <1>2 DEF Link, TypeOK
<1>12. /\ regs'[R0] = 0 /\ regs'[SP] = b
       /\ regs'[R4] = regs[R4] /\ regs'[R5] = regs[R5]
  BY <1>1, <1>2, <1>10 DEF Registers, R0, R4, R5, SP, LR
<1>13. f \in Frames
  <2>1. regs[R4] \in Word /\ regs[R5] \in Word
    BY <1>2 DEF Registers
  <2>2. b + 2 \in Int
    BY <1>4
  <2>3. At(b + 2) \in Word
    BY <1>2, <2>2, Wraps DEF At
  <2>4. <<regs[R4], regs[R5], At(b + 2)>> \in Arguments
    BY <2>1, <2>3 DEF Arguments
  <2>5. QED
    BY <1>1, <1>4, <1>9, <2>4 DEF Frames
<1>14. frames' = <<f>> \o frames
  BY <1>1 DEF EnterFrame
<1>15. f.ret = a + 1 /\ f.sp = b /\ f.args = <<regs[R4], regs[R5], At(b + 2)>>
  BY <1>1, <1>9
<1>16. /\ frames' \in Seq(Frames) /\ Len(frames') = n + 1 /\ frames'[1] = f
       /\ \A i \in 1 .. n : frames'[i + 1] = frames[i]
  BY <1>1, <1>5, <1>13, <1>14, FramesGrow
<1>17. PICK base2 :
       /\ base2 \in [1 .. n + 1 -> Nat] /\ base2[1] = b
       /\ \A i \in 1 .. n : base2[i + 1] = base[i]
  <2> DEFINE g == [i \in 1 .. n + 1 |-> IF i = 1 THEN b ELSE base[i - 1]]
  <2>1. ASSUME NEW i \in 1 .. n + 1 PROVE (IF i = 1 THEN b ELSE base[i - 1]) \in Nat
    BY <1>4, <1>5, <2>1
  <2>2. g \in [1 .. n + 1 -> Nat]
    BY <2>1
  <2>3. g[1] = b
    BY <1>5
  <2>4. ASSUME NEW i \in 1 .. n PROVE g[i + 1] = base[i]
    BY <1>5
  <2> HIDE DEF g
  <2>5. QED
    BY <2>2, <2>3, <2>4
<1>18. Stacked(base2)'
  <2>1. base2 \in [1 .. Len(frames') -> Nat]
    BY <1>16, <1>17
  <2>2. base2[Len(frames')] = thread'.sp
    BY <1>1, <1>3, <1>5, <1>11, <1>16, <1>17 DEF Stacked
  <2>3. ASSUME NEW i \in 1 .. n + 1, NEW j \in 1 .. n + 1, i <= j
        PROVE  base2[i] <= base2[j]
    <3>1. \A k \in 2 .. n + 1 : k - 1 \in 1 .. n /\ base2[k] = base[k - 1]
      <4>1. ASSUME NEW k \in 2 .. n + 1 PROVE k - 1 \in 1 .. n /\ base2[k] = base[k - 1]
        <5>1. k - 1 \in 1 .. n /\ (k - 1) + 1 = k
          BY <1>5
        <5>2. QED
          BY <1>17, <5>1
      <4>2. QED
        BY <4>1
    <3>2. CASE j = 1
      <4>1. i = j
        BY <1>5, <2>3, <3>2
      <4>2. QED
        BY <1>4, <1>17, <3>2, <4>1
    <3>3. CASE i = 1 /\ j # 1
      <4>1. j \in 2 .. n + 1
        BY <1>5, <3>3
      <4>2. base2[j] \in Nat /\ base[1] <= base2[j]
        BY <1>5, <3>1, <4>1
      <4>3. QED
        BY <1>4, <1>17, <3>3, <4>2
    <3>4. CASE i # 1 /\ j # 1
      <4>1. i \in 2 .. n + 1 /\ j \in 2 .. n + 1 /\ i - 1 <= j - 1
        BY <1>5, <2>3, <3>4
      <4>2. base[i - 1] <= base[j - 1]
        BY <1>1, <1>3, <3>1, <4>1 DEF Stacked
      <4>3. QED
        BY <3>1, <4>1, <4>2
    <3>5. QED
      BY <3>2, <3>3, <3>4
  <2>4. Waits(1, base2[1], base2[2], c)'
    <3>1. base2[2] = base[1] /\ frames'[2] = frames[1]
      <4>1. 1 \in 1 .. n /\ 1 + 1 = 2
        BY <1>5
      <4>2. QED
        BY <1>16, <1>17, <4>1
    <3>2. mem'[base[1] - l.saved] = frames[1].ret
      BY <1>3, <1>7 DEF Known
    <3>3. 1 + 1 = 2
      OBVIOUS
    <3>4. QED
      BY <1>4, <1>7, <1>17, <3>1, <3>2, <3>3 DEF Waits
  <2>5. ASSUME NEW i \in 1 .. n
        PROVE  /\ frames'[i].ret \in Code
               /\ Waits(i, base2[i], base2[i + 1], Layout[frames[i].ret])'
    <3>1. CASE i = 1
      <4>1. frames'[1].ret = a + 1
        BY <1>15, <1>16
      <4>2. Waits(1, base2[1], base2[1 + 1], Layout[frames[1].ret])'
        BY <1>6, <2>4, <4>1 DEF Waits
      <4>3. QED
        BY <1>7, <3>1, <4>1, <4>2
    <3>2. CASE i # 1
      <4>1. PICK k \in 1 .. n - 1 : i = k + 1
        <5>1. i - 1 \in 1 .. n - 1 /\ i = (i - 1) + 1
          BY <1>5, <3>2
        <5>2. QED
          BY <5>1
      <4>2. k \in 1 .. n /\ k + 1 \in 1 .. n
        BY <1>5
      <4>3. PICK d : d = Layout[frames[k].ret]
        OBVIOUS
      <4>4. frames[k].ret \in Code /\ Waits(k, base[k], base[k + 1], d)
        BY <1>1, <1>3, <4>3 DEF Stacked
      <4>5. /\ frames'[k + 1] = frames[k] /\ frames'[(k + 1) + 1] = frames[k + 1]
            /\ base2[k + 1] = base[k] /\ base2[(k + 1) + 1] = base[k + 1]
        BY <1>16, <1>17, <4>2
      <4>6. Waits(k + 1, base2[k + 1], base2[(k + 1) + 1], d)'
        BY <4>4, <4>5 DEF Waits
      <4>7. Waits(k + 1, base2[k + 1], base2[(k + 1) + 1], Layout[frames[k + 1].ret])'
        BY <4>3, <4>5, <4>6 DEF Waits
      <4>8. QED
        BY <4>1, <4>4, <4>5, <4>7
    <3>3. QED
      BY <3>1, <3>2
  <2>6. Known(Entered(TRUE), b)'
    <3>1. Entered(TRUE).depth = 0 /\ Entered(TRUE).saved = 0
      BY DEF Entered
    <3>2. At(b + 2)' = At(b + 2)
      BY DEF At
    <3>3. b - 0 = b /\ 0 <= b
      BY <1>4
    <3>4. QED
      BY <1>10, <1>11, <1>12, <1>15, <1>16, <3>1, <3>2, <3>3 DEF Known
  <2>7. Known(Layout[pc], base2[1])'
    <3>1. PICK m : m = Layout[target]
      OBVIOUS
    <3>2. Known(m, b)'
      BY <1>7, <2>6, <3>1 DEF Known, Weaker
    <3>3. QED
      BY <1>8, <1>17, <3>1, <3>2 DEF Known
  <2>8. Len(frames') - 1 = n /\ Len(frames') = n + 1
    BY <1>5, <1>16
  <2>9. ASSUME NEW i \in 1 .. n + 1 PROVE base2[i] = frames'[i].sp
    <3>1. CASE i = 1
      BY <1>15, <1>16, <1>17, <3>1
    <3>2. CASE i # 1
      <4>1. PICK k \in 1 .. n : i = k + 1
        <5>1. i - 1 \in 1 .. n /\ i = (i - 1) + 1
          BY <1>5, <3>2
        <5>2. QED
          BY <5>1
      <4>2. base[k] = frames[k].sp
        BY <1>1, <1>3 DEF Stacked
      <4>3. QED
        BY <1>16, <1>17, <4>1, <4>2
    <3>3. QED
      BY <3>1, <3>2
  <2>10. QED
    BY <2>1, <2>2, <2>3, <2>5, <2>7, <2>8, <2>9 DEF Stacked
<1>19. HostInv'
  BY <1>2, <1>8, <1>11, <1>12 DEF GuestInv, HostInv
<1>20. RunInv'
  <2>1. frames' # <<>>
    BY <1>5, <1>16
  <2>2. frames'[n + 1].ret = 0
    BY <1>5, <1>16
  <2>3. QED
    BY <1>7, <1>8, <1>16, <1>18, <2>1, <2>2 DEF RunInv
<1>21. QED
  BY <1>2, <1>16, <1>19, <1>20 DEF GuestInv

LEMMA CallKeeps ==
  ASSUME GuestInv, Call
  PROVE  GuestInv'
<1>1. Step /\ Executes("call") /\ Inst.op = "call" /\ ~ Overflowed
  BY DEF Step, Call, Executes
<1>2. host = "running"
  BY <1>1, RunningTypes
<1>3. PICK a \in Code, l \in Places : \E base : Standing(a, l, base)
  BY <1>2, Stands
<1>4. PICK base : Standing(a, l, base)
  BY <1>3
<1>5. PICK inst : inst = Program[a]
  OBVIOUS
<1>6. Keeps(a, inst, l) /\ inst.op = "call" /\ a = pc /\ Inst = inst
  BY <1>1, <1>4, <1>5 DEF Standing
<1>7. Leads(a + 1 + inst.c, Entered(TRUE)) /\ KeepsCall(a, l)
  BY <1>6 DEF Keeps
<1>8. Link /\ EnterFrame /\ Continue(a + 1 + inst.c) /\ mem' = mem
  BY <1>6 DEF Call
<1>9. QED
  BY <1>1, <1>4, <1>7, <1>8, LinkKeeps

LEMMA CallRegisterKeeps ==
  ASSUME GuestInv, CallRegister, Behaves
  PROVE  GuestInv'
<1>1. Step /\ Executes("jalr") /\ Inst.op = "jalr" /\ ~ Overflowed
  BY DEF Step, CallRegister, Executes
<1>2. host = "running" /\ ended # "overflow"
  BY <1>1, RunningTypes DEF GuestInv, HostInv
<1>3. PICK a \in Code, l \in Places : \E base : Standing(a, l, base)
  BY <1>2, Stands
<1>4. PICK base : Standing(a, l, base)
  BY <1>3
<1>5. PICK inst : inst = Program[a]
  OBVIOUS
<1>6. Keeps(a, inst, l) /\ inst.op = "jalr" /\ Inst = inst /\ a = pc
  BY <1>1, <1>4, <1>5 DEF Standing
<1>7. KeepsCall(a, l)
  BY <1>6 DEF Keeps
<1>8. Leads(regs[inst.rb], Entered(TRUE))
  BY <1>1, <1>2, <1>3, <1>6 DEF Behaves
<1>9. Link /\ EnterFrame /\ Continue(regs[inst.rb]) /\ mem' = mem
  BY <1>6 DEF CallRegister
<1>10. QED
  BY <1>1, <1>4, <1>7, <1>8, <1>9, LinkKeeps

(* The frames without the first one.                                       *)
LEMMA FramesShrink ==
  ASSUME NEW s \in Seq(Frames), NEW n \in Nat \ {0}, n = Len(s)
  PROVE  /\ SubSeq(s, 2, n) \in Seq(Frames) /\ Len(SubSeq(s, 2, n)) = n - 1
         /\ \A i \in 1 .. n - 1 : SubSeq(s, 2, n)[i] = s[i + 1]
<1>1. \A i \in 2 .. n : s[i] \in Frames
  OBVIOUS
<1>2. SubSeq(s, 2, n) \in Seq(Frames) /\ Len(SubSeq(s, 2, n)) = n - 1
  BY <1>1
<1>3. ASSUME NEW i \in 1 .. n - 1 PROVE SubSeq(s, 2, n)[i] = s[i + 1]
  OBVIOUS
<1>4. QED
  BY <1>2, <1>3

(* A return goes where LR says, which is where the call was; the caller    *)
(* finds its stack as it left it.                                          *)
LEMMA RetKeeps ==
  ASSUME GuestInv, Ret
  PROVE  /\ GuestInv'
         /\ frames # <<>> /\ pc' = frames[1].ret
<1>1. Step /\ Executes("ret") /\ Inst.op = "ret"
  BY DEF Step, Ret, Executes
<1>2. /\ TypeOK /\ TypeOK' /\ host = "running" /\ regs[R0] = 0
  BY <1>1, RunningTypes
<1>3. PICK a \in Code, l \in Places : \E base : Standing(a, l, base)
  BY <1>2, Stands
<1>4. PICK base : Standing(a, l, base)
  BY <1>3
<1>5. Keeps(a, Program[a], l) /\ Program[a].op = "ret"
  BY <1>1, <1>4 DEF Standing
<1>6. l.lr /\ l.depth = 0
  BY <1>5 DEF Keeps
<1>7. Stacked(base) /\ Known(l, base[1])
  BY <1>4 DEF Standing
<1>8. PICK n : n = Len(frames)
  OBVIOUS
<1>9. /\ n \in Nat \ {0} /\ frames \in Seq(Frames) /\ frames[n].ret = 0 /\ frames # <<>>
      /\ \A i \in 1 .. n : base[i] \in Nat /\ frames[i] \in Frames
  BY <1>2, <1>7, <1>8, StackIs DEF GuestInv, RunInv
<1>10. frames[1].ret \in Word /\ regs[LR] = frames[1].ret
  <2>1. frames[1] \in Frames
    BY <1>9
  <2>2. QED
    BY <1>6, <1>7, <2>1 DEF Frames, Known
<1>11. pc' = frames[1].ret
  <2>1. pc' = regs[LR] % WORD
    BY DEF Ret, Continue
  <2>2. QED
    BY <1>10, <2>1, WrapsNot, WordFacts DEF Word
<1>12. UNCHANGED <<thread, regs, mem, stack_size>> /\ Continue(regs[LR])
  BY DEF Ret, Continue
<1>13. frames' = SubSeq(frames, 2, n)
  BY <1>8 DEF Ret
<1>14. /\ frames' \in Seq(Frames) /\ Len(frames') = n - 1
       /\ \A i \in 1 .. n - 1 : frames'[i] = frames[i + 1]
  BY <1>8, <1>9, <1>13, FramesShrink
<1>15. CASE n = 1
  <2>1. pc' = 0 /\ regs[LR] = 0
    BY <1>9, <1>10, <1>11, <1>15
  <2>2. host' = "set" /\ ended' # "overflow"
    BY <1>12, <2>1 DEF Continue, RunEnds, Remember, GuestInv, HostInv
  <2>3. HostInv'
    BY <1>2, <1>12, <2>1, <2>2 DEF GuestInv, HostInv
  <2>4. RunInv'
    BY <2>2 DEF RunInv
  <2>5. GuestInv'
    BY <1>2, <1>14, <2>3, <2>4 DEF GuestInv
  <2>6. QED
    BY <1>9, <1>11, <2>5
<1>16. CASE n # 1
  <2>1. 1 \in 1 .. n - 1 /\ n - 1 \in 1 .. n - 1 /\ (n - 1) + 1 = n /\ 1 + 1 = 2 /\ n - 1 \in Nat \ {0}
    BY <1>9, <1>16
  <2>2. PICK c : c = Layout[frames[1].ret]
    OBVIOUS
  <2>3. frames[1].ret \in Code /\ Waits(1, base[1], base[2], c)
    BY <1>7, <1>8, <2>1, <2>2 DEF Stacked
  <2>4. UNCHANGED <<host, ended>>
    <3>1. pc' # 0
      BY <1>11, <2>3, PlaceIs
    <3>2. QED
      BY <1>12, <3>1 DEF Continue
  <2>5. PICK base2 : /\ base2 \in [1 .. n - 1 -> Nat]
                     /\ \A i \in 1 .. n - 1 : base2[i] = base[i + 1]
    <3> DEFINE g == [i \in 1 .. n - 1 |-> base[i + 1]]
    <3>1. ASSUME NEW i \in 1 .. n - 1 PROVE base[i + 1] \in Nat
      <4>1. i + 1 \in 1 .. n
        BY <1>9
      <4>2. QED
        BY <1>9, <4>1
    <3>2. g \in [1 .. n - 1 -> Nat]
      BY <3>1
    <3>3. \A i \in 1 .. n - 1 : g[i] = base[i + 1]
      OBVIOUS
    <3> HIDE DEF g
    <3>4. QED
      BY <3>2, <3>3
  <2>6. Known(Layout[pc], base2[1])'
    <3>1. /\ c.depth \in Nat /\ base[1] = base[2] - c.depth
          /\ ~ c.lr /\ ~ c.args
          /\ c.saved # 0 => mem[base[2] - c.saved] = frames[2].ret
      BY <2>1, <2>2, <2>3, PlaceIs DEF Places, Waits
    <3>2. base[1] \in Nat /\ base[2] \in Nat
      <4>1. 1 \in 1 .. n /\ 2 \in 1 .. n
        BY <1>9, <1>16
      <4>2. QED
        BY <1>9, <4>1
    <3>3. regs[SP] = base[1]
      BY <1>6, <1>7, <3>2 DEF Known
    <3>4. base2[1] = base[2] /\ frames'[1] = frames[2]
      BY <1>14, <2>1, <2>5
    <3>5. c.depth <= base[2]
      BY <3>1, <3>2
    <3>6. Known(c, base2[1])'
      BY <1>12, <3>1, <3>3, <3>4, <3>5 DEF Known
    <3>7. QED
      BY <1>11, <2>2, <3>6 DEF Known
  <2>7. ASSUME NEW i \in 1 .. n - 1, NEW j \in 1 .. n - 1, i <= j
        PROVE  base2[i] <= base2[j]
    <3>1. i + 1 \in 1 .. n /\ j + 1 \in 1 .. n /\ i + 1 <= j + 1
      BY <1>9, <2>7
    <3>2. base[i + 1] <= base[j + 1]
      BY <1>7, <1>8, <3>1 DEF Stacked
    <3>3. QED
      BY <2>5, <3>2
  <2>8. ASSUME NEW i \in 1 .. (n - 1) - 1
        PROVE  /\ frames'[i].ret \in Code
               /\ Waits(i, base2[i], base2[i + 1], Layout[frames[i].ret])'
    <3>1. i \in 1 .. n - 1 /\ i + 1 \in 1 .. n - 1
      BY <1>9
    <3>2. PICK d : d = Layout[frames[i + 1].ret]
      OBVIOUS
    <3>3. frames[i + 1].ret \in Code /\ Waits(i + 1, base[i + 1], base[(i + 1) + 1], d)
      BY <1>7, <1>8, <3>1, <3>2 DEF Stacked
    <3>4. /\ frames'[i] = frames[i + 1] /\ frames'[i + 1] = frames[(i + 1) + 1]
          /\ base2[i] = base[i + 1] /\ base2[i + 1] = base[(i + 1) + 1]
      BY <1>14, <2>5, <3>1
    <3>5. Waits(i, base2[i], base2[i + 1], d)'
      BY <1>12, <3>3, <3>4 DEF Waits
    <3>6. Waits(i, base2[i], base2[i + 1], Layout[frames[i].ret])'
      BY <3>2, <3>4, <3>5 DEF Waits
    <3>7. QED
      BY <3>3, <3>4, <3>6
  <2>9. base2[n - 1] = thread'.sp
    <3>1. base2[n - 1] = base[n]
      BY <2>1, <2>5
    <3>2. QED
      BY <1>7, <1>8, <1>12, <3>1 DEF Stacked
  <2>10. Stacked(base2)'
    <3>1. ASSUME NEW i \in 1 .. n - 1 PROVE base2[i] = frames'[i].sp
      <4>1. i + 1 \in 1 .. n
        BY <1>9
      <4>2. base[i + 1] = frames[i + 1].sp
        BY <1>7, <1>8, <4>1 DEF Stacked
      <4>3. QED
        BY <1>14, <2>5, <4>2
    <3>2. QED
      BY <1>14, <2>5, <2>6, <2>7, <2>8, <2>9, <3>1 DEF Stacked
  <2>11. frames' # <<>> /\ frames'[n - 1].ret = 0
    <3>1. frames'[n - 1] = frames[n]
      BY <1>14, <2>1
    <3>2. QED
      BY <1>9, <1>14, <2>1, <3>1
  <2>12. RunInv'
    BY <1>11, <1>14, <2>3, <2>10, <2>11 DEF RunInv
  <2>13. HostInv'
    BY <1>2, <1>12, <2>4 DEF GuestInv, HostInv
  <2>14. GuestInv'
    BY <1>2, <1>14, <2>12, <2>13 DEF GuestInv
  <2>15. QED
    BY <1>9, <1>11, <2>14
<1>17. QED
  BY <1>9, <1>15, <1>16

(* The host's calls: a run starts with LR = 0 and one frame, for which     *)
(* the function's return ends the run.                                     *)
LEMMA VmStartKeeps ==
  ASSUME GuestInv, VmStart
  PROVE  GuestInv'
<1>1. TypeOK /\ TypeOK'
  <2>1. HostCalls
    BY DEF HostCalls
  <2>2. QED
    BY <2>1, HostTypes DEF GuestInv
<1>2. /\ host = "set" /\ host' = "running" /\ pc' = thread.entry
      /\ regs' = [regs EXCEPT ![SP] = thread.sp]
      /\ UNCHANGED <<stack_size, thread, mem, ended>>
  BY DEF VmStart
<1>3. /\ regs[R0] = 0 /\ regs[LR] = 0 /\ stack_size \in StackSizes
      /\ thread.sp = MemSize - HOLE /\ thread.sp_end = (MemSize - stack_size) % WORD
      /\ Leads(thread.entry, Entered(FALSE))
  BY <1>2 DEF GuestInv, HostInv
<1>4. regs'[R0] = 0 /\ regs'[LR] = 0 /\ regs'[SP] = thread.sp
  BY <1>1, <1>2, <1>3 DEF TypeOK, Registers, R0, LR, SP
<1>5. PICK f : f = [ret |-> 0, sp |-> thread.sp,
                    args |-> <<regs[R4], regs[R5], At(thread.sp + 2)>>]
  OBVIOUS
<1>6. f \in Frames /\ f.ret = 0 /\ f.sp = thread.sp
  <2>1. regs[R4] \in Word /\ regs[R5] \in Word
    BY <1>1 DEF TypeOK, Registers
  <2>2. thread.sp + 2 \in Int
    BY <1>3, WordFacts
  <2>3. At(thread.sp + 2) \in Word
    BY <1>1, <2>2, Wraps DEF At, TypeOK
  <2>4. <<regs[R4], regs[R5], At(thread.sp + 2)>> \in Arguments /\ 0 \in Word
    BY <2>1, <2>3, WordFacts DEF Arguments, Word
  <2>5. thread.sp \in Nat
    BY <1>3, WordFacts
  <2>6. QED
    BY <1>5, <2>4, <2>5 DEF Frames
<1>7. frames' = <<f>>
  BY <1>5 DEF VmStart
<1>8. frames' \in Seq(Frames) /\ Len(frames') = 1 /\ frames'[1] = f /\ frames' # <<>>
  BY <1>6, <1>7
<1>9. PICK b \in Nat : b = thread.sp
  BY <1>3, WordFacts
<1>10. PICK base : base = [i \in 1 .. 1 |-> b]
  OBVIOUS
<1>11. base \in [1 .. 1 -> Nat] /\ base[1] = b
  BY <1>10
<1>12. Known(Entered(FALSE), b)'
  <2>1. Entered(FALSE).depth = 0 /\ Entered(FALSE).saved = 0 /\ ~ Entered(FALSE).args
    BY DEF Entered
  <2>2. b - 0 = b /\ 0 <= b
    BY <1>9
  <2>3. QED
    BY <1>4, <1>6, <1>8, <1>9, <2>1, <2>2 DEF Known
<1>13. pc' \in Code /\ Known(Layout[pc], base[1])'
  <2>1. PICK m : m = Layout[thread.entry]
    OBVIOUS
  <2>2. Weaker(m, Entered(FALSE)) /\ pc' \in Code
    BY <1>2, <1>3, <2>1 DEF Leads
  <2>3. Known(m, b)'
    BY <1>12, <2>2 DEF Known, Weaker
  <2>4. QED
    BY <1>2, <1>11, <2>1, <2>2, <2>3 DEF Known
<1>14. Stacked(base)'
  <2>1. \A i, j \in 1 .. Len(frames') : i <= j => base[i] <= base[j]
    BY <1>8, <1>9, <1>11
  <2>2. 1 .. Len(frames') - 1 = {}
    BY <1>8
  <2>3. base[Len(frames')] = thread'.sp /\ base \in [1 .. Len(frames') -> Nat]
    BY <1>2, <1>8, <1>9, <1>11
  <2>4. \A i \in 1 .. Len(frames') : base[i] = frames'[i].sp
    BY <1>6, <1>8, <1>9, <1>11
  <2>5. QED
    BY <1>13, <2>1, <2>2, <2>3, <2>4 DEF Stacked
<1>15. RunInv'
  BY <1>6, <1>8, <1>13, <1>14 DEF RunInv
<1>16. HostInv'
  BY <1>2, <1>3, <1>4 DEF GuestInv, HostInv
<1>17. QED
  BY <1>1, <1>8, <1>15, <1>16 DEF GuestInv

LEMMA OrderlyKeeps ==
  ASSUME GuestInv, OrderlyCalls
  PROVE  GuestInv'
<1>1. HostCalls
  BY DEF OrderlyCalls, HostCalls
<1>2. TypeOK /\ TypeOK'
  BY <1>1, HostTypes DEF GuestInv
<1>3. ASSUME NEW s \in StackSizes, VmCreate(s) PROVE GuestInv'
  <2>1. /\ host' = "ready" /\ stack_size' = s /\ host = "start"
        /\ UNCHANGED <<thread, regs, frames, ended>>
    BY <1>3 DEF VmCreate, machine, history
  <2>2. HostInv' /\ RunInv' /\ frames' \in Seq(Frames)
    BY <2>1 DEF GuestInv, HostInv, RunInv
  <2>3. QED
    BY <1>2, <2>2 DEF GuestInv
<1>4. CASE VmCreateFails
  <2>1. /\ host' = "failed" /\ host = "start"
        /\ UNCHANGED <<thread, regs, frames, ended>>
    BY <1>4 DEF VmCreateFails, machine, history
  <2>2. HostInv' /\ RunInv' /\ frames' \in Seq(Frames)
    BY <2>1 DEF GuestInv, HostInv, RunInv
  <2>3. QED
    BY <1>2, <2>2 DEF GuestInv
<1>5. ASSUME NEW func \in Functions, CreateMainThread(func) PROVE GuestInv'
  <2>1. /\ host \in {"ready", "set"} /\ host' = "set"
        /\ UNCHANGED <<stack_size, regs, frames, ended>>
    BY <1>5 DEF CreateMainThread, machine
  <2>2. /\ thread'.entry = (IF func = 0 THEN Entry ELSE func)
        /\ thread'.sp = (MemSize - HOLE) % WORD
        /\ thread'.sp_end = (MemSize - stack_size) % WORD
    BY <1>2, <1>5 DEF CreateMainThread, TypeOK
  <2>3. (MemSize - HOLE) % WORD = MemSize - HOLE
    BY WrapsNot, WordFacts
  <2>4. Leads(thread'.entry, Entered(FALSE))
    BY <2>2, LayoutAssumption
  <2>5. HostInv' /\ RunInv' /\ frames' \in Seq(Frames)
    BY <2>1, <2>2, <2>3, <2>4 DEF GuestInv, HostInv, RunInv
  <2>6. QED
    BY <1>2, <2>5 DEF GuestInv
<1>6. ASSUME host = "set", NEW param \in Params, PushParam(param) PROVE GuestInv'
  <2>1. UNCHANGED <<host, stack_size, thread, frames, ended>>
    BY <1>6 DEF PushParam
  <2>2. regs'[R0] = regs[R0] /\ regs'[LR] = regs[LR]
    BY <1>2, <1>6 DEF PushParam, TypeOK, Registers, R0, LR, R4, R5
  <2>3. HostInv' /\ RunInv' /\ frames' \in Seq(Frames)
    BY <1>6, <2>1, <2>2 DEF GuestInv, HostInv, RunInv
  <2>4. QED
    BY <1>2, <2>3 DEF GuestInv
<1>7. CASE VmStart
  BY <1>7, VmStartKeeps
<1>8. QED
  BY <1>3, <1>4, <1>5, <1>6, <1>7 DEF OrderlyCalls

LEMMA GuestInit == Init => GuestInv
<1>1. SUFFICES ASSUME Init PROVE GuestInv
  OBVIOUS
<1>2. host = "start" /\ ended = "no" /\ frames = <<>> /\ regs = [r \in Registers |-> 0]
  BY <1>1 DEF Init
<1>3. HostInv
  BY <1>2 DEF HostInv, Registers
<1>4. RunInv /\ frames \in Seq(Frames)
  BY <1>2 DEF RunInv
<1>5. QED
  BY <1>1, <1>3, <1>4, TypeInit DEF GuestInv

LEMMA QuietGuest ==
  ASSUME GuestInv, UNCHANGED vars
  PROVE  GuestInv'
<1>1. UNCHANGED <<host, stack_size, param_count, thread, regs, pc, mem, frames, ended>>
  BY DEF vars
<1>2. TypeOK'
  BY <1>1 DEF GuestInv, TypeOK
<1>3. HostInv' /\ frames' \in Seq(Frames)
  BY <1>1 DEF GuestInv, HostInv
<1>4. RunInv'
  <2>1. ASSUME NEW base PROVE Stacked(base)' <=> Stacked(base)
    BY <1>1 DEF Stacked, Known, Waits, At
  <2>2. QED
    BY <1>1, <2>1 DEF GuestInv, RunInv
<1>5. QED
  BY <1>2, <1>3, <1>4 DEF GuestInv

(* The inductive invariant: after an overflow only the types are sure.     *)
UntilOverflow == TypeOK /\ (ended # "overflow" => GuestInv)

(* An overflow is not forgotten.                                           *)
LEMMA OverflowStays ==
  ASSUME [Next]_vars, ended = "overflow"
  PROVE  ended' = "overflow"
<1>1. CASE OrderlyCalls
  BY <1>1 DEF OrderlyCalls, VmCreate, VmCreateFails, CreateMainThread, PushParam, VmStart, history
<1>2. CASE Step
  <2>1. ASSUME NEW target, Continue(target) PROVE ended' = "overflow"
    BY <2>1 DEF Continue, RunEnds, Remember
  <2>2. CASE StackOverflow
    BY <2>2 DEF StackOverflow, RunEnds, Remember
  <2>3. CASE Branch
    BY <2>1, <2>3 DEF Branch
  <2>4. QED
    BY <1>2, <2>1, <2>2, <2>3
       DEF Step, Nop, AddImmediate, Load, Store, Call, CallRegister, Ret, SystemCall
<1>3. CASE UNCHANGED vars
  BY <1>3 DEF vars
<1>4. QED
  BY <1>1, <1>2, <1>3 DEF Next

LEMMA UntilOverflowNext == UntilOverflow /\ Behaves /\ [Next]_vars => UntilOverflow'
<1>1. SUFFICES ASSUME UntilOverflow, Behaves, [Next]_vars PROVE UntilOverflow'
  OBVIOUS
<1>2. TypeOK'
  BY <1>1, TypeNext, OrderlyHost DEF UntilOverflow
<1>3. SUFFICES ASSUME ended' # "overflow" PROVE GuestInv'
  BY <1>2 DEF UntilOverflow
<1>4. GuestInv
  BY <1>1, <1>3, OverflowStays DEF UntilOverflow
<1>5. CASE OrderlyCalls
  BY <1>4, <1>5, OrderlyKeeps
<1>6. CASE Step
  <2>1. ~ StackOverflow
    BY <1>3 DEF StackOverflow, RunEnds, Remember
  <2>2. QED
    BY <1>1, <1>4, <1>6, <2>1, NopKeeps, AddImmediateKeeps, LoadKeeps, StoreKeeps,
       BranchKeeps, CallKeeps, CallRegisterKeeps, RetKeeps, SystemCallKeeps DEF Step
<1>7. CASE UNCHANGED vars
  BY <1>4, <1>7, QuietGuest
<1>8. QED
  BY <1>1, <1>5, <1>6, <1>7 DEF Next

LEMMA GuestAlways == Spec /\ []Behaves => []UntilOverflow
<1>1. Init => UntilOverflow
  BY GuestInit, TypeInit DEF UntilOverflow
<1>2. QED
  BY <1>1, UntilOverflowNext, PTL DEF Spec

(* Until a run of the machine overflows its stack, every return of a guest *)
(* that keeps the conventions and spares return addresses, wherever else   *)
(* it stores, goes to the call it belongs to, however deep the calls are,  *)
(* and a run ends by the return of the function the host asked for.        *)
THEOREM ReturnsMatchCalls == Spec /\ []Behaves => ReturnsToItsCall
<1> DEFINE Returns == Ret /\ ended # "overflow" => frames # <<>> /\ pc' = frames[1].ret
<1>1. UntilOverflow => Returns
  BY RetKeeps DEF UntilOverflow
<1>2. []UntilOverflow => [][Returns]_vars
  BY <1>1, PTL
<1>3. QED
  BY <1>2, GuestAlways, PTL DEF ReturnsToItsCall, Returns

(* A system call of such a guest reads the parameters its caller passed,   *)
(* the third one from the caller's part of the stack.                      *)
THEOREM SystemCallsSeeArguments == Spec /\ []Behaves => SystemCallSeesArguments
<1> DEFINE Sees == SystemCall /\ ended # "overflow" => frames # <<>> /\ fetched' = frames[1].args
<1>1. UntilOverflow => Sees
  BY SystemCallKeeps DEF UntilOverflow
<1>2. []UntilOverflow => [][Sees]_vars
  BY <1>1, PTL
<1>3. QED
  BY <1>2, GuestAlways, PTL DEF SystemCallSeesArguments, Sees

(* What a function of such a guest stores in its frame, or in its caller's *)
(* for a parameter, lies above the end of the stack and in the memory: SP  *)
(* is checked before a frame is used.                                      *)
THEOREM FloorHolds == Spec /\ []Behaves => StackStaysAboveFloor
<1> DEFINE Stays == Store /\ Inst.rb = SP /\ ended # "overflow" =>
                      thread.sp_end < Address /\ Address < MemSize
<1>1. UntilOverflow => Stays
  BY StackStore DEF UntilOverflow
<1>2. []UntilOverflow => [][Stays]_vars
  BY <1>1, PTL
<1>3. QED
  BY <1>2, GuestAlways, PTL DEF StackStaysAboveFloor, Stays
==============================================================================
