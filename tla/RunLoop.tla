------------------------------ MODULE RunLoop --------------------------------
(***************************************************************************)
(* The virtual machine as its host sees it: vm_create, the set-up of the   *)
(* main thread, its parameters and vm_start (simulator/vm.c), the run loop *)
(* (simulator/cpu.c), and the way a system call fetches its parameters.    *)
(*                                                                         *)
(* What is kept of the processor is the part calls are made of: PC, LR, SP *)
(* and the registers that carry parameters and results, the loads and      *)
(* stores, the calls, the return, the system call.  Arithmetic on data is  *)
(* left out, and a conditional jump goes either way.                       *)
(*                                                                         *)
(* Addresses are counted in words of four bytes and wrap at WORD.  The     *)
(* guest's instructions are fetched from Program, which no store changes.  *)
(***************************************************************************)
EXTENDS Integers, Sequences

CONSTANTS
  WORD,        (* the number of values of a register                       *)
  MemSize,     (* memsize of vm_create                                     *)
  HOLE,        (* STACK_SAFE_HOLE                                          *)
  StackSizes,  (* the values of stacksize hosts ask for                    *)
  Entry,       (* e_entry of the loaded file                               *)
  Functions,   (* the symbols hosts run, 0 for the entry of the file       *)
  Params,      (* the values hosts pass                                    *)
  Results,     (* the values system calls return                           *)
  Junk,        (* what the memory vm_init gets from malloc is filled with  *)
  Program      (* the guest's instructions, by address                     *)

Word == 0 .. WORD - 1

(* The registers of the calling convention: r0 reads 0, r2 returns, r3 is  *)
(* the result of a system call, r4 and r5 carry the first two parameters,  *)
(* r6 stands for a register that holds an address, of a function or data.  *)
R0 == 0
R2 == 2
R3 == 3
R4 == 4
R5 == 5
R6 == 6
SP == 13
LR == 14
Registers == {R0, R2, R3, R4, R5, R6, SP, LR}

ASSUME MachineAssumption ==
  /\ WORD \in Nat /\ HOLE \in Nat \ {0}
  /\ MemSize \in Word /\ HOLE < MemSize
  /\ StackSizes \subseteq Word
  /\ Entry \in Word \ {0} /\ Functions \subseteq Word
  /\ Params \subseteq Word /\ Results \subseteq Word /\ Junk \subseteq Word

(* Instructions name registers and carry signed constants.                 *)
ASSUME ProgramAssumption ==
  \A a \in DOMAIN Program :
    LET inst == Program[a]
    IN  /\ inst.op \in {"addiu", "ld", "st"} => inst.ra \in Registers
        /\ inst.op \in {"addiu", "ld", "st", "jalr"} => inst.rb \in Registers
        /\ inst.op \in {"addiu", "ld", "st", "call", "branch"} => inst.c \in Int

VARIABLES
  host,        (* where the host stands: "start", "failed", "ready", "set" *)
               (* or "running" while run_loop has control                  *)
  stack_size,  (* vm->stack_size                                           *)
  param_count, (* vm->param_count                                          *)
  thread,      (* vm->threads[0]: entry, sp, sp_end, prev_sp               *)
  regs,        (* the registers                                            *)
  pc,          (* REG_PC                                                   *)
  mem,         (* the words of the guest's memory, and those after it      *)
  fetched,     (* the parameters the system call just made has read        *)
  (* History of what happened, for the properties only.                    *)
  given,       (* what the host pushed since it set up the thread          *)
  frames,      (* the calls of this run that have not returned             *)
  ended        (* how the last run ended, or that one has overflowed       *)

machine == <<regs, pc, mem>>
history == <<given, frames, ended>>
vars == <<host, stack_size, param_count, thread, regs, pc, mem, fetched,
          given, frames, ended>>

At(a) == mem[a % WORD]

-----------------------------------------------------------------------------
(* The host's calls.                                                       *)

Init ==
  /\ host = "start" /\ stack_size = 0 /\ param_count = 0
  /\ thread = [entry |-> 0, sp |-> 0, sp_end |-> 0, prev_sp |-> 0]
  /\ regs = [r \in Registers |-> 0] /\ pc = 0
  /\ \E j \in Junk : mem = [a \in Word |-> j]
  /\ fetched = <<>> /\ given = <<>> /\ frames = <<>> /\ ended = "no"

(* The sanity check of vm_create; the product is an u32_t.                 *)
TooSmall(s) == (s * 2) % WORD < HOLE

VmCreate(s) ==
  /\ host = "start"
  /\ ~ TooSmall(s)
  /\ stack_size' = s
  /\ host' = "ready"
  /\ UNCHANGED <<param_count, thread, machine, fetched, history>>

(* The stack is too small, or the file cannot be opened or loaded, or      *)
(* there is no memory: the host gets NULL.                                 *)
VmCreateFails ==
  /\ host = "start"
  /\ host' = "failed"
  /\ UNCHANGED <<stack_size, param_count, thread, machine, fetched, history>>

(* Seeded fault: the floor of the stack is computed in signed numbers.     *)
CreateMainThreadSigned(func) ==
  /\ host \in {"ready", "set"}
  /\ host' = "set"
  /\ thread' = [thread EXCEPT
                  !.entry  = IF func = 0 THEN Entry ELSE func,
                  !.sp     = (MemSize - HOLE) % WORD,
                  !.sp_end = MemSize - stack_size]
  /\ given' = <<>>
  /\ UNCHANGED <<stack_size, param_count, machine, fetched, frames, ended>>

(* vm_create_main_thread and the vm_thread_init it calls, for thread 0.    *)
(* param_count and prev_sp keep what they had.                             *)
CreateMainThread(func) ==
  /\ host \in {"ready", "set"}
  /\ host' = "set"
  /\ thread' = [thread EXCEPT
                  !.entry  = IF func = 0 THEN Entry ELSE func,
                  !.sp     = (MemSize - HOLE) % WORD,
                  !.sp_end = (MemSize - stack_size) % WORD]
  /\ given' = <<>>
  /\ UNCHANGED <<stack_size, param_count, machine, fetched, frames, ended>>

(* vm_push_main_thread_param.  Every parameter is also stored on the       *)
(* stack, from sp upwards; HOLE of them fit below the end of the memory.   *)
PushParam(param) ==
  /\ host \in {"ready", "set"}
  /\ param_count < HOLE
  /\ regs' = [regs EXCEPT ![R4] = IF param_count = 0 THEN param ELSE @,
                          ![R5] = IF param_count = 1 THEN param ELSE @]
  /\ mem' = [mem EXCEPT ![(thread.sp + param_count) % WORD] = param]
  /\ param_count' = param_count + 1
  /\ given' = Append(given, param)
  /\ UNCHANGED <<host, stack_size, thread, pc, fetched, frames, ended>>

(* vm_start: run_loop loads PC and SP, and nothing else.                   *)
VmStart ==
  /\ host = "set"
  /\ host' = "running"
  /\ pc' = thread.entry
  /\ regs' = [regs EXCEPT ![SP] = thread.sp]
  /\ frames' = << [ret |-> 0, sp |-> thread.sp,
                   args |-> <<regs[R4], regs[R5], At(thread.sp + 2)>>] >>
  /\ UNCHANGED <<stack_size, param_count, thread, mem, fetched, given, ended>>

-----------------------------------------------------------------------------
(* The run loop.                                                           *)

(* What is remembered of how the runs ended.                               *)
Remember(how) == ended' = IF ended = "overflow" THEN ended ELSE how

(* Seeded faults: vm_start leaves param_count; the stack is not checked.   *)
RunEndsKeepsCount(how) ==
  /\ host' = "set"
  /\ UNCHANGED param_count
  /\ given' = <<>>
  /\ Remember(how)

NeverOverflowed == FALSE

(* The return of run_loop into vm_start.                                   *)
RunEnds(how) ==
  /\ host' = "set"
  /\ param_count' = 0
  /\ given' = <<>>
  /\ Remember(how)

(* The check in front of every instruction.                                *)
Overflowed == regs[SP] <= thread.sp_end

StackOverflow ==
  /\ host = "running"
  /\ Overflowed
  /\ pc' = (pc + 1) % WORD
  /\ RunEnds("overflow")
  /\ frames' = <<>> /\ fetched' = <<>>
  /\ UNCHANGED <<stack_size, thread, regs, mem>>

(* The instruction at PC.  What is no code of the guest's decodes as one   *)
(* the loop reports as unknown and passes over.                            *)
Inst == IF pc \in DOMAIN Program THEN Program[pc] ELSE [op |-> "nop"]

Executes(op) == host = "running" /\ ~ Overflowed /\ Inst.op = op

(* Seeded fault: PC = 0 ends nothing.                                      *)
ContinueForever(target) ==
  /\ pc' = target % WORD
  /\ UNCHANGED <<host, param_count, given, ended, stack_size>>

(* PC after the instruction; PC = 0 is what ends a run.                    *)
Continue(target) ==
  /\ pc' = target % WORD
  /\ IF pc' = 0 THEN RunEnds("returned")
                ELSE UNCHANGED <<host, param_count, given, ended>>
  /\ UNCHANGED stack_size

Nop ==
  /\ Executes("nop")
  /\ Continue(pc + 1)
  /\ fetched' = <<>>
  /\ UNCHANGED <<thread, regs, mem, frames>>

AddImmediate ==
  /\ Executes("addiu")
  /\ regs' = [regs EXCEPT ![Inst.ra] = (regs[Inst.rb] + Inst.c) % WORD]
  /\ Continue(pc + 1)
  /\ fetched' = <<>>
  /\ UNCHANGED <<thread, mem, frames>>

Load ==
  /\ Executes("ld")
  /\ regs' = [regs EXCEPT ![Inst.ra] = At(regs[Inst.rb] + Inst.c)]
  /\ Continue(pc + 1)
  /\ fetched' = <<>>
  /\ UNCHANGED <<thread, mem, frames>>

(* Any register can hold the address.                                      *)
Address == (regs[Inst.rb] + Inst.c) % WORD

Store ==
  /\ Executes("st")
  /\ mem' = [mem EXCEPT ![Address] = regs[Inst.ra]]
  /\ Continue(pc + 1)
  /\ fetched' = <<>>
  /\ UNCHANGED <<thread, regs, frames>>

(* BEQ, BNE and the jumps on the status word: taken or not.                *)
Branch ==
  /\ Executes("branch")
  /\ \E target \in {pc + 1, pc + 1 + Inst.c} : Continue(target)
  /\ fetched' = <<>>
  /\ UNCHANGED <<thread, regs, mem, frames>>

(* What every call leaves behind: LR, and in prev_sp the stack pointer of  *)
(* the caller, from which a system call counts its parameters.             *)
Link ==
  /\ regs' = [regs EXCEPT ![LR] = (pc + 1) % WORD]
  /\ thread' = [thread EXCEPT !.prev_sp = regs[SP]]

EnterFrame ==
  frames' = << [ret  |-> (pc + 1) % WORD, sp |-> regs[SP],
                args |-> <<regs[R4], regs[R5], At(regs[SP] + 2)>>] >> \o frames

(* BAL and JSUB.                                                           *)
Call ==
  /\ Executes("call")
  /\ Link
  /\ EnterFrame
  /\ Continue(pc + 1 + Inst.c)
  /\ fetched' = <<>>
  /\ UNCHANGED mem

(* Seeded fault: the return address is not saved before PC is overwritten. *)
CallRegisterLate ==
  /\ Executes("jalr")
  /\ regs' = [regs EXCEPT ![LR] = regs[Inst.rb]]
  /\ thread' = [thread EXCEPT !.prev_sp = regs[SP]]
  /\ EnterFrame
  /\ Continue(regs[Inst.rb])
  /\ fetched' = <<>>
  /\ UNCHANGED mem

(* JALR.                                                                   *)
CallRegister ==
  /\ Executes("jalr")
  /\ Link
  /\ EnterFrame
  /\ Continue(regs[Inst.rb])
  /\ fetched' = <<>>
  /\ UNCHANGED mem

Ret ==
  /\ Executes("ret")
  /\ frames' = SubSeq(frames, 2, Len(frames))
  /\ Continue(regs[LR])
  /\ fetched' = <<>>
  /\ UNCHANGED <<thread, regs, mem>>

(* Seeded fault: the words on the stack are counted from SP itself.        *)
ParamFromSp(n) ==
  CASE n = 1 -> regs[R4]
    [] n = 2 -> regs[R5]
    [] n > 2 -> At(regs[SP] + 1 + (n - 2))

(* abi_func_param_n.                                                       *)
Param(n) ==
  CASE n = 1 -> regs[R4]
    [] n = 2 -> regs[R5]
    [] n > 2 -> At(thread.prev_sp + 1 + (n - 2))

(* SSC: the handler reads up to three parameters and leaves its result in  *)
(* r3, abi_func_set_return.  What it does for the guest is not modelled.   *)
SystemCall ==
  /\ Executes("ssc")
  /\ fetched' = <<Param(1), Param(2), Param(3)>>
  /\ \E ret \in Results : regs' = [regs EXCEPT ![R3] = ret]
  /\ Continue(pc + 1)
  /\ UNCHANGED <<thread, mem, frames>>

-----------------------------------------------------------------------------
Step ==
  \/ StackOverflow
  \/ Nop \/ AddImmediate \/ Load \/ Store \/ Branch
  \/ Call \/ CallRegister \/ Ret \/ SystemCall

HostCalls ==
  \/ \E s \in StackSizes : VmCreate(s)
  \/ VmCreateFails
  \/ \E func \in Functions : CreateMainThread(func)
  \/ \E param \in Params : PushParam(param)
  \/ VmStart

(* A host that calls in the order README.md and sim.c show: it pushes the  *)
(* parameters of a run after it has set the thread up for that run.  Like  *)
(* sim.c it does not look at what vm_start returns.                        *)
OrderlyCalls ==
  \/ \E s \in StackSizes : VmCreate(s)
  \/ VmCreateFails
  \/ param_count = 0 /\ \E func \in Functions : CreateMainThread(func)
  \/ host = "set" /\ \E param \in Params : PushParam(param)
  \/ VmStart

Next == OrderlyCalls \/ Step

Spec == Init /\ [][Next]_vars

(* A run goes on by itself: run_loop waits for nothing.                    *)
FairSpec == Spec /\ WF_vars(Step)

(* Any host: nothing in vm.c asks for an order.                            *)
AnyHostSpec == Init /\ [][HostCalls \/ Step]_vars

-----------------------------------------------------------------------------
(* Type invariant: registers and addresses are words, and the parameters   *)
(* that wait for a run are at most the HOLE words kept for them.           *)
TypeOK ==
  /\ host \in {"start", "failed", "ready", "set", "running"}
  /\ stack_size \in Word
  /\ param_count \in 0 .. HOLE
  /\ thread \in [entry : Word, sp : Word, sp_end : Word, prev_sp : Word]
  /\ regs \in [Registers -> Word]
  /\ pc \in Word
  /\ mem \in [Word -> Word]

(* A function the host runs finds the parameters the host pushed for this  *)
(* run, in their order: the first two in r4 and r5 and all of them on the  *)
(* stack from SP upwards, and none left over from an earlier run.          *)
HostParamsArrive ==
  [][VmStart =>
       /\ Len(given) >= 1 => regs'[R4] = given[1]
       /\ Len(given) >= 2 => regs'[R5] = given[2]
       /\ \A i \in 1 .. Len(given) : mem'[(regs'[SP] + i - 1) % WORD] = given[i]]_vars

(* As long as no run of the machine has overflowed its stack:              *)

(* A system call reads the parameters its caller passed, the third from    *)
(* the caller's stack, though the run-time library's stub has moved SP.    *)
SystemCallSeesArguments ==
  [][SystemCall /\ ended # "overflow" => frames # <<>> /\ fetched' = frames[1].args]_vars

(* Every return goes to the call it belongs to, and the return of the      *)
(* function the host asked for, and no other, ends the run.                *)
ReturnsToItsCall ==
  [][Ret /\ ended # "overflow" => frames # <<>> /\ pc' = frames[1].ret]_vars

(* What a function stores on the stack, in its frame or its caller's, lies *)
(* above the end of the stack and in the memory of the machine: the check  *)
(* of the stack catches a frame that goes too deep, or wraps, before       *)
(* anything is stored in it.                                               *)
StackStaysAboveFloor ==
  [][Store /\ Inst.rb = SP /\ ended # "overflow" =>
       thread.sp_end < Address /\ Address < MemSize]_vars

(* Every run of a guest without endless loops ends: a recursion that does  *)
(* not is ended by the stack check.                                        *)
EveryRunEnds == (host = "running" /\ ended # "overflow") ~> host = "set"

(* The same of the returns on a machine whose stack has overflowed: sim.c  *)
(* goes on as if vm_start had returned.  It does not hold: run_loop leaves *)
(* LR as it is.                                                            *)
EveryReturnGoesToItsCall == [][Ret => frames # <<>> /\ pc' = frames[1].ret]_vars
==============================================================================
