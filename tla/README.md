# Verification of CVM

TLA+ modules, TLC runs and TLAPS proofs about CVM, a virtual machine for C
programs: a host process (`simulator/`) interprets a program compiled for the
CPU0 architecture and linked with a small run-time library (`rtlib/`).
`PROJECT.json` lists the components, the runs with their mutants, the lines of
the code each definition models, what was found, the hazards and the theorems.

## 1. The system

| Component | Code | State | Operations | Correct when |
|---|---|---|---|---|
| host interface | `simulator/vm.c`, `sim.c` | `vm_t`: entry, stack_size, param_count, `threads[0]` | `vm_create`, `vm_create_main_thread`, `vm_push_main_thread_param`, `vm_start`, `abi_func_*` | a function run by the host gets the parameters pushed for it, and its return ends the run |
| run loop, control | `simulator/cpu.c` | PC, LR, SP, `prev_sp`, guest memory | one instruction per turn | returns go to their calls, the stack check stops runaway recursion before anything is overwritten, every run ends |
| run loop, arithmetic | `simulator/cpu.c`, `cpu.h`, `inst.h` | registers, status word, HI/LO | data instructions | jumps follow the comparison before them, division and shifts are those of C |
| system calls | `simulator/api/*`, `rtlib/libs/{file,brk,printf,std}.c` | break, descriptors of the host, a buffer | `printf brk sbrk open read write close lseek time` | parameters and results arrive; the break stays below the stacks; a file changes only through a descriptor opened for it, or left open for it by the host; what is printed is what the format means |
| guest allocator, set-up | `rtlib/libs/mem.c`, `brk.c` | pool descriptors | `mem_init`, `pool_create` | the pool lies in what `sbrk` gave |
| guest allocator, buckets | `rtlib/libs/mem.c` | nine free lists with counters | `malloc`, `free` and the split and merge under them | blocks never overlap, no byte is lost, requests are refused only for want of memory |
| loader | `simulator/elf_load.c`, `vm.c` | guest memory, break, symbols, what the process has open and allocated | `vm_create`, `load_elf`, `elf_resolve` | segments lie where the program expects them, below the break; a failure costs what it must; a function the program does not have is refused |
| MD5 | `vapps/md5.c` | buffer, state, bit count | `MD5Init/Update/Final` | the digest does not depend on how the input was cut |
| compiler, make files | `compiler/` | - | - | prebuilt binaries, not part of the program |

How they interact: the host creates a machine, which loads an ELF file; for
each guest function it sets up thread 0, pushes parameters and calls
`vm_start`, which returns when the guest's function does. The guest calls its
run-time library; a library stub executes `SSC n`, and the run loop calls
`api_func[n]` synchronously, which reads its parameters from registers and from
the caller's stack and leaves the result in r3. `malloc` lives entirely in the
guest and takes its memory from one `sbrk` made by `mem_init`.

What is hard. There is one thread and no persistence, so there are neither interleavings
nor crashes: the difficulties are long sequences of legal calls (allocation patterns, runs
that follow each other on one machine), state left over from an earlier call
(`param_count`, LR, `prev_sp`, the magic number of a freed block), limits (empty buckets,
the end of the stack), boundary values (sizes, unsigned wrap-around) and loops that must
end although they rewrite what they walk over. What fails is the host system: an open, an
allocation or a read may, at any step of making a machine.

## 2. Modules

**SizeClass** - the size arithmetic of `pool_malloc` as operators: `ObjSize`, `Padded`,
`BucketOf`, `PagesOf`. Powers of two replace the bit masks. `MCSizeClass` tries the
request sizes one after the other (`tried`); how many buckets there are is its constant
`Buckets`.

**BuddyPool** - `pool_create`'s result, `pool_malloc`, `pool_free`,
`pool_pull_upper`, `pool_try_shrink`, `pool_add_free`, `pool_alloc_continues`.
A free list is kept in address order by every operation on it, so it is a set
of addresses: the head is the least member, the successor the least member
above. `free_n`, the counter the code decides by, is a variable of its own.
A call takes several steps (`pc`, with the locals `req want lvl cur`): one per
level of the recursion of `pool_pull_upper`, one per turn of the loop in
`pool_try_shrink`. `live` holds the headers `<<address, idx, count>>` of the
blocks handed out, which is what `pool_free` reads back.

**HeapSpec** - what a heap promises: a request is answered by an extent that is
long enough, inside the arena and disjoint from all others, or refused; an
extent stays until it is released. `BuddyPool!Heap` maps `owned` to the blocks in
`live` and `pending` to the request of the running call; `ImplementsHeap` says
that BuddyPool refines it.

**BuddyPoolProofs**, **GuestMallocProofs**, **GuestFilesProofs**, **LoaderProofs**,
**RunLoopProofs**, **AluProofs**, **Md5StreamProofs**, **PrintfProofs** - the proofs about
the modules they are named after; BuddyPoolProofs holds those of SizeClass and FreeList
too, GuestMallocProofs those of GuestHeap, RunLoopProofs what follows for the guests of
GuestLayout (section 5).

**GuestHeap** - the program break and the set-up of the allocator: `cpu0_sbrk`,
`cpu0_brk`, `mem_init`, `pool_create`. `brk` is the 64 bit pointer the host keeps,
`Break` the 32 bits the guest sees of it. `sbrk` refuses by the one comparison of the
code, which involves the host's address of the memory: breaks beyond the memory, beyond
the last address and round to low ones are all reached. `extents` is history: the pieces of
memory the guest got by raising the break and has not given up by lowering it.
`wrapped` is history too: `sbrk` has taken the guest's break past address 0, after which
low memory is handed out again and nothing more is claimed of the extents. `pool` is
what `mem_pool_gs` points at; its pages are where BuddyPool starts.

**FreeList** - EXTENDS BuddyPool with the links in memory: `head[k]` is the first block of
a list, and every place of the pool has a word (the link of a free block, or idx and count
of its header) and a mark for the magic number behind it. A long of the guest has four
bytes, so a link takes the place of idx and count and leaves the magic number.
`pool_add_free`, `pool_alloc_continues` and the loop of `pool_try_shrink` walk and rewrite
links as the code does, `prev` being the place of a link. Their loops are an `Iterate` of
one turn, for as many rounds as there are places, which is proved to be enough. The code
keeps no sets: in `LinkedSpec` BuddyPool's `free` is history, what a walk along the links
finds after a step, and no step decides by it. `pool_free` decides by the header it reads;
callers free what they hold. `ImplementsPool` says that each step of `LinkedSpec` is a
step of BuddyPool, so what is proved and checked there about the lists holds of the links,
and calls come to an end as they do there.

**GuestMalloc** - EXTENDS GuestHeap with the pages of the pool on it: `malloc` and
`free` of whole pages while `mem_init`, `sbrk` and `brk` are called in any order.
`held` are the blocks handed out, `free` the list of the last pool, into which
blocks of earlier ones go back. `kept` and `astray` are history. The allocator is astray
once it has written, or may let callers write, where it must not: the break has fallen
below the memory of a pool or passed address 0, a pool was made in which no page fits or
that ends beyond the memory, or a block was freed while there was no pool (`free`, unlike
`malloc`, does not ask). These steps are all in the model; guests leave the allocator
alone after them.

**Loader** - `vm_create`, `load_elf`, `elf_resolve` and the host's preparation of a
thread, for names the program has and has not. One step per open, allocation, read and
segment, each of which may fail. `heap` and `open` are what the process has not given
back, labelled with the call that got it. A byte of `ram` is the byte of the segment it
was read from, or `Junk`.

**GuestFiles** - the stubs of the run-time library, the table they go through and
the handlers; `files`, `perms` and `fds` are the host system's (external, `Sys*`).
`Inherited` are the descriptors that are open before the guest calls anything: those of
the host's process and that of the program's file, which `vm_create` opens for reading and
writing and closes only when it fails. A terminal is taken for a file. `opened` is what the
guest has opened and not closed, `inherited` which of the others it has left open. A
handler that reads an uninitialised result may skip the call or make it. `SscLseek` is a
guest that executes the number of lseek itself.

**Printf** - `cpu0_printf`. A format is the memory from its first character on, an
argument the characters it prints as. `Meaning` says what should be printed: the
format is read in rounds, one character or conversion each, until a round reads
nothing more; no buffer, count or cursor of the code occurs in it. `Unfinished` marks
the formats whose last percent sign swallows the NUL, for which nothing is promised.

**Alu** - the data instructions on registers of `BITS` bits; C's bitwise operators are
parameters. The status word is general register 15, as in `cpu_init`: any instruction may
read or write it, and N, Z and V are bits of it. A write to PC through the coprocessor is
a jump, reading it gives any word. `last`, `compared`,
`multiplied` and `divided` are history: the operands of what was computed last,
which the properties hold the registers and the status word against; a write to register
15 ends what a comparison is held to. A division the host's processor refuses ends the
process.

**Md5Stream** - `MD5Init`, `MD5Update`, `MD5Final`, the encoding of the bit count.
`MD5Transform` is left uninterpreted, its 64 steps are not translated: the state is the
sequence of bytes it was fed, to which a block is added as md5.c:177-180 add to `state`.
The message is made of numbered bytes, so any byte lost or repeated shows; `Padded` is the
definition of RFC 1321, written without the code's arithmetic.

**RunLoop** - the host's calls and the run loop. Addresses count words of four
bytes and wrap at `WORD`, as the u32 registers do. The guest is a function
`Program` from addresses to instructions; TLC's guest is in `MCRunLoop`: a
recursive `main` with a frame of four words, which stores in its frame, its caller's and
its data and calls directly or through a register, and a system call stub with a
frame of one, as the compiler lays them out. A conditional branch goes either
way, which stands for all data. `given`, `frames` and `ended` are history: what
the host pushed, the calls that have not returned, how the last run ended, or that one
has overflowed, which is remembered. `fetched` is what a system call read.

**GuestLayout** - a hypothesis about programs, not a part of the code: the conventions the
compiler's code keeps and the run loop relies on, stated as a verifier of code would
check them. `Layout` says of each instruction that is reached what is known in front of it
(how many words the function has taken from the stack, where its return address is saved,
whether LR holds it, whether the arguments are still in place), and `Keeps` that every
instruction leaves what the next one needs: a function gives back what it took and
returns by the address it was called with, a call saves LR first. Stores go to the
function's own frame, to its parameters in the caller's, or through another register to
wherever it points. Where that is cannot be read off a program, so it is said of its runs:
`Behaves`, that pointers spare the words where return addresses are saved and the code, and
that a call through a register is one of a function. `MCLayout` is the layout of TLC's
guest, of which the run `run_loop` checks `Behaves`. Branches go anywhere within these
limits, and recursion is as deep as it likes.

Modules `MC*` only give constants values. Invariants are conjunctions of named parts
where the parts are about the same state: `RequestHeld` (size arithmetic), `ListInv`
(FreeList), `PoolSetUp` (GuestHeap), `ContextInv` (Md5Stream), `HiLoInv` and `ValueInv`
(Alu), `BufferInv` (Printf), `ResourceInv` and `ProgramInv` (Loader), `FileInv`
(GuestFiles). Every part has a mutant of its own. The operators marked "Seeded fault"
beside a definition are not part of the model: each is a wrong version of that
definition, used to see that the property it is listed with in `PROJECT.json`
would notice.

## 3. Runs

| Run | Question | Bounds |
|---|---|---|
| `pool_small` | all allocator properties and the refinement of HeapSpec | 3 buckets (16, 32, 64 bytes), 3 pages, sizes 0, 8, 70: nothing, the smallest bucket, two pages; `SHRINK_THD` 1 |
| `free_list` | do the links implement BuddyPool, do headers stay | 2 buckets, 4 pages, sizes 0, 8, 20, 40, `SHRINK_THD` 3 |
| `size_classes` | the size arithmetic, real constants | every size 1..9000: all nine buckets, and one to three pages |
| `guest_heap` | is memory handed out twice, does a pool stay in its extent, do pools that follow each other keep apart | 44 addresses, 36 bytes of memory, pages of 4, descriptors of 3 bytes; increments of 7 and -7; breaks moved to 6 and refused at 40; sizes of 0, -7, two pages with and without 3 bytes more, five pages and one byte; blocks of one and two pages; `MaxBreak` 70 |
| `guest_heap_stacks` | does the heap stay below the stacks? No | as above, without the allocator |
| `run_loop` | parameters, returns, stack, termination | 40 words of memory, 64 addresses, stacks of 1, 2, 12, 50 words, HOLE 3, two parameter values; frames of at most 4 words, 24 instructions |
| `run_loop_reuse` | do returns go to their calls when the host goes on after an overflow? No | as above |
| `md5_stream` | is the digest that of the message, however it is cut | blocks of 8 bytes, a count of 2 bytes, pieces of 0, 1, 3, 8, 13, 33, messages up to 70 bytes, any number of them on one context |
| `alu` | comparison, division, products, shifts, immediates | words of 4 bits, two registers and the status word: every pair of values; every instruction after every other |
| `printf` | is the output the beginning of what is meant, does the loop end, where does the terminator go | a buffer of 4, every format of up to 5 characters, arguments of 0, 1, 3, 4 and 6 characters |
| `loader` | memory, descriptors, image, break, end of every call | 7 programs, 2 calls, 12 bytes of memory, descriptors 0 and 1, a stack refused and one accepted |
| `guest_files` | handles, access and positions | 3 descriptors, of which two are open at first, one for reading and one for both; 2 names, 4 calls, files of up to 4 bytes, flags without access, for reading, for writing and for both with creation |

Why the bounds are enough. In the pool, what can go wrong involves a block, its
neighbours, and the bucket above and below; three buckets give a middle one that is split
into and merged out of at the same time, and pages of four blocks give neighbours that are
no buddies (the half-aligned merges that `HalfAligned` is about happen there). Three pages
are the fewest from which two are handed out together, since the search wants one page
more than asked for. `SHRINK_THD` 1 instead of 16 lets merging happen with a handful of
blocks; the proofs hold for any. Block addresses start at 128, a multiple of every block
size as `pool_create` arranges. In `guest_heap` breaks fall on a page boundary and at
several distances from one, so pools start at such distances too, up to two of them with
blocks of both exist at the same time, and sizes are refused between them. `MaxBreak` lets
the 64 bit break go past the memory, past the guest's 32 bits and on through low
addresses, by rises and by negative increments, and the memory of the host starts at
`WORD` so that the only condition under which `sbrk` ever fails is reached as well. In
Md5Stream the low half of the count wraps twice in 70 bytes, and a piece of 33 bytes is
longer than it can count, which are the code's carry and its `inputlen >> 29`; the pieces
reach every index in the buffer, with the padding in this block and in the next. In the
run loop a stack of 12 words holds two frames of `main` and overflows in the third; 1 is
refused by `vm_create`, 2 lets SP pass the floor in one frame, and 50 is larger than the
memory, so that the end of the stack wraps. At most HOLE parameters are pushed: what lies
above them is memory of the host.

In FreeList two buckets with a threshold of 3 let lists of several blocks form
before they are merged, and four pages make runs of pages of different lengths;
more buckets or pages multiply the contents of memory beyond what TLC finishes, and
the levels are what `pool_small`, whose steps these are, has more of. In Loader
two calls let a failed one come before or after a successful one, on
descriptors that run out; each program differs from the first in one respect
(no symbols, too large for the stack, too large for the memory, no segment, no
alignment, an entry that reads as a failure). In GuestFiles four calls are
an open, a close, another open and one use of what it gave; three descriptors are
enough for one that is reused, one of the host's that is closed and given out again, and
one that stays. In Printf the buffer of 4 is exceeded by one argument, by
several together, and met exactly; formats of 5 hold two conversions and
a percent sign left over. In Alu words of four bits have every pair of
values, the least int and every shift count from 0 to beyond the width, and no
instruction treats a bit differently because of its number but the sign bit.

The host's calls. `OrderlyCalls` is the order of README.md and `sim.c`: set up the thread,
push, start, again and again, without a look at what `vm_start` returns. Nothing in `vm.c`
enforces it; `HostParamsArrive` depends on it. The properties about a guest's stack and
returns speak of a machine of which no run has overflowed yet; `run_loop_reuse` shows what
becomes of the others. Callers of `free` pass what `malloc` returned, once. A context of
MD5 goes through Init, Updates, Final.

Fairness. `WF_vars(Running)` in BuddyPool, `WF_vars(Step)` in RunLoop and Loader and
`WF_vars(Next)` in Printf, which models one call: the code
is one thread of straight calls that waits for nothing, so a call or run that
has begun takes its next step. Nothing is assumed of callers: no call need ever
be made. `CHECK_DEADLOCK FALSE` stands in the runs of RunLoop, where a failed
`vm_create` ends everything, in `size_classes`, which counts to its bound, in those
of Printf, where the call is done, and in those of Alu, Loader and GuestFiles, which
stop at the bound of their calls or instructions.

## 4. What the runs show

Everything checked in the passing runs holds. `HalfAligned` is the property worth
a note: `pool_try_shrink` masks with the block size instead of the pair's, merges
pairs that are not buddies, and so produces blocks aligned to half their size;
the run shows that it stays at half, and the other invariants that nothing
overlaps or gets lost by it.

`HeapAccounted` and `DescriptorsAccounted`, the parts of `ResourceInv`, say exactly what a
failed `vm_create` costs: the guest's memory, the tables of symbols, and descriptor 0 if
it got that. `WritesNeedAHandle` holds although `lseek` writes, because it writes through
the descriptor it is given; the program's own file is among those a guest can change.
`PrintsAPrefix` holds although printing stops early.

`ComparisonDecides` and `ProductInHiLo` hold for the values they are stated for:
differences that are ints, products that fit one register.

Two disagreements between the code and what the repository says of it have a run
that ends in a counterexample (`PROJECT.json`, `findings`):

| Where | Run | What |
|---|---|---|
| cpu.c:23 | `run_loop_reuse` | LR is not reset: after a stack overflow the next function's return does not end its run |
| brk.c:35 | `guest_heap_stacks` | nothing reserves the stacks: the heap grows into them, and would with a relative comparison too |

Others are built into the definitions as the code has them, with no run of their
own; the definition named is where a reader finds each:

- `pool_alloc_continues` wants one more adjacent page than requested, mem.c:15
  (`BuddyPool!Runs`, `FreeList!Continues`);
- `sbrk` compares an absolute end with a relative break, so what it hands out may lie beyond
  the end of the memory, brk.c:35 (`GuestHeap!SbrkFails`);
- a pool is made of memory in which no page fits, with a page at its head that was never
  linked, mem.c:160 (`GuestHeap!PoolCreate`, `Linked`);
- the link of four bytes leaves the magic number, so a second `free` of a block is not
  refused, mem.c:272 (`FreeList!SetLink`, `LinkedFree`);
- a `mem_init` whose size `pool_create` refuses takes the pool away, mem.c:311, and `free`
  goes on without one, mem.c:326 (`GuestMalloc!InitPool`, `Free`);
- the break goes round the guest's 32 bits, brk.c:42 (`GuestHeap!MoveBreak`, `wrapped`);
- stacks from 128 bytes are accepted where the message says 1024, vm.c:136
  (`RunLoop!VmCreate`), and `prev_sp` is not set before a run, cpu.c:24;
- a program may lie in the stack, elf_load.c:49; the break follows the last segment, elf_load.c:63;
  .bss is not cleared, elf_load.c:55 (Loader);
- CLZ is always 0 and CLO the lowest bit, cpu.c:165 (`Alu!CLZ32`, `Alu!CLO32`);
  MULT and MULTU lose the upper half of large products, cpu.c:277
  (`Alu!Multiply`); CMP misjudges values far apart, cpu.c:133 (`Alu!Compare`);
- printf stops after the first piece of its format, printf.c:25 (`Printf!Goes`);
- a function the program does not have gets a thread at address -1, and no test of `sim.c`
  sees it, vm.c:177 (`Loader!Resolve`, `Prepare`);
- `lseek` of the library issues the number of write and changes the file, rtlib file.c:41
  (`GuestFiles!lseek`);
- a valid open may not be made, api/file.c:48, and the program's file stays open for
  writing, vm.c:128 (`GuestFiles!cpu0_open`, `Inherited`).

## 5. What is proved

Every theorem holds for all values of the constants that the named assumptions of
its module allow; TLC evaluates the assumptions in the runs.

| Module | Theorem | Statement |
|---|---|---|
| BuddyPoolProofs | `TypesHold` | counters never go below zero, locals keep their types |
| | `NeverOverlaps` | no byte is in two blocks |
| | `NothingLost` | every byte is in some block, every block in the pool |
| | `CountersAreLengths` | `free_n` is the length of the list |
| | `ShrinkIsThorough` | no mergeable pair remains in a bucket a call has been through |
| | `RefusalIsHonest` | a small request is refused only when no bucket could serve it |
| | `AlignedToHalf` | merging by the short mask never aligns a block to less than half its size |
| | `PoolIsAHeap` | BuddyPool implements HeapSpec |
| | `ListsStayLists` | every list in memory is the free blocks of its bucket in ascending order, links and headers lie where no block overwrites them |
| | `HeadersStay` | the header of a block in use stays what `pool_malloc` wrote, whatever happens around it |
| | `LinksImplementSets` | FreeList implements BuddyPool |
| | `LinksAreAHeap` | FreeList implements HeapSpec, for callers that free what they hold |
| | `RequestsHeld` | a request gets the smallest bucket, or the fewest pages, that hold it |
| | `SmallRequestHeld`, `LargeRequestHeld` | the same of one request, for any number of buckets and any page |
| GuestMallocProofs | `HeapTypeOK` | extents and pools are described by addresses of 32 bits, wherever the host's break is |
| | `HeapExtentsApart` | `sbrk` hands out nothing the guest still owns, until the break has passed address 0 |
| | `HeapPoolSetUp` | a pool lies in memory of its own and has a page where two were asked for |
| | `MallocImplementsHeap`, `MallocKeepsHeap` | GuestMalloc implements GuestHeap, so the three above hold of it |
| | `MallocBlocksApart` | blocks of all the pools there ever were keep apart, until the allocator is astray |
| | `MallocPagesKept` | no page of the pool in use is lost, until then |
| GuestFilesProofs | `FilesInvariant` | the host's open files are the guest's handles, as they were asked for, and those the process had before |
| | `ChangesNeedAHandle` | a file changes only through a descriptor opened, or left open, for writing |
| | `SeekGoesWhereAsked` | `lseek` by its own number goes where `whence` says |
| LoaderProofs | `ResourcesAccounted` | what a failed `vm_create` costs, at whichever step it fails |
| | `ProgramsInPlace` | segments lie where the program expects them, below the break |
| RunLoopProofs | `TypesHold`, `AnyHostTypes` | registers, addresses and memory are words, in whatever order the host calls |
| | `ParamsArrive` | a function finds the parameters pushed for it |
| | `ReturnsMatchCalls` | every return of a guest that keeps the conventions goes to its call, and the outermost ends the run, until a run has overflowed |
| | `SystemCallsSeeArguments` | a system call of such a guest reads the arguments its caller passed, until then |
| | `FloorHolds` | what the functions of such a guest store on the stack lies above its end and in the memory, until then |
| AluProofs | `TypesHold` | what the data instructions leave are words and bytes |
| | `JumpsFollowComparison` | jumps follow the relation of the values last compared, when their difference is an int |
| | `HiLoHolds` | HI and LO hold C's quotient and remainder, or the product |
| | `ValuesHold` | shifts and rotations move every bit where the count says, logical immediates keep the upper half |
| Md5StreamProofs | `CountsTheMessage` | the two halves of the count are the length in bits, only whole blocks are transformed |
| | `NoByteDropped` | however it is cut, the message is what was transformed and what waits |
| | `DigestIsOfMessage` | the digest is that of the message as RFC 1321 pads it |
| PrintfProofs | `BufferHolds` | the buffer is never filled beyond its size; its NUL falls in front of it only if the format means nothing, behind it only if an argument alone is too long |
| | `PrintsTheBeginning` | what is printed is the beginning of what the format means |

### The assumptions

- BuddyPool: `PoolAssumption`, types only, and `AlignAssumption` (`pool_create` puts
  the first page on a multiple of the page size, mem.c:150). That a request's bucket or
  pages exist and hold it is not assumed but derived from the code's arithmetic
  (`RequestFits`).
- FreeList: `LinkAssumption`, that a bucket's number and a count of pages fit the
  `unsigned short` of a header.
- SizeClass, in MCSizeClass: `BucketsAssumption`, there is at least one bucket.
- GuestHeap and GuestMalloc: `HeapAssumption`, types, and that the memory with a page and
  the descriptors behind it fits the guest's 32 bits. The break is not bounded by it.
- GuestFiles: `FilesAssumption`, types only. Loader: `FileAssumption`, that a file is well
  formed (the bytes of a segment fit its place in memory, segments are in the order of
  their addresses), and `LoaderAssumption`, types only.
- RunLoop: `MachineAssumption`, and `ProgramAssumption`: instructions name registers and
  carry numbers. Nothing is assumed of where a program jumps or what it stores. The three
  theorems about guests that keep the conventions also use `LayoutAssumption`, that there
  is a layout every reached instruction keeps, with no system call in a function the host
  runs itself, since `prev_sp` is left over there; `FrameAssumption`, that a function
  takes at most FRAME words at once and these fit below every stack that fits the memory;
  and `[]Behaves`, a hypothesis of the theorems themselves.
- Alu: `WidthAssumption`, `InstructionAssumption` (the fields of an instruction name
  registers, one of the four of the coprocessor, and have the width the encoding gives
  them) and `BitwiseAssumption`, which says bit by bit what C's `&`, `|` and `^` are.
  `MCAlu` gives them as the operators of the community module Bitwise, and TLC finds the
  assumption true of those.
- Md5Stream: `Md5Assumption`, that two halves of the count fit a block and that a half
  counts whole blocks (2^32 bits are 2^23 blocks of 64 bytes).
- Printf: `FormatAssumption`, that the buffer has a character, and that somewhere behind a
  format two NULs follow each other, where a text read across its own NUL ends at last.

### The arguments

**BuddyPool.** The inductive invariant is `PoolInv`. The memory part (`InArena`, `Disjoint`,
`Covered`, `CountersMatch`) is inductive once it is known which block a step
takes: taking a block is only sound when the list has one, which the code knows
from the counter, hence `CountersMatch` among them. Every step moves blocks in
one of three ways, each a lemma about arbitrary lists and headers: n adjacent
free blocks become one block in a caller's hands (`TakeKeepsPartition`), one such
block becomes n free ones (`GiveKeepsPartition`), or a block in hand is called by
another bucket and count of the same bytes (`RenameKeepsPartition`). A split is
take, rename, give; so is a merge. `CallInv` says where a call stands: which
buckets are known to be empty during the recursion, and that the blocks behind
the scan of `pool_try_shrink` do not merge; without it neither
`RefusedOnlyWhenDry` nor `NothingLeftToMerge` is inductive. Merging in bucket k
adds a block to bucket k + 1 only and taking blocks out of a list makes no new
mergeable pair (`NoNewPair`), which is why buckets already scanned stay clean.
For `AlignedToHalf`, a split leaves two blocks at multiples of their own size, and a
pair the mask lets through starts at a multiple of its block's size, which is half
of the merged one's.

**Size arithmetic.** That `2^k` doubles with k is found by counting the subsets of an interval
(`Power(k + 1) = 2 * Power(k)`, where `Power(k)` is the value of `2^k`); induction over
numbers is the existence of a least counterexample (`LeastNatural`). The top bit of a
request is then the one k with `2^k <= n < 2^(k + 1)`.

**FreeList.** `LinkInv`: every list is a chain (`ListIs`: the head is the least address, the
word at an address the next one above, NULL at the last), a block in use has its header
(`HeadersHold`), and during a scan `prev` is the link that leads to `cur` (`PrevLeads`). It is
inductive together with `PoolInv`, from which the blocks' apartness comes: a link written
into a free block can spoil neither another link nor a header. From what one turn of a
loop does (`IterateIs`, the `Walk` lemmas) follow that the walk of `pool_add_free` ends
where the block belongs (`PositionIs`) and that of `pool_alloc_continues` at the first run
long enough, or at the end (`ContinuesIs`), both within `PlaceCount` rounds because
addresses climb. What a step then does to a list is to add blocks (`AddLinked`) or to take
some out (`UnlinkLinked`). A caller that frees what it holds finds its header, so the block
goes back to its bucket; of other frees nothing is claimed.

**GuestHeap and GuestMalloc.** `HeapInv`, the properties together, is inductive once the
cases of a rising and a falling break are told apart modulo the guest's 32 bits
(`RisingBreak`, `FallingBreak`); the step that passes address 0 sets `wrapped`, and from
then on extents are neither got nor given up (`WrappedKeeps`). `MallocInv` adds where
things lie: free pages and blocks, of whatever pool, in extents `mem_init` got and that
are kept, behind the first byte of one (`InKept`: there the descriptors are). That byte is
why a run of adjacent free pages never reaches from one extent into the next
(`RunPlaced`), which a search that knows addresses only cannot see. That no page is both
in the list and held is a conjunct of `BlocksApart`.

**GuestFiles.** `FileInv` is inductive; a position never passes the longest a file may
become, and a descriptor given again is not one that is open, be it the guest's or one
the process had before.

**Loader.** `LoaderInv` has one conjunct per concern: the types, the number of calls against
the machines made, the memory each step of the running call has got so far (`MemoryInv`),
its descriptor (`FdsInv`), and the image as far as segments have been read, with the
break after the last of them (`ImageInv`). Segments in order do not overlap,
so a later read leaves an earlier segment alone.

**RunLoop.** `ParamsInv` says what waits between `vm_push_main_thread_param` and `vm_start`: the
parameters in order above SP, the first two in r4 and r5 as well, and SP where
`vm_create_main_thread` put it. HOLE words above it are the parameters' own and do not wrap.

For a guest that keeps the conventions the invariant is `GuestInv`. It has a function
`base`, the SP each open call started with, which rises from the innermost to the
outermost call and ends at the thread's SP. Of the running function the layout is true in
front of its next instruction (`Known`: SP is its base less its depth, LR or the saved
word holds the return address of its frame, `prev_sp` is its base while the arguments are
in place); of each caller what it needs when the call comes back (`Waits`). A store in the
running frame lies below every caller's base, so it keeps `Waits` (`NearStoreKeeps`); one
through a pointer, or to a parameter in the caller's frame, may change any word but those
that `Waits` and `Known` speak of, the saved return addresses, which is what `Behaves`
says (`FarStoreKeeps`). A return finds `Known` of the caller from its `Waits`. SP may pass
the end of the stack for one instruction only and by FRAME words at most, which does not
wrap (`RoomIs`); every store through SP comes after the check and so above the floor.
Between runs LR is 0, because the outermost return jumped to 0 with it; after an overflow
it is not, and the invariant is lost. What is inductive without a condition on the host is
`UntilOverflow`: `GuestInv`, unless `ended` remembers an overflow.
`EveryReturnGoesToItsCall`, which claims the returns after one too, is false, as
`run_loop_reuse` shows.

**Alu.** A number in a register is known modulo WORD only. What a comparison, a product or
a quotient leaves is right because the value it should have is an int and congruent to
what was computed (`SignedWrap`); that C's quotient of two ints is one, but for the
division that traps, is `DivideSigned`. The inductive invariant `IInv` adds to the
properties what N and Z say of the values compared (`CompareHeld`) and that the last value
is the one of its operands (`ValueHeld`). Shifts are multiplications and divisions by
powers of two, which move bits up and down (`BitsMoveUp`, `BitsMoveDown`); setting V,
which ADD and MUL do, or a bit of a comparison changes no other bit of the status word
(`WithBitIs`); cutting to a word keeps them (`BitsOfWrap`), and a number is told by its
bits (`BitsTell`).

**Md5Stream.** `StreamInv`: the count is `Count(total)`, and what was transformed with what
waits in the buffer is the message. `CountedIs` finds the carry from quotients;
`IndexIs` says that the low half, which forgets the bits above it, still tells the index,
because a half counts whole blocks; `UpdateJoins` is then an identity of sequences;
`PadLenIs` shows that the code's `padlen` is the one number of bytes RFC 1321 allows.

**Printf.** As the loop goes on only while at most nothing was printed, `IInv` says where it
stands by the reading of the format: while n is 0 it is where some number of rounds has
come to without a character (`ReadsAlong`), or behind the NUL of an unfinished format that
means nothing (`PastNul`); once n is positive, what the buffer holds begins the meaning.
Reading goes forward until it settles (`ReadingAdvances`, `ReadingSettles`) and what is read
only grows (`ReadingGrows`), so what any number of rounds gives is a beginning of
`Meaning` (`MeaningIs`). That one turn of the code's loop is one round of reading
(`RoundReads`) is where the parameters meet their conversions.

### Only model-checked

Liveness: `EveryCallReturns`, `EveryRunEnds` and `Ends`, which need fairness and ENABLED.
`Behaves` is a hypothesis about guests, which the run checks of its own. All other
properties of the passing runs are stated by a theorem. The properties of the runs that end
in a violation are false and have none.

## 6. Not modelled, and why

Blocks whose owners overwrite their own header, requests of negative size to `malloc`, what
becomes of the lists after a block has been freed twice, and what the allocator does once it
is astray (section 2): the code does not define what then happens. A pool whose end lies
within the last page of the address space, where the loop of `pool_create` would go on round
address 0. A program that lies in the stack, or a guest whose frame is larger than SP: what
a run of them does depends on every byte. Other threads (nothing creates one), guests that
change their own code, a 65th parameter of the host, system call numbers outside the table,
registers of the coprocessor beyond its four: all reach memory of the host, about which the
code says nothing. `simulator/api/mem.c`, a copy of the allocator that no Makefile builds.
ELF files whose headers
contradict each other. The digits a conversion prints, and the 64 steps of
`MD5Transform` with `MD5Decode`: data without control. `time`, which keeps no
state; make files, the prebuilt compiler and the empty platform files.

## 7. Plan

1. done: the models of every component that keeps state, and their runs.
2. done: the theorems of section 5, for every safety and action property the passing
   runs check, and for the refinements.
3. open: the liveness properties, for which the variants are known (the level of the
   recursion, the blocks left in the scan, the distance to the floor, the rest of the
   format), and a layout of the library functions the compiler produced.
