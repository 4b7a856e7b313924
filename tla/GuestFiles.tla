----------------------------- MODULE GuestFiles ------------------------------
(***************************************************************************)
(* The file calls on both sides: the stubs of rtlib/libs/file.c, the table *)
(* of simulator/api/api.c they are dispatched by, and the handlers of      *)
(* simulator/api/file.c.  Descriptors and files are the host system's.     *)
(*                                                                         *)
(* A guest calls the stubs, or executes SSC with a number of its own.  How *)
(* the parameters get to the handler is the business of RunLoop.           *)
(*                                                                         *)
(* The handlers hand every descriptor on, those among them that the host   *)
(* had before the guest ran: 0 to 2 and, open for reading and writing, the *)
(* file of the program, which vm_create does not close when it succeeds.   *)
(***************************************************************************)
EXTENDS Integers, Sequences, FiniteSetsExt, Functions

CONSTANTS
  Names,       (* the names of files                                       *)
  Existing,    (* those that exist at first                                *)
  Inherited,   (* the descriptors open at first: [file, access, pos]       *)
  Flags,       (* the flags guests open with                               *)
  Sizes, Offsets,  (* the counts and the offsets they pass                 *)
  CELLS,       (* the bytes of the guest's memory                          *)
  MaxFd,       (* the largest descriptor the host may give to its guest    *)
  MaxLength,   (* bound: the length of a file                              *)
  MaxCalls     (* bound: calls made                                        *)

ASSUME FilesAssumption ==
  /\ Existing \subseteq Names
  /\ Flags \subseteq Nat /\ Sizes \subseteq Nat /\ Offsets \subseteq Int
  /\ CELLS \in Nat \ {0} /\ MaxFd \in Nat /\ MaxCalls \in Nat
  /\ MaxLength \in Nat \ {0, 1}
  /\ DOMAIN Inherited \subseteq 0 .. MaxFd
  /\ \A d \in DOMAIN Inherited :
       Inherited[d] \in [file : Existing, access : (SUBSET {"r", "w"}) \ {{}}, pos : 0 .. MaxLength]

VARIABLES
  files,       (* the bytes of the files that exist                        *)
  perms,       (* what their permissions allow: "r", "w"                   *)
  fds,         (* the host's open files: [file, access, pos]               *)
  mem,         (* the guest's memory                                       *)
  ret,         (* r3 after the call                                        *)
  asked,       (* the guest's last call and its parameters                 *)
  opened,      (* what the guest knows to be open: [file, flags]           *)
  inherited,   (* history: descriptors of Inherited the guest left open    *)
  calls        (* calls made                                               *)

vars == <<files, perms, fds, mem, ret, asked, opened, inherited, calls>>

Rights == {"r", "w"}

Init ==
  /\ files = [f \in Existing |-> <<0, 1>>]
  /\ perms = [f \in Existing |-> Rights]
  /\ fds = Inherited /\ inherited = DOMAIN Inherited /\ opened = <<>>
  /\ mem = [a \in 0 .. CELLS - 1 |-> a + 2]
  /\ ret = 0 /\ asked = [fn |-> "none", p |-> <<0, 0, 0>>] /\ calls = 0

-----------------------------------------------------------------------------
(* The host system.                                                        *)

Put(g, k, v) == [x \in DOMAIN g \cup {k} |-> IF x = k THEN v ELSE g[x]]

Fails(r) == ret' = r /\ UNCHANGED <<files, perms, fds, mem>>

(* No mode comes with O_CREAT: the new file has the permissions that the   *)
(* register of the third parameter happens to hold.                        *)
SysOpen(f, access, create) ==
  LET free == (0 .. MaxFd) \ DOMAIN fds
      has  == f \in DOMAIN files
  IN  IF free = {} \/ (~ has /\ ~ create) \/ (has /\ ~ access \subseteq perms[f])
      THEN Fails(-1)
      ELSE /\ ret' = Min(free)
           /\ fds' = Put(fds, ret', [file |-> f, access |-> access, pos |-> 0])
           /\ IF has THEN UNCHANGED <<files, perms>>
              ELSE /\ files' = Put(files, f, <<>>)
                   /\ \E r \in SUBSET Rights : perms' = Put(perms, f, r)
           /\ UNCHANGED mem

InMemory(buf, size) == buf >= 0 /\ buf + size <= CELLS

SysRead(d, buf, size) ==
  IF d \notin DOMAIN fds \/ "r" \notin fds[d].access \/ ~ InMemory(buf, size) THEN Fails(-1)
  ELSE LET bytes == files[fds[d].file]
           left  == Len(bytes) - fds[d].pos
           n     == IF left < 0 THEN 0 ELSE Min({left, size})
       IN  /\ ret' = n
           /\ mem' = [a \in DOMAIN mem |-> IF a - buf \in 0 .. n - 1
                                           THEN bytes[fds[d].pos + a - buf + 1] ELSE mem[a]]
           /\ fds' = [fds EXCEPT ![d].pos = @ + n]
           /\ UNCHANGED <<files, perms>>

SysWrite(d, buf, size) ==
  IF d \notin DOMAIN fds \/ "w" \notin fds[d].access \/ ~ InMemory(buf, size) THEN Fails(-1)
  ELSE LET bytes == files[fds[d].file]
           pos   == fds[d].pos
           len   == IF size = 0 THEN Len(bytes) ELSE Max({Len(bytes), pos + size})
       IN  /\ len <= MaxLength
           /\ ret' = size
           /\ files' = [files EXCEPT ![fds[d].file] =
                [k \in 1 .. len |-> IF k - pos \in 1 .. size THEN mem[buf + k - pos - 1]
                                    ELSE IF k \in DOMAIN bytes THEN bytes[k] ELSE 0]]
           /\ fds' = [fds EXCEPT ![d].pos = @ + size]
           /\ UNCHANGED <<perms, mem>>

SysClose(d) ==
  IF d \notin DOMAIN fds THEN Fails(-1)
  ELSE /\ ret' = 0 /\ fds' = Restrict(fds, DOMAIN fds \ {d})
       /\ UNCHANGED <<files, perms, mem>>

(* What an offset is added to.                                             *)
Base(d, whence) == CASE whence = "SEEK_SET" -> 0
                     [] whence = "SEEK_CUR" -> fds[d].pos
                     [] whence = "SEEK_END" -> Len(files[fds[d].file])

SysLseek(d, offset, whence) ==
  IF d \notin DOMAIN fds THEN Fails(-1)
  ELSE LET at == Base(d, whence) + offset
       IN  IF at < 0 THEN Fails(-1)
           ELSE /\ at <= MaxLength
                /\ ret' = at /\ fds' = [fds EXCEPT ![d].pos = at]
                /\ UNCHANGED <<files, perms, mem>>

-----------------------------------------------------------------------------
(* The handlers.  Flags: F_O_RDONLY 1, F_O_WRONLY 2, F_O_RDWR 3, F_O_CREAT *)
(* 4; the host's are 0, 1 and 2.                                           *)

(* Seeded fault: the guest's flags are handed on, 3 being none of the      *)
(* host's.                                                                 *)
AccessAsGiven(flag) == CASE flag % 4 = 1 -> {"w"} [] flag % 4 = 2 -> Rights
                         [] flag % 4 = 3 -> {} [] flag % 4 = 0 -> {"r"}

Access(flag) == CASE flag % 4 = 1 -> {"r"} [] flag % 4 = 2 -> {"w"}
                  [] flag % 4 = 3 -> Rights [] flag % 4 = 0 -> {}

Creates(flag) == (flag \div 4) % 2 = 1

(* Seeded fault: flags without access are not refused.                     *)
OpenAnyway(f, flag) == SysOpen(f, Access(flag), Creates(flag))

(* ret is set to -1 for flags without access and not at all for others: a  *)
(* negative value it happens to have keeps the file from being opened.     *)
cpu0_open(f, flag) ==
  \/ Access(flag) = {} /\ Fails(-1)
  \/ Access(flag) # {} /\ SysOpen(f, Access(flag), Creates(flag))
  \/ Access(flag) # {} /\ Fails(-2)

cpu0_read(d, buf, size) == SysRead(d, buf, size)

cpu0_write(d, buf, size) == SysWrite(d, buf, size)

(* Seeded fault: descriptor 0 is taken for none.                           *)
CloseAboveZero(d) == IF d = 0 THEN ret' = 0 /\ UNCHANGED <<files, perms, fds, mem>> ELSE SysClose(d)

cpu0_close(d) == SysClose(d)

(* Seeded fault: the numbers of the guest are those of the host.           *)
WhenceAsGiven(w) == <<"SEEK_SET", "SEEK_CUR", "SEEK_END">>[w + 1]

(* F_SEEK_SET 0, F_SEEK_END 1, F_SEEK_CUR 2.                               *)
Whence(w) == <<"SEEK_SET", "SEEK_END", "SEEK_CUR">>[w + 1]

cpu0_lseek(d, offset, w) == SysLseek(d, offset, Whence(w))

(* api_func, from API_ID_PRINTF on.                                        *)
api_func == <<"printf", "brk", "sbrk", "open", "read", "write", "close", "lseek", "time">>

Handle(n, p) ==
  \/ api_func[n] = "open"  /\ cpu0_open(p[1], p[2])
  \/ api_func[n] = "read"  /\ cpu0_read(p[1], p[2], p[3])
  \/ api_func[n] = "write" /\ cpu0_write(p[1], p[2], p[3])
  \/ api_func[n] = "close" /\ cpu0_close(p[1])
  \/ api_func[n] = "lseek" /\ cpu0_lseek(p[1], p[2], p[3])

(* The numbers the stubs of the run-time library issue: that of lseek is   *)
(* API_WRITE.                                                              *)
Number == [open |-> 4, read |-> 5, write |-> 6, close |-> 7, lseek |-> 6]

(* The guest takes note of what it has been told.                          *)
Notes(fn, p) ==
  LET closed == fn = "close" /\ ret' = 0
  IN  /\ opened' = IF fn = "open" /\ ret' >= 0
                   THEN Put(opened, ret', [file |-> p[1], flags |-> p[2]])
                   ELSE IF closed THEN Restrict(opened, DOMAIN opened \ {p[1]}) ELSE opened
      /\ inherited' = IF closed THEN inherited \ {p[1]} ELSE inherited

Issue(n, fn, p) ==
  /\ calls < MaxCalls /\ calls' = calls + 1
  /\ asked' = [fn |-> fn, p |-> p]
  /\ Handle(n, p)
  /\ Notes(fn, p)

Open  == \E f \in Names, flag \in Flags : Issue(Number.open, "open", <<f, flag, 0>>)
ReadF == \E d \in 0 .. MaxFd, buf \in DOMAIN mem, size \in Sizes :
           Issue(Number.read, "read", <<d, buf, size>>)
Write == \E d \in 0 .. MaxFd, buf \in DOMAIN mem, size \in Sizes :
           Issue(Number.write, "write", <<d, buf, size>>)
Close == \E d \in 0 .. MaxFd : Issue(Number.close, "close", <<d, 0, 0>>)
Lseek == \E d \in 0 .. MaxFd, offset \in Offsets, w \in 0 .. 2 :
           Issue(Number.lseek, "lseek", <<d, offset, w>>)

(* SSC API_LSEEK without the library.                                      *)
SscLseek == \E d \in 0 .. MaxFd, offset \in Offsets, w \in 0 .. 2 :
              Issue(8, "ssc lseek", <<d, offset, w>>)

Next == Open \/ ReadF \/ Write \/ Close \/ Lseek \/ SscLseek

Spec == Init /\ [][Next]_vars

-----------------------------------------------------------------------------
Bytes == 0 .. CELLS + 1

(* Type invariant: every open file of the host exists, is open for         *)
(* something and at a position the bound allows.                           *)
TypeOK ==
  /\ DOMAIN perms = DOMAIN files /\ DOMAIN files \subseteq Names
  /\ \A f \in DOMAIN files :
       files[f] \in Seq(Bytes) /\ Len(files[f]) <= MaxLength /\ perms[f] \subseteq Rights
  /\ DOMAIN fds \subseteq 0 .. MaxFd
  /\ \A d \in DOMAIN fds : fds[d] \in [file : DOMAIN files, access : (SUBSET Rights) \ {{}},
                                      pos : 0 .. MaxLength]
  /\ mem \in [0 .. CELLS - 1 -> Bytes]
  /\ ret \in Int /\ -2 <= ret /\ (ret <= MaxLength \/ ret <= MaxFd)
  /\ calls \in 0 .. MaxCalls

MayWrite(flags) == flags % 4 \in {2, 3}
MayRead(flags)  == flags % 4 \in {1, 3}

(* What the guest holds to be open is what the host has open for it, after *)
(* any sequence of opens, closes and second closes of a descriptor that    *)
(* has been given out again: no handle is lost, none left over but those   *)
(* the host had before, and each is of the file and the access asked for.  *)
HandlesMatch ==
  /\ DOMAIN fds = DOMAIN opened \cup inherited
  /\ DOMAIN opened \cap inherited = {} /\ inherited \subseteq DOMAIN Inherited
  /\ \A d \in DOMAIN opened :
       /\ fds[d].file = opened[d].file
       /\ "r" \in fds[d].access <=> MayRead(opened[d].flags)
       /\ "w" \in fds[d].access <=> MayWrite(opened[d].flags)
  /\ \A d \in inherited :
       fds[d].file = Inherited[d].file /\ fds[d].access = Inherited[d].access

(* Both sides agree on every handle, and the files and positions behind    *)
(* them are of the right types.                                            *)
FileInv == TypeOK /\ HandlesMatch

(* A file that exists changes only through a descriptor that the guest     *)
(* opened for writing or that came to it open for writing, as that of the  *)
(* program's file does; whatever calls are made, and though the lseek of   *)
(* the library writes.                                                     *)
WritesNeedAHandle ==
  [][\A f \in DOMAIN files : files'[f] # files[f] =>
       LET d == asked'.p[1]
       IN  \/ d \in DOMAIN opened /\ opened[d].file = f /\ MayWrite(opened[d].flags)
           \/ d \in inherited /\ Inherited[d].file = f /\ "w" \in Inherited[d].access]_vars

(* lseek by its own number moves the position as the guest's constants say *)
(* - relative to the start, the end or the position - and returns it.      *)
SeekLands ==
  [][asked'.fn = "ssc lseek" /\ ret' >= 0 =>
       LET d == asked'.p[1]
           from == CASE asked'.p[3] = 0 -> 0
                     [] asked'.p[3] = 1 -> Len(files[fds[d].file])
                     [] asked'.p[3] = 2 -> fds[d].pos
       IN  ret' = from + asked'.p[2] /\ fds'[d].pos = ret']_vars
==============================================================================
