--------------------------- MODULE GuestFilesProofs ---------------------------
(***************************************************************************)
(* Proofs about GuestFiles for every set of names, flags, counts and       *)
(* offsets.  First what each call to the host system does to its files and *)
(* to its table of open files, then what the numbers of the system calls   *)
(* stand for, then what the guest makes of it, and the theorems.           *)
(***************************************************************************)
EXTENDS GuestFiles, SequenceTheorems, WellFoundedInduction, TLAPS

(* A set of natural numbers that is not empty has a least one.             *)
LEMMA LeastNatural ==
  ASSUME NEW S \in SUBSET Nat, S # {}
  PROVE  \E x \in S : \A y \in S : x <= y
<1> DEFINE R == {ss \in Nat \X Nat : ss[1] < ss[2]}
<1>1. OpToRel(<, Nat) = R
  BY DEF OpToRel
<1>2. IsWellFoundedOn(R, Nat)
  BY <1>1, NatLessThanWellFounded
<1>3. \A x, y \in Nat : <<x, y>> \in R <=> x < y
  OBVIOUS
<1> HIDE DEF R
<1>4. PICK x \in S : \A y \in S : ~ (<<y, x>> \in R)
  BY <1>2, WFMin
<1>5. ASSUME NEW y \in S PROVE x <= y
  <2>1. x \in Nat /\ y \in Nat
    OBVIOUS
  <2>2. ~ (y < x)
    BY <1>3, <1>4, <2>1
  <2>3. QED
    BY <2>1, <2>2
<1>6. QED
  BY <1>5

(* The minimum the library defines is one of the numbers.                  *)
LEMMA MinIn ==
  ASSUME NEW S \in SUBSET Nat, S # {}
  PROVE  Min(S) \in S
BY LeastNatural DEF Min

(* Of two numbers it is the smaller one, and the maximum the larger.       *)
LEMMA MinOfTwo ==
  ASSUME NEW a \in Int, NEW b \in Int
  PROVE  Min({a, b}) = IF a <= b THEN a ELSE b
BY DEF Min

LEMMA MaxOfTwo ==
  ASSUME NEW a \in Int, NEW b \in Int
  PROVE  Max({a, b}) = IF a <= b THEN b ELSE a
BY DEF Max

-----------------------------------------------------------------------------
(* The host system.                                                        *)

(* The part of the type invariant that is the host's.                      *)
HostInv ==
  /\ DOMAIN perms = DOMAIN files /\ DOMAIN files \subseteq Names
  /\ \A f \in DOMAIN files :
       files[f] \in Seq(Bytes) /\ Len(files[f]) <= MaxLength /\ perms[f] \subseteq Rights
  /\ DOMAIN fds \subseteq 0 .. MaxFd
  /\ \A d \in DOMAIN fds : fds[d] \in [file : DOMAIN files, access : (SUBSET Rights) \ {{}},
                                      pos : 0 .. MaxLength]
  /\ mem \in [0 .. CELLS - 1 -> Bytes]
  /\ ret \in Int /\ -2 <= ret /\ (ret <= MaxLength \/ ret <= MaxFd)

LEMMA HostInvIsTypeOK == TypeOK <=> HostInv /\ calls \in 0 .. MaxCalls
BY DEF TypeOK, HostInv

(* No file is opened or closed.                                            *)
SameHandles ==
  /\ DOMAIN fds' = DOMAIN fds
  /\ \A d \in DOMAIN fds : fds'[d].file = fds[d].file /\ fds'[d].access = fds[d].access

LEMMA FailsDoes ==
  ASSUME HostInv, NEW r \in {-1, -2}, Fails(r)
  PROVE  HostInv' /\ SameHandles /\ files' = files /\ fds' = fds /\ ret' = r
BY FilesAssumption DEF HostInv, SameHandles, Fails

(* open changes no file that exists, and gives a descriptor not in use.    *)
LEMMA SysOpenDoes ==
  ASSUME HostInv, NEW f \in Names, NEW access \in (SUBSET Rights) \ {{}}, NEW create,
         SysOpen(f, access, create)
  PROVE  /\ HostInv'
         /\ \A g \in DOMAIN files : files'[g] = files[g]
         /\ ret' < 0 => fds' = fds
         /\ ret' >= 0 => /\ ret' \in (0 .. MaxFd) \ DOMAIN fds
                         /\ fds' = Put(fds, ret', [file |-> f, access |-> access, pos |-> 0])
<1> DEFINE free == (0 .. MaxFd) \ DOMAIN fds
           has  == f \in DOMAIN files
<1>1. CASE free = {} \/ (~ has /\ ~ create) \/ (has /\ ~ access \subseteq perms[f])
  <2>1. Fails(-1)
    BY <1>1 DEF SysOpen
  <2>2. QED
    BY <2>1, FailsDoes
<1>2. CASE ~ (free = {} \/ (~ has /\ ~ create) \/ (has /\ ~ access \subseteq perms[f]))
  <2> DEFINE new == [file |-> f, access |-> access, pos |-> 0]
  <2>1. /\ ret' = Min(free)
        /\ fds' = Put(fds, ret', new)
        /\ IF has THEN UNCHANGED <<files, perms>>
           ELSE /\ files' = Put(files, f, <<>>)
                /\ \E r \in SUBSET Rights : perms' = Put(perms, f, r)
        /\ UNCHANGED mem
    BY <1>2 DEF SysOpen
  <2>2. free \in SUBSET Nat /\ free # {}
    BY <1>2, FilesAssumption
  <2>3. ret' \in free
    BY <2>1, <2>2, MinIn
  <2>4. /\ DOMAIN files' = DOMAIN files \cup {f} /\ DOMAIN perms' = DOMAIN files'
        /\ \A g \in DOMAIN files : files'[g] = files[g] /\ perms'[g] = perms[g]
        /\ ~ has => files'[f] = <<>> /\ perms'[f] \subseteq Rights
    <3>1. CASE has
      BY <2>1, <3>1 DEF HostInv
    <3>2. CASE ~ has
      BY <2>1, <3>2 DEF HostInv, Put
    <3>3. QED
      BY <3>1, <3>2
  <2>5. /\ DOMAIN fds' = DOMAIN fds \cup {ret'} /\ fds'[ret'] = new
        /\ \A d \in DOMAIN fds : fds'[d] = fds[d]
    BY <2>1, <2>3 DEF Put
  <2>6. \A g \in DOMAIN files' :
          files'[g] \in Seq(Bytes) /\ Len(files'[g]) <= MaxLength /\ perms'[g] \subseteq Rights
    <3>1. <<>> \in Seq(Bytes) /\ Len(<<>>) <= MaxLength
      BY FilesAssumption
    <3>2. QED
      BY <2>4, <3>1 DEF HostInv
  <2>7. new \in [file : DOMAIN files', access : (SUBSET Rights) \ {{}}, pos : 0 .. MaxLength]
    BY <2>4, FilesAssumption
  <2>8. \A d \in DOMAIN fds' : fds'[d] \in [file : DOMAIN files', access : (SUBSET Rights) \ {{}},
                                           pos : 0 .. MaxLength]
    BY <2>4, <2>5, <2>7 DEF HostInv
  <2>9. DOMAIN fds' \subseteq 0 .. MaxFd /\ DOMAIN files' \subseteq Names /\ mem' = mem
    BY <2>1, <2>3, <2>4, <2>5 DEF HostInv
  <2>10. ret' \in Int /\ -2 <= ret' /\ ret' <= MaxFd
    BY <2>3, FilesAssumption
  <2>11. HostInv'
    BY <2>4, <2>6, <2>8, <2>9, <2>10 DEF HostInv
  <2>12. QED
    BY <2>1, <2>3, <2>4, <2>10, <2>11
<1>3. QED
  BY <1>1, <1>2

(* read moves the position and fills the buffer.                           *)
LEMMA SysReadDoes ==
  ASSUME HostInv, NEW d, NEW buf \in Int, NEW size \in Nat, SysRead(d, buf, size)
  PROVE  HostInv' /\ SameHandles /\ files' = files
<1> DEFINE fails == d \notin DOMAIN fds \/ "r" \notin fds[d].access \/ ~ InMemory(buf, size)
<1>1. CASE fails
  <2>1. Fails(-1)
    BY <1>1 DEF SysRead
  <2>2. QED
    BY <2>1, FailsDoes
<1>2. CASE ~ fails
  <2> DEFINE bytes == files[fds[d].file]
             left == Len(bytes) - fds[d].pos
             n == IF left < 0 THEN 0 ELSE Min({left, size})
  <2>1. /\ ret' = n
        /\ mem' = [a \in DOMAIN mem |-> IF a - buf \in 0 .. n - 1
                                        THEN bytes[fds[d].pos + a - buf + 1] ELSE mem[a]]
        /\ fds' = [fds EXCEPT ![d].pos = @ + n]
        /\ UNCHANGED <<files, perms>>
    BY <1>2 DEF SysRead
  <2>2. /\ fds[d] \in [file : DOMAIN files, access : (SUBSET Rights) \ {{}}, pos : 0 .. MaxLength]
        /\ bytes \in Seq(Bytes) /\ Len(bytes) \in Nat /\ Len(bytes) <= MaxLength
        /\ MaxLength \in Nat
    BY <1>2, FilesAssumption DEF HostInv
  <2>3. left \in Int /\ fds[d].pos \in 0 .. MaxLength
    BY <2>2
  <2>4. /\ n \in Nat /\ n <= MaxLength /\ fds[d].pos + n <= MaxLength
        /\ n > 0 => fds[d].pos + n <= Len(bytes)
    <3>1. Min({left, size}) = IF left <= size THEN left ELSE size
      BY <2>3, MinOfTwo
    <3>2. QED
      BY <2>2, <2>3, <3>1
  <2>5. mem' \in [0 .. CELLS - 1 -> Bytes]
    <3>1. DOMAIN mem = 0 .. CELLS - 1 /\ mem \in [0 .. CELLS - 1 -> Bytes]
      BY DEF HostInv
    <3>2. ASSUME NEW a \in 0 .. CELLS - 1, a - buf \in 0 .. n - 1
          PROVE  bytes[fds[d].pos + a - buf + 1] \in Bytes
      <4>1. fds[d].pos + a - buf + 1 \in 1 .. Len(bytes)
        <5> HIDE DEF n, bytes
        <5>1. QED
          BY <2>2, <2>3, <2>4, <3>2, FilesAssumption
      <4>2. QED
        BY <2>2, <4>1, ElementOfSeq
    <3> HIDE DEF n, bytes
    <3>3. QED
      BY <2>1, <3>1, <3>2
  <2> HIDE DEF n
  <2>6. /\ DOMAIN fds' = DOMAIN fds
        /\ fds'[d] = [fds[d] EXCEPT !.pos = @ + n]
        /\ \A c \in DOMAIN fds : c # d => fds'[c] = fds[c]
    BY <1>2, <2>1
  <2>7. /\ fds'[d].file = fds[d].file /\ fds'[d].access = fds[d].access
        /\ fds'[d] \in [file : DOMAIN files, access : (SUBSET Rights) \ {{}}, pos : 0 .. MaxLength]
    <3>1. fds[d].pos + n \in 0 .. MaxLength
      BY <2>2, <2>3, <2>4
    <3>2. QED
      BY <2>2, <2>6, <3>1
  <2>8. SameHandles
    BY <2>6, <2>7 DEF SameHandles
  <2>9. \A c \in DOMAIN fds' : fds'[c] \in [file : DOMAIN files', access : (SUBSET Rights) \ {{}},
                                           pos : 0 .. MaxLength]
    BY <2>1, <2>6, <2>7 DEF HostInv
  <2>10. ret' \in Int /\ -2 <= ret' /\ ret' <= MaxLength
    BY <2>1, <2>2, <2>4
  <2>11. HostInv'
    BY <2>1, <2>5, <2>6, <2>9, <2>10 DEF HostInv
  <2>12. QED
    BY <2>1, <2>8, <2>11
<1>3. QED
  BY <1>1, <1>2

(* write changes the file of its descriptor, and no other.                 *)
LEMMA SysWriteDoes ==
  ASSUME HostInv, NEW d, NEW buf \in Int, NEW size \in Nat, SysWrite(d, buf, size)
  PROVE  /\ HostInv' /\ SameHandles
         /\ \A g \in DOMAIN files : files'[g] # files[g] =>
              d \in DOMAIN fds /\ fds[d].file = g /\ "w" \in fds[d].access
<1> DEFINE fails == d \notin DOMAIN fds \/ "w" \notin fds[d].access \/ ~ InMemory(buf, size)
<1>1. CASE fails
  <2>1. Fails(-1)
    BY <1>1 DEF SysWrite
  <2>2. QED
    BY <2>1, FailsDoes
<1>2. CASE ~ fails
  <2> DEFINE g == fds[d].file
             bytes == files[g]
             pos == fds[d].pos
             len == IF size = 0 THEN Len(bytes) ELSE Max({Len(bytes), pos + size})
             new == [k \in 1 .. len |-> IF k - pos \in 1 .. size THEN mem[buf + k - pos - 1]
                                        ELSE IF k \in DOMAIN bytes THEN bytes[k] ELSE 0]
  <2>1. /\ len <= MaxLength /\ ret' = size
        /\ files' = [files EXCEPT ![g] = new]
        /\ fds' = [fds EXCEPT ![d].pos = @ + size]
        /\ UNCHANGED <<perms, mem>>
    BY <1>2 DEF SysWrite
  <2>2. /\ fds[d] \in [file : DOMAIN files, access : (SUBSET Rights) \ {{}}, pos : 0 .. MaxLength]
        /\ bytes \in Seq(Bytes) /\ Len(bytes) \in Nat /\ MaxLength \in Nat
        /\ g \in DOMAIN files /\ pos \in 0 .. MaxLength
    BY <1>2, FilesAssumption DEF HostInv
  <2>3. /\ len \in Nat /\ pos + size <= MaxLength /\ size <= MaxLength
    <3>1. Max({Len(bytes), pos + size}) = IF Len(bytes) <= pos + size THEN pos + size ELSE Len(bytes)
      BY <2>2, MaxOfTwo
    <3>2. QED
      BY <2>1, <2>2, <3>1
  <2>4. new \in Seq(Bytes) /\ Len(new) = len
    <3>1. ASSUME NEW k \in 1 .. len
          PROVE  (IF k - pos \in 1 .. size THEN mem[buf + k - pos - 1]
                  ELSE IF k \in DOMAIN bytes THEN bytes[k] ELSE 0) \in Bytes
      <4>1. CASE k - pos \in 1 .. size
        <5>1. buf + k - pos - 1 \in 0 .. CELLS - 1
          <6>1. buf >= 0 /\ buf + size <= CELLS /\ CELLS \in Nat
            BY <1>2, FilesAssumption DEF InMemory
          <6> HIDE DEF pos, len
          <6>2. QED
            BY <2>2, <2>3, <4>1, <6>1
        <5>2. QED
          BY <4>1, <5>1 DEF HostInv
      <4>2. CASE ~ (k - pos \in 1 .. size) /\ k \in DOMAIN bytes
        <5>1. k \in 1 .. Len(bytes)
          BY <2>2, <4>2
        <5>2. bytes[k] \in Bytes
          BY <2>2, <5>1, ElementOfSeq
        <5>3. QED
          BY <4>2, <5>2
      <4>3. CASE ~ (k - pos \in 1 .. size) /\ k \notin DOMAIN bytes
        <5>1. 0 \in Bytes
          BY FilesAssumption DEF Bytes
        <5>2. QED
          BY <4>3, <5>1
      <4>4. QED
        BY <4>1, <4>2, <4>3
    <3> HIDE DEF len, bytes, pos
    <3>2. new \in [1 .. len -> Bytes]
      BY <3>1
    <3>3. QED
      BY <2>3, <3>2
  <2> HIDE DEF new, len
  <2>5. /\ DOMAIN files' = DOMAIN files /\ files'[g] = new
        /\ \A f \in DOMAIN files : f # g => files'[f] = files[f]
    BY <2>1, <2>2
  <2>6. /\ DOMAIN fds' = DOMAIN fds
        /\ fds'[d] = [fds[d] EXCEPT !.pos = @ + size]
        /\ \A c \in DOMAIN fds : c # d => fds'[c] = fds[c]
    BY <1>2, <2>1
  <2>7. /\ fds'[d].file = fds[d].file /\ fds'[d].access = fds[d].access
        /\ fds'[d] \in [file : DOMAIN files, access : (SUBSET Rights) \ {{}}, pos : 0 .. MaxLength]
    BY <2>2, <2>3, <2>6
  <2>8. SameHandles
    BY <2>6, <2>7 DEF SameHandles
  <2>9. \A c \in DOMAIN fds' : fds'[c] \in [file : DOMAIN files', access : (SUBSET Rights) \ {{}},
                                           pos : 0 .. MaxLength]
    BY <2>5, <2>6, <2>7 DEF HostInv
  <2>10. \A f \in DOMAIN files' :
           files'[f] \in Seq(Bytes) /\ Len(files'[f]) <= MaxLength /\ perms'[f] \subseteq Rights
    BY <2>1, <2>2, <2>4, <2>5 DEF HostInv
  <2>11. ret' \in Int /\ -2 <= ret' /\ ret' <= MaxLength
    BY <2>1, <2>3
  <2>12. HostInv'
    BY <2>1, <2>5, <2>6, <2>9, <2>10, <2>11 DEF HostInv
  <2>13. QED
    BY <1>2, <2>5, <2>8, <2>12
<1>3. QED
  BY <1>1, <1>2

(* close takes its descriptor out of the table, and no other.              *)
LEMMA SysCloseDoes ==
  ASSUME HostInv, NEW d, SysClose(d)
  PROVE  /\ HostInv' /\ files' = files
         /\ ret' = 0 => /\ DOMAIN fds' = DOMAIN fds \ {d}
                        /\ \A c \in DOMAIN fds \ {d} : fds'[c] = fds[c]
         /\ ret' # 0 => fds' = fds
<1>1. CASE d \notin DOMAIN fds
  BY <1>1, FailsDoes DEF SysClose
<1>2. CASE d \in DOMAIN fds
  BY <1>2, FilesAssumption DEF SysClose, HostInv, Restrict
<1>3. QED
  BY <1>1, <1>2

(* lseek moves the position, and returns it.                               *)
LEMMA SysLseekDoes ==
  ASSUME HostInv, NEW d, NEW offset \in Int, NEW w \in {"SEEK_SET", "SEEK_CUR", "SEEK_END"},
         SysLseek(d, offset, w)
  PROVE  /\ HostInv' /\ SameHandles /\ files' = files
         /\ ret' >= 0 => ret' = Base(d, w) + offset /\ fds'[d].pos = ret'
<1> DEFINE at == Base(d, w) + offset
<1>1. CASE d \notin DOMAIN fds \/ at < 0
  <2>1. Fails(-1)
    BY <1>1 DEF SysLseek
  <2>2. QED
    BY <2>1, FailsDoes
<1>2. CASE d \in DOMAIN fds /\ ~ (at < 0)
  <2>1. at <= MaxLength /\ ret' = at /\ fds' = [fds EXCEPT ![d].pos = at]
        /\ UNCHANGED <<files, perms, mem>>
    BY <1>2 DEF SysLseek
  <2>2. fds[d] \in [file : DOMAIN files, access : (SUBSET Rights) \ {{}}, pos : 0 .. MaxLength]
        /\ MaxLength \in Nat
    BY <1>2, FilesAssumption DEF HostInv
  <2>3. at \in 0 .. MaxLength
    <3>1. Len(files[fds[d].file]) \in Nat
      BY <2>2 DEF HostInv
    <3>2. Base(d, w) \in Int
      BY <2>2, <3>1 DEF Base
    <3>3. QED
      BY <1>2, <2>1, <3>2
  <2> HIDE DEF at
  <2>4. /\ DOMAIN fds' = DOMAIN fds
        /\ fds'[d] = [fds[d] EXCEPT !.pos = at]
        /\ \A c \in DOMAIN fds : c # d => fds'[c] = fds[c]
    BY <1>2, <2>1
  <2>5. /\ fds'[d].file = fds[d].file /\ fds'[d].access = fds[d].access /\ fds'[d].pos = at
        /\ fds'[d] \in [file : DOMAIN files, access : (SUBSET Rights) \ {{}}, pos : 0 .. MaxLength]
    BY <2>2, <2>3, <2>4
  <2>6. HostInv'
    <3>1. ret' \in Int /\ -2 <= ret' /\ ret' <= MaxLength
      BY <2>1, <2>2, <2>3
    <3>2. QED
      BY <2>1, <2>4, <2>5, <3>1 DEF HostInv
  <2>7. SameHandles
    BY <2>4, <2>5 DEF SameHandles
  <2>8. QED
    BY <2>1, <2>5, <2>6, <2>7 DEF at
<1>3. QED
  BY <1>1, <1>2

-----------------------------------------------------------------------------
(* The handlers.                                                           *)

(* What a number stands for: that of the write stub and that of the lseek  *)
(* stub are the same.                                                      *)
LEMMA Handlers ==
  ASSUME NEW p
  PROVE  /\ Number.open = 4 /\ Number.read = 5 /\ Number.write = 6 /\ Number.close = 7
         /\ Number.lseek = 6
         /\ Handle(4, p) => cpu0_open(p[1], p[2])
         /\ Handle(5, p) => SysRead(p[1], p[2], p[3])
         /\ Handle(6, p) => SysWrite(p[1], p[2], p[3])
         /\ Handle(7, p) => SysClose(p[1])
         /\ Handle(8, p) => SysLseek(p[1], p[2], Whence(p[3]))
BY DEF Number, Handle, api_func, cpu0_read, cpu0_write, cpu0_close, cpu0_lseek

(* The access the handler asks for is the one the guest's flags mean.      *)
LEMMA AccessMeans ==
  ASSUME NEW flag \in Nat
  PROVE  /\ Access(flag) \in SUBSET Rights
         /\ "r" \in Access(flag) <=> MayRead(flag)
         /\ "w" \in Access(flag) <=> MayWrite(flag)
<1>1. flag % 4 \in {0, 1, 2, 3}
  OBVIOUS
<1>2. CASE flag % 4 = 0
  BY <1>2 DEF Access, Rights, MayRead, MayWrite
<1>3. CASE flag % 4 = 1
  BY <1>3 DEF Access, Rights, MayRead, MayWrite
<1>4. CASE flag % 4 = 2
  BY <1>4 DEF Access, Rights, MayRead, MayWrite
<1>5. CASE flag % 4 = 3
  BY <1>5 DEF Access, Rights, MayRead, MayWrite
<1>6. QED
  BY <1>1, <1>2, <1>3, <1>4, <1>5

-----------------------------------------------------------------------------
(* The guest.                                                              *)

LEMMA SameHandlesMatch ==
  ASSUME HandlesMatch, SameHandles, opened' = opened, inherited' = inherited
  PROVE  HandlesMatch'
BY DEF HandlesMatch, SameHandles

(* What a step may do to the files.                                        *)
ChangeStep ==
  \A f \in DOMAIN files : files'[f] # files[f] =>
    LET d == asked'.p[1]
    IN  \/ d \in DOMAIN opened /\ opened[d].file = f /\ MayWrite(opened[d].flags)
        \/ d \in inherited /\ Inherited[d].file = f /\ "w" \in Inherited[d].access

(* What a step does to a position.                                         *)
SeekStep ==
  asked'.fn = "ssc lseek" /\ ret' >= 0 =>
    LET d == asked'.p[1]
        from == CASE asked'.p[3] = 0 -> 0
                  [] asked'.p[3] = 1 -> Len(files[fds[d].file])
                  [] asked'.p[3] = 2 -> fds[d].pos
    IN  ret' = from + asked'.p[2] /\ fds'[d].pos = ret'

LEMMA OpenStep ==
  ASSUME HostInv, HandlesMatch, Open
  PROVE  HostInv' /\ HandlesMatch' /\ ChangeStep /\ asked'.fn = "open"
<1>1. PICK f \in Names, flag \in Flags : Issue(Number.open, "open", <<f, flag, 0>>)
  BY DEF Open
<1>2. /\ cpu0_open(f, flag) /\ asked'.fn = "open" /\ inherited' = inherited
      /\ opened' = IF ret' >= 0 THEN Put(opened, ret', [file |-> f, flags |-> flag]) ELSE opened
  BY <1>1, Handlers DEF Issue, Notes
<1>3. CASE Fails(-1) \/ Fails(-2)
  <2>1. HostInv' /\ SameHandles /\ files' = files /\ ret' \in {-1, -2}
    BY <1>3, FailsDoes
  <2>2. QED
    BY <1>2, <2>1, SameHandlesMatch DEF ChangeStep
<1>4. CASE Access(flag) # {} /\ SysOpen(f, Access(flag), Creates(flag))
  <2>1. flag \in Nat /\ Access(flag) \in (SUBSET Rights) \ {{}}
    BY <1>4, AccessMeans, FilesAssumption
  <2>2. /\ HostInv'
        /\ \A g \in DOMAIN files : files'[g] = files[g]
        /\ ret' < 0 => fds' = fds
        /\ ret' >= 0 =>
             /\ ret' \in (0 .. MaxFd) \ DOMAIN fds
             /\ fds' = Put(fds, ret', [file |-> f, access |-> Access(flag), pos |-> 0])
    BY <1>4, <2>1, SysOpenDoes
  <2>3. ChangeStep
    BY <2>2 DEF ChangeStep
  <2>4. CASE ret' < 0
    <3>1. opened' = opened /\ SameHandles
      BY <1>2, <2>2, <2>4 DEF SameHandles, HostInv
    <3>2. QED
      BY <1>2, <2>2, <2>3, <3>1, SameHandlesMatch
  <2>5. CASE ret' >= 0
    <3>1. /\ DOMAIN opened' = DOMAIN opened \cup {ret'}
          /\ opened'[ret'].file = f /\ opened'[ret'].flags = flag
          /\ \A d \in DOMAIN opened : d # ret' => opened'[d] = opened[d]
      BY <1>2, <2>5 DEF Put
    <3>2. /\ DOMAIN fds' = DOMAIN fds \cup {ret'}
          /\ fds'[ret'].file = f /\ fds'[ret'].access = Access(flag)
          /\ \A d \in DOMAIN fds : d # ret' => fds'[d] = fds[d]
      BY <2>2, <2>5 DEF Put
    <3>3. /\ "r" \in Access(flag) <=> MayRead(flag)
          /\ "w" \in Access(flag) <=> MayWrite(flag)
      BY <2>1, AccessMeans
    <3>4. ret' \notin DOMAIN opened /\ ret' \notin inherited
      BY <2>2, <2>5 DEF HandlesMatch
    <3>5. /\ DOMAIN fds' = DOMAIN opened' \cup inherited'
          /\ DOMAIN opened' \cap inherited' = {} /\ inherited' \subseteq DOMAIN Inherited
      BY <1>2, <3>1, <3>2, <3>4 DEF HandlesMatch
    <3>6. ASSUME NEW d \in DOMAIN opened'
          PROVE  /\ fds'[d].file = opened'[d].file
                 /\ "r" \in fds'[d].access <=> MayRead(opened'[d].flags)
                 /\ "w" \in fds'[d].access <=> MayWrite(opened'[d].flags)
      <4>1. CASE d = ret'
        BY <3>1, <3>2, <3>3, <4>1
      <4>2. CASE d \in DOMAIN opened /\ d # ret'
        <5>1. opened'[d] = opened[d] /\ fds'[d] = fds[d]
          BY <3>1, <3>2, <4>2 DEF HandlesMatch
        <5>2. QED
          BY <4>2, <5>1 DEF HandlesMatch
      <4>3. QED
        BY <3>1, <3>6, <4>1, <4>2
    <3>7. \A d \in inherited' :
             fds'[d].file = Inherited[d].file /\ fds'[d].access = Inherited[d].access
      BY <1>2, <3>2, <3>4 DEF HandlesMatch
    <3>8. HandlesMatch'
      BY <3>5, <3>6, <3>7 DEF HandlesMatch
    <3>9. QED
      BY <1>2, <2>2, <2>3, <3>8
  <2>6. QED
    BY <2>2, <2>4, <2>5 DEF HostInv
<1>5. QED
  BY <1>2, <1>3, <1>4 DEF cpu0_open

LEMMA ReadStep ==
  ASSUME HostInv, HandlesMatch, ReadF
  PROVE  HostInv' /\ HandlesMatch' /\ ChangeStep /\ asked'.fn = "read"
<1>1. PICK d \in 0 .. MaxFd, buf \in DOMAIN mem, size \in Sizes :
        Issue(Number.read, "read", <<d, buf, size>>)
  BY DEF ReadF
<1>2. SysRead(d, buf, size) /\ asked'.fn = "read" /\ opened' = opened /\ inherited' = inherited
  BY <1>1, Handlers DEF Issue, Notes
<1>3. buf \in Int /\ size \in Nat
  BY FilesAssumption DEF HostInv
<1>4. HostInv' /\ SameHandles /\ files' = files
  BY <1>2, <1>3, SysReadDoes
<1>5. QED
  BY <1>2, <1>4, SameHandlesMatch DEF ChangeStep

(* The stub of lseek issues the number of write: it is a write, at the     *)
(* offset as the buffer and with whence as the count.                      *)
LEMMA WriteStep ==
  ASSUME HostInv, HandlesMatch, Write \/ Lseek
  PROVE  HostInv' /\ HandlesMatch' /\ ChangeStep /\ asked'.fn \in {"write", "lseek"}
<1>1. PICK d \in 0 .. MaxFd, buf \in Int, size \in Nat, fn \in {"write", "lseek"} :
        Issue(6, fn, <<d, buf, size>>)
  <2>1. CASE Write
    <3>1. PICK d \in 0 .. MaxFd, buf \in DOMAIN mem, size \in Sizes :
            Issue(6, "write", <<d, buf, size>>)
      BY <2>1, Handlers DEF Write
    <3>2. buf \in Int /\ size \in Nat
      BY FilesAssumption DEF HostInv
    <3>3. QED
      BY <3>1, <3>2
  <2>2. CASE Lseek
    <3>1. PICK d \in 0 .. MaxFd, offset \in Offsets, w \in 0 .. 2 :
            Issue(6, "lseek", <<d, offset, w>>)
      BY <2>2, Handlers DEF Lseek
    <3>2. offset \in Int /\ w \in Nat
      BY FilesAssumption
    <3>3. QED
      BY <3>1, <3>2
  <2>3. QED
    BY <2>1, <2>2
<1>2. /\ SysWrite(d, buf, size) /\ asked'.fn = fn /\ asked'.p[1] = d
      /\ opened' = opened /\ inherited' = inherited
  BY <1>1, Handlers DEF Issue, Notes
<1>3. /\ HostInv' /\ SameHandles
      /\ \A g \in DOMAIN files : files'[g] # files[g] =>
           d \in DOMAIN fds /\ fds[d].file = g /\ "w" \in fds[d].access
  BY <1>2, SysWriteDoes
<1>4. ChangeStep
  BY <1>2, <1>3 DEF ChangeStep, HandlesMatch
<1>5. QED
  BY <1>2, <1>3, <1>4, SameHandlesMatch

LEMMA CloseStep ==
  ASSUME HostInv, HandlesMatch, Close
  PROVE  HostInv' /\ HandlesMatch' /\ ChangeStep /\ asked'.fn = "close"
<1>1. PICK d \in 0 .. MaxFd : Issue(Number.close, "close", <<d, 0, 0>>)
  BY DEF Close
<1>2. /\ SysClose(d) /\ asked'.fn = "close"
      /\ opened' = IF ret' = 0 THEN Restrict(opened, DOMAIN opened \ {d}) ELSE opened
      /\ inherited' = IF ret' = 0 THEN inherited \ {d} ELSE inherited
  BY <1>1, Handlers DEF Issue, Notes
<1>3. /\ HostInv' /\ files' = files
      /\ ret' = 0 => /\ DOMAIN fds' = DOMAIN fds \ {d}
                     /\ \A c \in DOMAIN fds \ {d} : fds'[c] = fds[c]
      /\ ret' # 0 => fds' = fds
  BY <1>2, SysCloseDoes
<1>4. HandlesMatch'
  BY <1>2, <1>3 DEF HandlesMatch, Restrict
<1>5. QED
  BY <1>2, <1>3, <1>4 DEF ChangeStep

LEMMA SscLseekStep ==
  ASSUME HostInv, HandlesMatch, SscLseek
  PROVE  HostInv' /\ HandlesMatch' /\ ChangeStep /\ SeekStep
<1>1. PICK d \in 0 .. MaxFd, offset \in Offsets, w \in 0 .. 2 :
        Issue(8, "ssc lseek", <<d, offset, w>>)
  BY DEF SscLseek
<1>2. /\ SysLseek(d, offset, Whence(w)) /\ opened' = opened /\ inherited' = inherited
      /\ asked'.fn = "ssc lseek" /\ asked'.p[1] = d /\ asked'.p[2] = offset /\ asked'.p[3] = w
  <2> DEFINE p == <<d, offset, w>>
  <2>1. /\ Handle(8, p) /\ asked' = [fn |-> "ssc lseek", p |-> p]
        /\ opened' = opened /\ inherited' = inherited
    BY <1>1 DEF Issue, Notes
  <2>2. p[1] = d /\ p[2] = offset /\ p[3] = w
    OBVIOUS
  <2> HIDE DEF p
  <2>3. SysLseek(p[1], p[2], Whence(p[3]))
    BY <2>1, Handlers
  <2>4. QED
    BY <2>1, <2>2, <2>3
<1>3. /\ offset \in Int
      /\ w = 0 => Whence(w) = "SEEK_SET"
      /\ w = 1 => Whence(w) = "SEEK_END"
      /\ w = 2 => Whence(w) = "SEEK_CUR"
      /\ w \in {0, 1, 2}
  BY FilesAssumption DEF Whence
<1>4. /\ HostInv' /\ SameHandles /\ files' = files
      /\ ret' >= 0 => ret' = Base(d, Whence(w)) + offset /\ fds'[d].pos = ret'
  <2>1. Whence(w) \in {"SEEK_SET", "SEEK_CUR", "SEEK_END"}
    BY <1>3
  <2>2. QED
    BY <1>2, <1>3, <2>1, SysLseekDoes
<1>5. SeekStep
  <2>1. CASE w = 0
    BY <1>2, <1>3, <1>4, <2>1 DEF SeekStep, Base
  <2>2. CASE w = 1
    BY <1>2, <1>3, <1>4, <2>2 DEF SeekStep, Base
  <2>3. CASE w = 2
    BY <1>2, <1>3, <1>4, <2>3 DEF SeekStep, Base
  <2>4. QED
    BY <1>3, <2>1, <2>2, <2>3
<1>6. QED
  BY <1>2, <1>4, <1>5, SameHandlesMatch DEF ChangeStep

-----------------------------------------------------------------------------
(* The theorems.                                                           *)

(* What every call does, whatever the number it is made by.                *)
LEMMA NextDoes ==
  ASSUME FileInv, Next
  PROVE  FileInv' /\ ChangeStep /\ SeekStep
<1>1. HostInv /\ HandlesMatch /\ calls \in 0 .. MaxCalls
  BY HostInvIsTypeOK DEF FileInv
<1>2. calls' \in 0 .. MaxCalls
  <2>1. calls < MaxCalls /\ calls' = calls + 1
    BY Zenon DEF Next, Open, ReadF, Write, Close, Lseek, SscLseek, Issue
  <2>2. QED
    BY <1>1, <2>1, FilesAssumption
<1>3. HostInv' /\ HandlesMatch' => FileInv'
  BY <1>2 DEF FileInv, TypeOK, HostInv
<1>4. asked'.fn # "ssc lseek" => SeekStep
  BY DEF SeekStep
<1>5. CASE Open
  BY <1>1, <1>3, <1>4, <1>5, OpenStep
<1>6. CASE ReadF
  BY <1>1, <1>3, <1>4, <1>6, ReadStep
<1>7. CASE Write \/ Lseek
  BY <1>1, <1>3, <1>4, <1>7, WriteStep
<1>8. CASE Close
  BY <1>1, <1>3, <1>4, <1>8, CloseStep
<1>9. CASE SscLseek
  BY <1>1, <1>3, <1>9, SscLseekStep
<1>10. QED
  BY <1>5, <1>6, <1>7, <1>8, <1>9 DEF Next

(* After any sequence of calls, the guest's handles and what it left open  *)
(* of the inherited descriptors are the host's open files, each of the     *)
(* file and the access asked for.                                          *)
THEOREM FilesInvariant == Spec => []FileInv
<1>1. Init => FileInv
  <2>1. SUFFICES ASSUME Init PROVE FileInv
    OBVIOUS
  <2>2. <<0, 1>> \in Seq(Bytes) /\ Len(<<0, 1>>) <= MaxLength
    <3>1. 0 \in Bytes /\ 1 \in Bytes /\ 2 <= MaxLength
      BY FilesAssumption DEF Bytes
    <3>2. QED
      BY <3>1
  <2>3. mem \in [0 .. CELLS - 1 -> Bytes]
    BY <2>1, FilesAssumption DEF Init, Bytes
  <2>4. HandlesMatch
    BY <2>1 DEF Init, HandlesMatch
  <2>5. QED
    BY <2>1, <2>2, <2>3, <2>4, FilesAssumption DEF Init, FileInv, TypeOK, Rights
<1>2. FileInv /\ [Next]_vars => FileInv'
  <2>1. FileInv /\ UNCHANGED vars => FileInv'
    BY DEF FileInv, TypeOK, HandlesMatch, vars
  <2>2. QED
    BY <2>1, NextDoes
<1>3. QED
  BY <1>1, <1>2, PTL DEF Spec

(* A file changes only through a descriptor the guest opened for writing,  *)
(* or one that was open for writing before it ran, though the stub of      *)
(* lseek writes.                                                           *)
THEOREM ChangesNeedAHandle == Spec => WritesNeedAHandle
<1>1. FileInv /\ [Next]_vars => [ChangeStep]_vars
  BY NextDoes
<1>2. QED
  BY <1>1, FilesInvariant, PTL DEF Spec, WritesNeedAHandle, ChangeStep

(* lseek by its own number goes where the guest's constants say.           *)
THEOREM SeekGoesWhereAsked == Spec => SeekLands
<1>1. FileInv /\ [Next]_vars => [SeekStep]_vars
  BY NextDoes
<1>2. QED
  BY <1>1, FilesInvariant, PTL DEF Spec, SeekLands, SeekStep
==============================================================================
