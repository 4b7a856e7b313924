----------------------------- MODULE Md5Stream ------------------------------
(***************************************************************************)
(* The streaming half of MD5 in vapps/md5.c: how MD5Update and MD5Final    *)
(* cut a message that arrives in pieces into blocks, and count its bits.   *)
(*                                                                         *)
(* MD5Transform is not computed: the state is the sequence of the bytes it *)
(* was fed, so two states are equal exactly when the same blocks went in,  *)
(* in the same order.  Byte i of the message is <<"m", i>>: one that gets  *)
(* lost, repeated or moved is seen by its number.  The sizes of the code   *)
(* are constants, so that the bit count wraps within reach of TLC.         *)
(***************************************************************************)
EXTENDS Integers, Sequences

CONSTANTS
  BLOCK,     (* 64, the bytes of a block                                   *)
  HALF,      (* 4, the bytes of each half of the bit count                 *)
  BYTE,      (* 8, the bits of a byte                                      *)
  Pieces,    (* the lengths of the pieces a message comes in               *)
  MaxTotal   (* bound: the length of a message                             *)

ASSUME Md5Assumption ==
  /\ HALF \in Nat \ {0} /\ BLOCK \in Nat /\ 2 * HALF < BLOCK
  /\ BYTE \in Nat \ {0} /\ 2^(BYTE * HALF) % (BYTE * BLOCK) = 0
  /\ Pieces \subseteq Nat /\ MaxTotal \in Nat

(* The number of values of an unsigned int: each half of the bit count.    *)
WORD == 2^(BYTE * HALF)

VARIABLES
  context,   (* the MD5_CTX: count, low half first, buffer and state       *)
  stage,     (* "none", or after "MD5Init", "MD5Update", "MD5Final"        *)
  total,     (* length of the message since MD5Init                        *)
  digest     (* what MD5Final wrote last                                   *)

vars == <<context, stage, total, digest>>

(* Bytes first .. last of the message.                                     *)
Message(first, last) == [i \in 1 .. last - first + 1 |-> <<"m", first + i - 1>>]

(* The first n bytes of PADDING.                                           *)
PADDING(n) == [i \in 1 .. n |-> <<"p", IF i = 1 THEN 128 ELSE 0>>]

(* MD5Encode of the bit count: the bytes of each half, low ones first.     *)
Encoded(count) ==
  LET byte(w, i) == <<"b", (w \div 2^(BYTE * i)) % 2^BYTE>>
  IN  [i \in 1 .. 2 * HALF |->
         IF i <= HALF THEN byte(count[1], i - 1) ELSE byte(count[2], i - HALF - 1)]

(* MD5Transform of one block or several: what the 64 steps make of a block *)
(* is left open, only which blocks went in is kept.                        *)
MD5Transform(state, blocks) == state \o blocks

(* memcpy of bytes into a buffer, behind the first `at` of its bytes.      *)
Copy(buffer, at, bytes) ==
  [j \in 1 .. BLOCK |-> IF j \in at + 1 .. at + Len(bytes) THEN bytes[j - at]
                                                           ELSE buffer[j]]

-----------------------------------------------------------------------------
(* MD5Update.                                                              *)

Index(count) == (count[1] \div BYTE) % BLOCK

(* Seeded faults: the halves are kept in numbers wider than 32 bits; the   *)
(* carry into the high half is forgotten.                                  *)
CountedWide(count, len) == <<count[1] + len * BYTE, count[2]>>

CountedNoCarry(count, len) ==
  <<(count[1] + len * BYTE) % WORD, (count[2] + (len * BYTE) \div WORD) % WORD>>

(* The bit count after len more bytes.                                     *)
Counted(count, len) ==
  LET bits  == (len * BYTE) % WORD
      low   == (count[1] + bits) % WORD
      carry == IF low < bits THEN 1 ELSE 0
  IN  <<low, (count[2] + carry + (len * BYTE) \div WORD) % WORD>>

Completes(len, partlen) == len >= partlen

(* Seeded fault: what is left of the input goes behind the old index.      *)
UpdateKeepsIndex(c, input) ==
  LET len     == Len(input)
      index   == Index(c.count)
      partlen == BLOCK - index
      i       == partlen + ((len - partlen) \div BLOCK) * BLOCK
      filled  == Copy(c.buffer, index, SubSeq(input, 1, partlen))
  IN  IF Completes(len, partlen)
      THEN [count  |-> Counted(c.count, len),
            state  |-> MD5Transform(MD5Transform(c.state, filled),
                                   SubSeq(input, partlen + 1, i)),
            buffer |-> Copy(filled, index, SubSeq(input, i + 1, len))]
      ELSE [c EXCEPT !.count  = Counted(c.count, len),
                     !.buffer = Copy(c.buffer, index, input)]

(* The block in the buffer is filled up and transformed, then whole blocks *)
(* straight from the input up to its byte i; the rest waits in the buffer. *)
Update(c, input) ==
  LET len     == Len(input)
      index   == Index(c.count)
      partlen == BLOCK - index
      i       == partlen + ((len - partlen) \div BLOCK) * BLOCK
      filled  == Copy(c.buffer, index, SubSeq(input, 1, partlen))
  IN  IF Completes(len, partlen)
      THEN [count  |-> Counted(c.count, len),
            state  |-> MD5Transform(MD5Transform(c.state, filled),
                                   SubSeq(input, partlen + 1, i)),
            buffer |-> Copy(filled, 0, SubSeq(input, i + 1, len))]
      ELSE [c EXCEPT !.count  = Counted(c.count, len),
                     !.buffer = Copy(c.buffer, index, input)]

(* Seeded fault: no second block when the padding has no room in this one. *)
PadLenAtLeastNone(index) ==
  IF index <= BLOCK - 2 * HALF THEN BLOCK - 2 * HALF - index
                               ELSE 2 * BLOCK - 2 * HALF - index

(* padlen of MD5Final: at least one byte, up to where the bit count goes.  *)
PadLen(index) ==
  IF index < BLOCK - 2 * HALF THEN BLOCK - 2 * HALF - index
                              ELSE 2 * BLOCK - 2 * HALF - index

-----------------------------------------------------------------------------
(* A context nobody has initialised.                                       *)
Init ==
  /\ context = [count |-> <<0, 0>>, buffer |-> [j \in 1 .. BLOCK |-> <<"junk", 0>>],
                state |-> <<>>]
  /\ stage = "none" /\ total = 0 /\ digest = <<>>

(* The buffer keeps what the last message left in it.                      *)
MD5Init ==
  /\ stage \in {"none", "MD5Final"}
  /\ stage' = "MD5Init"
  /\ context' = [context EXCEPT !.count = <<0, 0>>, !.state = <<>>]
  /\ total' = 0
  /\ UNCHANGED digest

MD5Update(inputlen) ==
  /\ stage \in {"MD5Init", "MD5Update"}
  /\ total + inputlen <= MaxTotal
  /\ stage' = "MD5Update"
  /\ context' = Update(context, Message(total + 1, total + inputlen))
  /\ total' = total + inputlen
  /\ UNCHANGED digest

(* The bit count is taken before the padding is counted in.                *)
MD5Final ==
  /\ stage \in {"MD5Init", "MD5Update"}
  /\ stage' = "MD5Final"
  /\ LET padded == Update(context, PADDING(PadLen(Index(context.count))))
     IN  context' = Update(padded, Encoded(context.count))
  /\ digest' = context'.state
  /\ UNCHANGED total

Next ==
  \/ MD5Init
  \/ \E inputlen \in Pieces : MD5Update(inputlen)
  \/ MD5Final

Spec == Init /\ [][Next]_vars

-----------------------------------------------------------------------------
Streaming == stage \in {"MD5Init", "MD5Update"}

(* Type invariant: the halves of the count are words, and only whole       *)
(* blocks are transformed.                                                 *)
TypeOK ==
  /\ context.count \in (0 .. WORD - 1) \X (0 .. WORD - 1)
    /\ Len(context.state) % BLOCK = 0
  /\ total \in 0 .. MaxTotal

(* However the message was cut, what was transformed and what waits in the *)
(* buffer are together the message: no byte of it is lost, repeated, or    *)
(* left from an earlier one.                                               *)
NothingDropped ==
  Streaming =>
    context.state \o SubSeq(context.buffer, 1, Index(context.count)) = Message(1, total)

(* The two halves of the count are the length of the message in bits, as   *)
(* far as they reach, across every carry.                                  *)
CountIsLength ==
  Streaming =>
    context.count[1] + WORD * context.count[2] = (BYTE * total) % (WORD * WORD)

(* The context holds: the types, and a count that is the length.           *)
ContextInv == TypeOK /\ CountIsLength

(* The message as RFC 1321 pads it: one bit, as few zeros as fill a block  *)
(* up, and the length.                                                     *)
Padded(n) ==
  LET fits(k) == k > 0 /\ (n + k + 2 * HALF) % BLOCK = 0
      pad     == CHOOSE k \in 1 .. BLOCK : fits(k)
      bits    == BYTE * n
  IN  Message(1, n) \o PADDING(pad)
        \o Encoded(<<bits % WORD, (bits \div WORD) % WORD>>)

(* The digest is that of the whole message and of nothing else, whatever   *)
(* pieces it came in and whatever the context was used for before.         *)
DigestOfMessage == stage = "MD5Final" => digest = Padded(total)
==============================================================================
