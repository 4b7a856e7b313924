------------------------------- MODULE Printf --------------------------------
(***************************************************************************)
(* cpu0_printf (simulator/api/printf.c): the guest's format and arguments  *)
(* are turned into one line in a buffer of the host's, which puts prints.  *)
(*                                                                         *)
(* A format is what lies in the guest's memory from its first character    *)
(* on: the text, its NUL, and what follows.  An argument is the sequence   *)
(* of characters its conversion prints; digits and bases are left out.     *)
(***************************************************************************)
EXTENDS Naturals, Sequences, SequencesExt

CONSTANTS
  SIZE,        (* MAX_CACHE_BUFF_SIZE                                      *)
  Formats,     (* the guest's formats, with the memory behind them         *)
  Arguments    (* what the parameters behind the format print, in order    *)

NUL == "NUL"
Conversions == {"d", "x", "X", "s", "c"}

(* A format whose text ends in % is read on behind its NUL.                *)
ASSUME FormatAssumption ==
  /\ SIZE \in Nat \ {0}
  /\ \A f \in Formats : f \in Seq(STRING) /\ IsSuffix(<<NUL, NUL>>, f)
  /\ \A a \in Arguments : a \in Seq(Seq(STRING))

VARIABLES
  fmt,         (* the memory fmt points to                                 *)
  args,        (* the parameters behind it                                 *)
  pc,          (* "loop" or "done"                                         *)
  p,           (* the character p points to                                *)
  n,           (* the length formatted so far                              *)
  param_idx,   (* the parameter fetched last; the format is the first      *)
  buf,         (* the characters the loop has put in the buffer            *)
  printed      (* what puts found there                                    *)

vars == <<fmt, args, pc, p, n, param_idx, buf, printed>>

(* cpu0_printf has fetched the address of the format.                      *)
Init ==
  /\ fmt \in Formats /\ args \in Arguments
  /\ pc = "loop" /\ p = 1 /\ n = 0 /\ param_idx = 1
  /\ buf = <<>> /\ printed = <<>>

(* Seeded fault: the format counts as an argument.                         *)
ParamBefore(i) == IF i \in DOMAIN args THEN args[i] ELSE <<>>

(* abi_func_param_n of parameter i, printed.                               *)
Param(i) == IF i - 1 \in DOMAIN args THEN args[i - 1] ELSE <<>>

(* Seeded fault: sprintf in the place of snprintf.                         *)
FormattedAll(s) == n' = n + Len(s) /\ buf' = buf \o s

(* snprintf leaves no more than fits, but returns the whole length.        *)
Formatted(s) ==
  /\ n' = n + Len(s)
  /\ buf' = IF n' < SIZE THEN buf \o s ELSE SubSeq(buf \o s, 1, SIZE - 1)

(* Seeded fault: the loop goes on while there is room, as it was meant to. *)
GoesToSize == fmt[p] # NUL /\ n < SIZE

(* `n < (s32_t)(sizeof(buf) && *p)` compares n with a truth value.         *)
Goes == fmt[p] # NUL /\ n < 1

(* Seeded fault: only what is supported is consumed.                       *)
ConvertsSupported ==
  /\ pc = "loop" /\ Goes /\ fmt[p] = "%" /\ fmt[p + 1] \in Conversions
  /\ param_idx' = param_idx + 1 /\ p' = p + 2
  /\ Formatted(Param(param_idx'))
  /\ UNCHANGED <<fmt, args, pc, printed>>

Converts ==
  /\ pc = "loop" /\ Goes /\ fmt[p] = "%"
  /\ param_idx' = param_idx + 1 /\ p' = p + 2
  /\ IF fmt[p + 1] \in Conversions THEN Formatted(Param(param_idx'))
                                   ELSE UNCHANGED <<n, buf>>
  /\ UNCHANGED <<fmt, args, pc, printed>>

Copies ==
  /\ pc = "loop" /\ Goes /\ fmt[p] # "%"
  /\ buf' = Append(buf, fmt[p]) /\ n' = n + 1 /\ p' = p + 1
  /\ UNCHANGED <<fmt, args, pc, param_idx, printed>>

(* buf[n - 1] = 0 whatever n is: the last character goes.  With n = 0 the  *)
(* byte before the buffer is written, and puts finds what was in it.       *)
Puts ==
  /\ pc = "loop" /\ ~ Goes
  /\ pc' = "done"
  /\ printed' = IF n = 0 THEN <<"junk">>
                ELSE IF n <= SIZE THEN SubSeq(buf, 1, n - 1) ELSE buf
  /\ UNCHANGED <<fmt, args, p, n, param_idx, buf>>

Next == Converts \/ Copies \/ Puts

Spec == Init /\ [][Next]_vars /\ WF_vars(Next)

-----------------------------------------------------------------------------
(* What a format means: its characters up to the NUL and, for the k-th     *)
(* conversion, what the k-th argument prints.  It is read in rounds, from  *)
(* the first character on; at is the next one and arg the next argument.   *)
TextEnd(f) ==
  (CHOOSE i \in DOMAIN f : f[i] = NUL /\ \A j \in 1 .. i - 1 : f[j] # NUL) - 1

ReadOn(f, a, r) ==
  IF r.at > TextEnd(f) THEN r
  ELSE IF f[r.at] # "%"
    THEN [at |-> r.at + 1, arg |-> r.arg, text |-> r.text \o <<f[r.at]>>]
    ELSE [at |-> r.at + 2, arg |-> r.arg + 1, text |-> r.text \o
            IF f[r.at + 1] \in Conversions /\ r.arg \in DOMAIN a THEN a[r.arg] ELSE <<>>]

Reading(f, a, m) ==
  LET round[i \in Nat] == IF i = 0 THEN [at |-> 1, arg |-> 1, text |-> <<>>]
                                   ELSE ReadOn(f, a, round[i - 1])
  IN  round[m]

Meaning(f, a) == Reading(f, a, TextEnd(f)).text

(* A text that ends in a % of no conversion: it is read across its NUL.    *)
Unfinished(f, a) == Reading(f, a, TextEnd(f)).at > TextEnd(f) + 1

(* Type invariant: the loop never fills the buffer beyond its size, and n  *)
(* counts what it holds as long as that fits.                              *)
TypeOK ==
  /\ pc \in {"loop", "done"} /\ p \in DOMAIN fmt
  /\ n \in Nat /\ Len(buf) < SIZE + 1 /\ param_idx \in 1 .. Len(fmt)
  /\ n < SIZE => Len(buf) = n

(* What is printed is the beginning of what the format means: parameters   *)
(* meet their conversions, those of no known conversion included, and the  *)
(* NUL of snprintf in a full buffer is where it should be.                 *)
PrintsAPrefix ==
  pc = "done" /\ n > 0 /\ ~ Unfinished(fmt, args) => IsPrefix(printed, Meaning(fmt, args))

(* The NUL behind the text falls outside the buffer only when the format   *)
(* means nothing, or an argument alone is longer than the buffer: pieces   *)
(* that fit one by one never exceed it together.                           *)
TerminatorInside ==
  pc = "done" =>
    /\ n = 0 => Meaning(fmt, args) = <<>>
    /\ n > SIZE => \E i \in DOMAIN args : Len(args[i]) > SIZE

(* The buffer holds what n says, and its end lies where it may.            *)
BufferInv == TypeOK /\ TerminatorInside

(* Every format, one with unknown conversions or an unfinished one too,    *)
(* comes to an end and is printed.                                         *)
Ends == <>(pc = "done")
==============================================================================
