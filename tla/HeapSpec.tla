------------------------------- MODULE HeapSpec ------------------------------
(***************************************************************************)
(* What a heap promises its caller, whatever the allocator behind it does. *)
(* A request is answered once, by an extent of the arena that is long      *)
(* enough for the request and its header and that no other owner holds, or *)
(* by a refusal.  An extent stays where it is until its owner gives it     *)
(* back.                                                                   *)
(***************************************************************************)
EXTENDS Integers

CONSTANTS
  ArenaLo,    (* first byte of the arena                                   *)
  ArenaHi,    (* first byte after the arena                                *)
  Header,     (* bytes of bookkeeping in front of every extent             *)
  Requests,   (* the sizes callers ask for                                 *)
  NoRequest   (* pending when nobody waits for an answer                   *)

VARIABLES
  owned,      (* the extents <<address, length>> callers hold              *)
  pending     (* the request being answered                                *)

heapVars == <<owned, pending>>

(* Two extents share no byte.                                              *)
Apart(a, m, b, n) == a + m <= b \/ b + n <= a

Init ==
  /\ owned = {}
  /\ pending = NoRequest

Request(size) ==
  /\ pending = NoRequest
  /\ pending' = size
  /\ UNCHANGED owned

(* The new extent is named through owned': an implementation decides it.   *)
Grant ==
  /\ pending # NoRequest
  /\ \E e \in owned' :
       /\ owned' = owned \cup {e}
       /\ e[2] >= pending + Header
       /\ ArenaLo <= e[1] /\ e[1] + e[2] <= ArenaHi
       /\ \A f \in owned : Apart(e[1], e[2], f[1], f[2])
  /\ pending' = NoRequest

Refuse ==
  /\ pending # NoRequest
  /\ pending' = NoRequest
  /\ UNCHANGED owned

Release ==
  /\ pending = NoRequest
  /\ \E e \in owned : owned' = owned \ {e}
  /\ UNCHANGED pending

Next ==
  \/ \E size \in Requests : Request(size)
  \/ Grant
  \/ Refuse
  \/ Release

Spec == Init /\ [][Next]_heapVars
==============================================================================
