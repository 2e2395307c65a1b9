----------------------------- MODULE Allocator -----------------------------
(***************************************************************************)
(* What the kernel expects of its heap, with no table and no search: a     *)
(* request hands out a run of blocks inside the heap that nobody holds, a  *)
(* free gives exactly that run back.  `broken' is the escape clause: once  *)
(* the implementation has touched memory past its table, nothing is        *)
(* promised any more.                                                      *)
(***************************************************************************)
EXTENDS Integers

CONSTANTS TableLen,   \* blocks in the heap
          Addresses   \* block indices a pointer may name, Blocks included

VARIABLES owned,      \* owned[b]: blocks held by the caller that got block b
          broken

vars == <<owned, broken>>

Blocks == 0..(TableLen - 1)
Run(b) == b..(b + owned[b] - 1)

Init == owned = [b \in Addresses |-> 0] /\ broken = FALSE

(* A run of n > 0 blocks of the heap that no caller holds is handed out. *)
Alloc(b, n) ==
  /\ b..(b + n - 1) \subseteq Blocks
  /\ \A a \in Addresses : Run(a) \cap (b..(b + n - 1)) = {}
  /\ owned' = [owned EXCEPT ![b] = n]
  /\ broken' = FALSE

Free(b) ==
  /\ owned[b] > 0
  /\ owned' = [owned EXCEPT ![b] = 0]
  /\ broken' = FALSE

Next ==
  \/ /\ ~broken
     /\ \E b \in Addresses : Free(b) \/ \E n \in 1..TableLen : Alloc(b, n)
  \/ broken'

Spec == Init /\ [][Next]_vars
=============================================================================
