--------------------------- MODULE BoundedQueue ----------------------------
(***************************************************************************)
(* What the buffer of buffer.c promises: a first-in first-out queue that   *)
(* refuses a push when it is full and answers NULL when it is empty.       *)
(***************************************************************************)
EXTENDS Integers, Sequences

CONSTANTS Size, Values, NULL

VARIABLES queue,
          ret    \* what the last call returned

Init == queue = <<>> /\ ret = NULL

Push(v) ==
  \/ Len(queue) < Size /\ queue' = Append(queue, v) /\ ret' = 1
  \/ Len(queue) = Size /\ queue' = queue /\ ret' = 0

Pop ==
  \/ queue # <<>> /\ queue' = Tail(queue) /\ ret' = Head(queue)
  \/ queue = <<>> /\ queue' = queue /\ ret' = NULL

Next == Pop \/ \E v \in Values : Push(v)

Spec == Init /\ [][Next]_<<queue, ret>>
=============================================================================
