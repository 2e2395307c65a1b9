----------------------------- MODULE RingBuffer ----------------------------
(***************************************************************************)
(* The circular buffer of buffer.c: an array of pointers, where the next   *)
(* one goes (head), where the oldest one is (end), and how many there are. *)
(***************************************************************************)
EXTENDS Integers, Sequences

CONSTANTS
  BUFFER_SIZE,
  Values,        \* pointers that are pushed
  NULL

ASSUME BufferAssumption ==
  /\ BUFFER_SIZE \in Nat \ {0}
  /\ NULL \notin Values

VARIABLES buffer, head, end, count, ret
bvars == <<buffer, head, end, count, ret>>

Slots == 0..(BUFFER_SIZE - 1)

init ==
  /\ buffer = [i \in Slots |-> NULL]
  /\ head = 0 /\ end = 0 /\ count = 0 /\ ret = NULL

full  == count = BUFFER_SIZE
BUG_HeadMeetsEnd == head = end
empty == count = 0

Advanced(i) == (i + 1) % BUFFER_SIZE

push_back(value) ==
  IF full THEN ret' = 0 /\ UNCHANGED <<buffer, head, end, count>>
  ELSE /\ buffer' = [buffer EXCEPT ![head] = value]
       /\ head' = Advanced(head)
       /\ count' = count + 1
       /\ ret' = 1
       /\ end' = end

(* The slot keeps its pointer: print still shows it. *)
pop_front ==
  IF empty THEN ret' = NULL /\ UNCHANGED <<buffer, head, end, count>>
  ELSE /\ ret' = buffer[end]
       /\ end' = Advanced(end)
       /\ count' = count - 1
       /\ UNCHANGED <<buffer, head>>

BufferNext == pop_front \/ \E value \in Values : push_back(value)

BufferSpec == init /\ [][BufferNext]_bvars
-----------------------------------------------------------------------------
BufferTypeOK ==
  /\ buffer \in [Slots -> Values \union {NULL}]
  /\ head \in Slots /\ end \in Slots
  /\ count \in 0..BUFFER_SIZE
  /\ ret \in Values \union {NULL, 0, 1}

(* head, end and count are three views of one thing, kept by separate      *)
(* assignments: head lies count slots after end, also when the buffer is   *)
(* full or empty and head = end, and the slots between hold pushed values. *)
IndicesAgree ==
  /\ head = (end + count) % BUFFER_SIZE
  /\ \A k \in 0..(count - 1) : buffer[(end + k) % BUFFER_SIZE] \in Values

Contents == [k \in 1..count |-> buffer[(end + k - 1) % BUFFER_SIZE]]

Promised == INSTANCE BoundedQueue WITH
              Size <- BUFFER_SIZE, queue <- Contents

(* buffer.c implements a bounded first-in first-out queue: what pop_front  *)
(* returns is the oldest pushed pointer, whatever wraps in between.        *)
QueueSpec == Promised!Spec
=============================================================================
