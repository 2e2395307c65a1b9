----------------------------- MODULE RoundRobin -----------------------------
(***************************************************************************)
(* What the scheduler promises, with no pointers, stacks or half-finished  *)
(* insertions: a queue of tasks whose head is running.  A timer tick sends *)
(* the head to the back; a new task is admitted, while the system task     *)
(* runs, right behind it.                                                  *)
(***************************************************************************)
EXTENDS Integers, Sequences

CONSTANTS Tasks,   \* task identities
          System   \* the task that admits others

VARIABLE queue

Init == queue = <<>>

Start == queue = <<>> /\ queue' = <<System>>

Tick == queue # <<>> /\ queue' = Append(Tail(queue), Head(queue))

Admit(t) ==
  /\ queue # <<>> /\ Head(queue) = System
  /\ \A k \in DOMAIN queue : queue[k] # t
  /\ queue' = <<System, t>> \o Tail(queue)

Next == Start \/ Tick \/ \E t \in Tasks : Admit(t)

Spec == Init /\ [][Next]_queue
=============================================================================
