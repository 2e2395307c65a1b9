--------------------------- MODULE TaskingProofs ---------------------------
(***************************************************************************)
(* The invariants of tasking for any number of processes and any           *)
(* interleaving of interrupts with the creation of tasks, and that the     *)
(* ring of tasks implements the round-robin queue.                         *)
(***************************************************************************)
EXTENDS Tasking, FiniteSetTheorems, WellFoundedInduction, TLAPS

(* Frame at t's saved kernel stack pointer resumes t. *)
GoodSaved(t) ==
  /\ ksp[t].stack = t
  /\ kstack[t][ksp[t].depth].task = t
  /\ \/ kstack[t][ksp[t].depth].mode = ModeOf(t) /\ ksp[t].depth = 1
     \/ /\ kstack[t][ksp[t].depth].mode = "stub" /\ ksp[t].depth = 2
        /\ ModeOf(t) = "user"
        /\ kstack[t][1] = [task |-> t, mode |-> "user"]

SaveInv == \A t \in linked \ {current_task} : GoodSaved(t)

DepthInv == \A t \in Pids : ksp[t].depth <= 2

(* The running context matches current_task; before init_system_process    *)
(* there is no current_task and the CPU runs on the system task's stack.   *)
BootState ==
  /\ current_task = NULL /\ linked = {}
  /\ cpu_task = System /\ cpu_mode = "kernel" /\ sp = EmptyStack(System)
  /\ esp0 = System /\ cr3 = System /\ ~iflag

RunState ==
  /\ current_task \in linked /\ System \in linked
  /\ cpu_task = current_task
  /\ cr3 = DirectoryOf(current_task)
  /\ esp0 = current_task
  /\ sp.stack = current_task
  /\ \/ cpu_mode = ModeOf(current_task) /\ sp.depth = 0
     \/ /\ cpu_mode = "stub" /\ sp.depth = 1
        /\ ModeOf(current_task) = "user"
        /\ kstack[current_task][1] = [task |-> current_task, mode |-> "user"]

RunInv ==
  /\ pc = "boot" => BootState
  /\ pc # "boot" => RunState
  /\ pc = "sti" => linked = {System} /\ ~iflag

(* The task under construction: its first frame is in place before it is   *)
(* linked, and the pointers of the half-done insertion are known.          *)
NewInv ==
  /\ pc \in {"task_new", "link1", "link2", "link3", "link4", "finish"}
       => new \in Pids \ {System}
  /\ pc \in {"task_new", "link1", "link2", "link3"} => new \notin linked
  /\ pc \in {"link1", "link2", "link3"} =>
       /\ ksp[new] = [stack |-> new, depth |-> 1]
       /\ kstack[new][1] = [task |-> new, mode |-> ModeOf(new)]
  /\ pc \in {"link2", "link3", "link4", "finish"} => previous[new] = System
  /\ pc = "link3" => next[new] = next[System]
  /\ pc \in {"link4", "finish"} =>
       /\ new \in linked
       /\ next[System] = new
       /\ next[new] \in linked \ {new}
  /\ pc = "link4" => previous[next[new]] = System

(* The table of processes and the ring name the same tasks, but for the    *)
(* one under construction.                                                 *)
TableInv ==
  /\ \A t \in linked :
       \/ processes[t] = "live"
       \/ /\ t = Idle /\ new = Idle /\ processes[t] = "null"
          /\ pc \in {"link4", "finish"}
  /\ \A t \in Pids :
       processes[t] = "live" =>
         \/ t \in linked
         \/ t = new /\ pc \in {"task_new", "link1", "link2", "link3"}
         \/ pc = "panic"
  /\ pc \in {"task_new", "link1", "link2", "link3"} =>
       processes[new] = "live" \/ (new = Idle /\ processes[new] = "null")
  /\ pc \in {"boot", "sti"} => processes[Idle] = "null"

CInv == TypeOK /\ RunInv /\ SaveInv /\ DepthInv /\ NewInv /\ TableInv /\ RingClosed

(* Init establishes the invariant. *)
LEMMA CInvInit == Init => CInv
<1> SUFFICES ASSUME Init PROVE CInv
  OBVIOUS
<1> USE TaskingAssumption
<1>1. TypeOK
  <2>1. kstack \in [Pids -> [1..MaxDepth -> Frames]]
    BY DEF Init, EmptyFrame, Frames, Pids, System, Modes
  <2>2. ksp \in [Pids -> StackPointers] /\ sp \in StackPointers
    BY DEF Init, EmptyStack, StackPointers, Depths, Pids, System
  <2>3. /\ next \in [Pids -> Pids \cup {NULL}] /\ previous \in [Pids -> Pids \cup {NULL}]
        /\ pnext \in [Pids -> Pids \cup {NULL}] /\ pprevious \in [Pids -> Pids \cup {NULL}]
        /\ processes \in [Pids -> {"null", "live", "dangling"}]
    BY DEF Init
  <2>4. /\ current_task \in Pids \cup {NULL} /\ new \in Pids \cup {NULL}
        /\ cpu_task \in Pids /\ cpu_mode \in Modes /\ esp0 \in Pids /\ cr3 \in Pids
        /\ pc \in Pcs /\ in_service \subseteq SlaveIRQs /\ linked \subseteq Pids
        /\ pc = "boot"
    BY DEF Init, Pids, System, Modes, DirectoryOf, Pcs
  <2>5. iflag \in BOOLEAN /\ halted \in BOOLEAN
    BY DEF Init
  <2> QED
    BY <2>1, <2>2, <2>3, <2>4, <2>5 DEF TypeOK
<1>2. RunInv /\ NewInv
  BY DEF Init, RunInv, BootState, NewInv, DirectoryOf, System
<1>3. SaveInv /\ RingClosed /\ TableInv
  BY DEF Init, SaveInv, RingClosed, TableInv, Idle, Pids
<1>4. DepthInv
  BY DEF Init, DepthInv, EmptyStack
<1> QED
  BY <1>1, <1>2, <1>3, <1>4 DEF CInv

-----------------------------------------------------------------------------
(* A tick saves the running task's frame on its own stack and resumes its  *)
(* successor where that was interrupted (idt.c:105-115, task.c:255-287).   *)
LEMMA TickKeeps ==
  ASSUME CInv, Tick
  PROVE  CInv'
<1> USE TaskingAssumption
<1>1. UNCHANGED <<next, previous, linked, processes, pnext, pprevious, iflag,
                  pc, new, in_service, halted>>
  BY DEF Tick, ringVars, procVars
<1>2. pc # "boot" /\ pc # "sti" /\ RunState
  BY DEF Tick, CInv, RunInv, BootState
<1>a. linked \subseteq Pids
  BY DEF CInv, TypeOK
<1>b. PICK c \in linked : c = current_task
  BY <1>2 DEF RunState
<1>c. PICK n \in linked : n = next[current_task]
  BY <1>2 DEF RunState, CInv, RingClosed
<1>3. c \in Pids /\ n \in Pids /\ c \in linked /\ n \in linked
  BY <1>a
<1> DEFINE p == FramePointer
<1>4. /\ p.stack = c
      /\ p.depth = IF cpu_mode = "stub" THEN 2 ELSE 1
      /\ p = [stack |-> c, depth |-> p.depth]
  BY <1>2, <1>b DEF FramePointer, RunState, ModeOf
<1>5. kstack' = [kstack EXCEPT ![c][p.depth] = [task |-> c, mode |-> cpu_mode]]
  BY <1>2, <1>4, <1>b DEF Tick, PushFrame, RunState
<1>6. ksp' = [ksp EXCEPT ![c] = p]
  BY <1>b DEF Tick, task_store
<1>7. /\ kstack'[c][p.depth] = [task |-> c, mode |-> cpu_mode]
      /\ p.depth = 2 => kstack'[c][1] = kstack[c][1]
      /\ \A t \in Pids \ {c} : kstack'[t] = kstack[t]
      /\ kstack' \in [Pids -> [1..MaxDepth -> Frames]]
  BY <1>3, <1>4, <1>5 DEF CInv, TypeOK, Frames
<1>8. /\ ksp'[c] = p
      /\ \A t \in Pids \ {c} : ksp'[t] = ksp[t]
      /\ ksp' \in [Pids -> StackPointers]
  BY <1>3, <1>4, <1>6 DEF CInv, TypeOK, StackPointers, Depths
<1> HIDE DEF p
<1>9. GoodSaved(c)'
  <2>1. ksp'[c].stack = c /\ ksp'[c].depth = p.depth
    BY <1>4, <1>8
  <2>2. CASE cpu_mode = "stub"
    BY <2>1, <2>2, <1>2, <1>4, <1>7, <1>b DEF RunState, GoodSaved, ModeOf
  <2>3. CASE cpu_mode # "stub"
    BY <2>1, <2>3, <1>2, <1>4, <1>7, <1>b DEF RunState, GoodSaved
  <2> QED
    BY <2>2, <2>3
<1>10. \A t \in linked : GoodSaved(t)'
  <2> SUFFICES ASSUME NEW t \in linked, t # c PROVE GoodSaved(t)'
    BY <1>9
  <2>1. GoodSaved(t) /\ kstack'[t] = kstack[t] /\ ksp'[t] = ksp[t]
    BY <1>a, <1>b, <1>7, <1>8 DEF CInv, SaveInv
  <2> QED
    BY <2>1 DEF GoodSaved
<1>11. /\ current_task' = n /\ esp0' = n /\ cr3' = DirectoryOf(n)
  BY <1>2, <1>b, <1>c DEF Tick, SwitchTo, task_next, RunState
<1>12. Resume(ksp'[n])
  BY <1>c DEF Tick, task_next
<1>13. RunState'
  <2>1. GoodSaved(n)'
    BY <1>3, <1>10
  <2>2. /\ cpu_task' = n
        /\ cpu_mode' = kstack'[n][ksp'[n].depth].mode
        /\ sp' = IF cpu_mode' = "user" THEN [stack |-> n, depth |-> 0]
                 ELSE [stack |-> n, depth |-> ksp'[n].depth - 1]
    BY <1>12, <2>1 DEF Resume, GoodSaved, EmptyStack
  <2>3. CASE cpu_mode' = ModeOf(n) /\ ksp'[n].depth = 1
    BY <2>2, <2>3, <1>1, <1>2, <1>3, <1>11 DEF RunState
  <2>4. CASE /\ cpu_mode' = "stub" /\ ksp'[n].depth = 2
             /\ ModeOf(n) = "user"
             /\ kstack'[n][1] = [task |-> n, mode |-> "user"]
    BY <2>2, <2>4, <1>1, <1>2, <1>3, <1>11 DEF RunState
  <2> QED
    BY <2>1, <2>2, <2>3, <2>4 DEF GoodSaved
<1>14. TypeOK'
  <2>1. /\ cpu_mode' \in Modes
        /\ sp'.stack = n /\ sp'.depth \in {0, 1}
        /\ sp' = [stack |-> n, depth |-> sp'.depth]
    <3>1. GoodSaved(n)'
      BY <1>3, <1>10
    <3>2. sp' = IF cpu_mode' = "user" THEN [stack |-> n, depth |-> 0]
                 ELSE [stack |-> n, depth |-> ksp'[n].depth - 1]
      BY <1>12, <3>1 DEF Resume, GoodSaved, EmptyStack
    <3>3. ksp'[n].depth \in {1, 2}
      BY <3>1 DEF GoodSaved
    <3>4. cpu_mode' \in Modes
      BY <1>13, <1>11 DEF RunState, ModeOf, Modes
    <3> QED
      BY <3>2, <3>3, <3>4
  <2>2. sp' \in StackPointers
    BY <2>1, <1>3 DEF StackPointers, Depths
  <2>3. cr3' \in Pids
    BY <1>3, <1>11 DEF DirectoryOf, Pids, System
  <2>4. cpu_task' \in Pids
    BY <1>13, <1>11, <1>3 DEF RunState
  <2> QED
    BY <2>1, <2>2, <2>3, <2>4, <1>1, <1>3, <1>7, <1>8, <1>11 DEF CInv, TypeOK
<1>15. RunInv'
  BY <1>1, <1>2, <1>13 DEF RunInv
<1>16. SaveInv'
  BY <1>1, <1>10 DEF SaveInv
<1>17. DepthInv'
  BY <1>4, <1>8 DEF CInv, DepthInv
<1>18. NewInv'
  <2>1. pc \in {"link1", "link2", "link3"} => new # c /\ new \in Pids
    BY <1>3, <1>a DEF CInv, NewInv
  <2> QED
    BY <2>1, <1>1, <1>7, <1>8 DEF CInv, NewInv
<1>19. TableInv' /\ RingClosed'
  BY <1>1 DEF CInv, TableInv, RingClosed
<1> QED
  BY <1>14, <1>15, <1>16, <1>17, <1>18, <1>19 DEF CInv

(* An interrupt whose handler returns its own frame resumes the task it    *)
(* interrupted (idt.asm:58-109).                                           *)
LEMMA PushPopKeeps ==
  ASSUME CInv, RunState, PushFrame, Resume(FramePointer),
         UNCHANGED <<ringVars, current_task, ksp, esp0, cr3, procVars, iflag,
                     pc, new, halted>>,
         in_service' \subseteq SlaveIRQs,
         pc # "boot", pc # "sti"
  PROVE  CInv'
<1> USE TaskingAssumption
<1>1. UNCHANGED <<next, previous, linked, current_task, ksp, esp0, cr3,
                  processes, pnext, pprevious, iflag, pc, new, halted>>
  BY DEF ringVars, procVars
<1>2. linked \subseteq Pids
  BY DEF CInv, TypeOK
<1>3. PICK c \in linked : c = current_task
  BY DEF RunState
<1>4. PICK d \in {1, 2} : /\ FramePointer = [stack |-> c, depth |-> d]
                          /\ d = IF cpu_mode = "stub" THEN 2 ELSE 1
  BY <1>3 DEF FramePointer, RunState, ModeOf
<1>5. kstack' = [kstack EXCEPT ![c][d] = [task |-> c, mode |-> cpu_mode]]
  BY <1>3, <1>4 DEF PushFrame, RunState
<1>6. /\ kstack'[c][d] = [task |-> c, mode |-> cpu_mode]
      /\ d = 2 => kstack'[c][1] = kstack[c][1]
      /\ \A t \in Pids \ {c} : kstack'[t] = kstack[t]
      /\ kstack' \in [Pids -> [1..MaxDepth -> Frames]]
  <2>1. c \in Pids /\ d \in 1..MaxDepth /\ [task |-> c, mode |-> cpu_mode] \in Frames
    BY <1>2, <1>4 DEF CInv, TypeOK, Frames
  <2>2. kstack \in [Pids -> [1..MaxDepth -> Frames]] /\ 1 \in 1..MaxDepth
    BY DEF CInv, TypeOK
  <2> QED
    BY <1>5, <2>1, <2>2
<1>7. cpu_task' = c /\ cpu_mode' = cpu_mode
  BY <1>4, <1>6 DEF Resume
<1>8. sp' = sp
  <2>1. sp = [stack |-> sp.stack, depth |-> sp.depth]
    BY DEF CInv, TypeOK, StackPointers
  <2>2. sp' = [stack |-> c, depth |-> d - 1]
    BY <1>4, <1>6 DEF Resume, EmptyStack
  <2> QED
    BY <2>1, <2>2, <1>3, <1>4 DEF RunState, ModeOf
<1>9. RunState'
  <2>1. cpu_mode = "stub" => kstack'[c][1] = kstack[c][1]
    BY <1>4, <1>6
  <2> QED
    BY <2>1, <1>1, <1>3, <1>7, <1>8 DEF RunState, ModeOf
<1>10. TypeOK'
  BY <1>1, <1>2, <1>3, <1>6, <1>7, <1>8 DEF CInv, TypeOK
<1>11. RunInv'
  BY <1>1, <1>9 DEF CInv, RunInv
<1>12. SaveInv'
  <2> SUFFICES ASSUME NEW t \in linked, t # c PROVE GoodSaved(t)'
    BY <1>1, <1>3 DEF SaveInv
  <2>1. GoodSaved(t) /\ kstack'[t] = kstack[t] /\ ksp'[t] = ksp[t]
    BY <1>1, <1>2, <1>3, <1>6 DEF CInv, SaveInv
  <2> QED
    BY <2>1 DEF GoodSaved
<1>13. NewInv'
  <2>1. pc \in {"link1", "link2", "link3"} => new # c /\ new \in Pids
    BY <1>2, <1>3 DEF CInv, NewInv
  <2> QED
    BY <2>1, <1>1, <1>6 DEF CInv, NewInv
<1>14. DepthInv' /\ TableInv' /\ RingClosed'
  BY <1>1 DEF CInv, DepthInv, TableInv, RingClosed
<1> QED
  BY <1>10, <1>11, <1>12, <1>13, <1>14 DEF CInv

(* Interrupts that do not switch tasks. *)
LEMMA InterruptKeeps ==
  ASSUME CInv, InterruptReturns \/ \E irq \in SlaveIRQs : SlaveInterrupt(irq)
  PROVE  CInv'
<1>1. iflag => RunState /\ pc # "boot" /\ pc # "sti"
  BY DEF CInv, RunInv, BootState
<1>2. in_service \subseteq SlaveIRQs
  BY DEF CInv, TypeOK
<1>3. CASE InterruptReturns
  BY <1>1, <1>2, <1>3, PushPopKeeps DEF InterruptReturns
<1>4. CASE \E irq \in SlaveIRQs : SlaveInterrupt(irq)
  <2> PICK irq \in SlaveIRQs : SlaveInterrupt(irq)
    BY <1>4
  <2>1. in_service' \subseteq SlaveIRQs
    BY <1>2 DEF SlaveInterrupt, pic_ack
  <2> QED
    BY <1>1, <2>1, PushPopKeeps DEF SlaveInterrupt
<1> QED
  BY <1>3, <1>4

(* A trap pushes its frame at the bottom of the program's empty kernel     *)
(* stack (idt.c:230-231).                                                  *)
LEMMA TrapEntryKeeps ==
  ASSUME CInv, TrapEntry
  PROVE  CInv'
<1> USE TaskingAssumption
<1>1. UNCHANGED <<next, previous, linked, current_task, ksp, cpu_task, esp0, cr3,
                  processes, pnext, pprevious, iflag, pc, new, in_service, halted>>
  BY DEF TrapEntry, ringVars, procVars
<1>2. linked \subseteq Pids
  BY DEF CInv, TypeOK
<1>3. RunState /\ pc # "boot" /\ pc # "sti" /\ ModeOf(current_task) = "user"
  BY DEF TrapEntry, CInv, RunInv, BootState, RunState, ModeOf
<1>4. PICK c \in linked : c = current_task
  BY <1>3 DEF RunState
<1>5. FramePointer = [stack |-> c, depth |-> 1]
  BY <1>3, <1>4 DEF FramePointer, RunState, TrapEntry
<1>6. kstack' = [kstack EXCEPT ![c][1] = [task |-> c, mode |-> "user"]]
  BY <1>3, <1>4, <1>5 DEF TrapEntry, PushFrame, RunState
<1>7. /\ kstack'[c][1] = [task |-> c, mode |-> "user"]
      /\ \A t \in Pids \ {c} : kstack'[t] = kstack[t]
      /\ kstack' \in [Pids -> [1..MaxDepth -> Frames]]
  <2>1. c \in Pids /\ [task |-> c, mode |-> "user"] \in Frames
    BY <1>2 DEF Frames, Modes
  <2>2. kstack \in [Pids -> [1..MaxDepth -> Frames]] /\ 1 \in 1..MaxDepth
    BY DEF CInv, TypeOK
  <2> QED
    BY <1>6, <2>1, <2>2
<1>8. sp' = [stack |-> c, depth |-> 1] /\ cpu_mode' = "stub"
  BY <1>5 DEF TrapEntry
<1>9. RunState'
  BY <1>1, <1>3, <1>4, <1>7, <1>8 DEF RunState
<1>10. TypeOK'
  BY <1>1, <1>2, <1>4, <1>7, <1>8 DEF CInv, TypeOK, StackPointers, Depths, Modes
<1>11. RunInv'
  BY <1>1, <1>3, <1>9 DEF CInv, RunInv
<1>12. SaveInv'
  <2> SUFFICES ASSUME NEW t \in linked, t # c PROVE GoodSaved(t)'
    BY <1>1, <1>4 DEF SaveInv
  <2>1. GoodSaved(t) /\ kstack'[t] = kstack[t] /\ ksp'[t] = ksp[t]
    BY <1>1, <1>2, <1>4, <1>7 DEF CInv, SaveInv
  <2> QED
    BY <2>1 DEF GoodSaved
<1>13. NewInv'
  <2>1. pc \in {"link1", "link2", "link3"} => new # c /\ new \in Pids
    BY <1>2, <1>4 DEF CInv, NewInv
  <2> QED
    BY <2>1, <1>1, <1>7 DEF CInv, NewInv
<1>14. DepthInv' /\ TableInv' /\ RingClosed'
  BY <1>1 DEF CInv, DepthInv, TableInv, RingClosed
<1> QED
  BY <1>10, <1>11, <1>12, <1>13, <1>14 DEF CInv

(* The return of a trap finds the program's frame; a fault changes nothing *)
(* but the halt.                                                           *)
LEMMA TrapReturnKeeps ==
  ASSUME CInv, TrapReturn \/ Fault
  PROVE  CInv'
<1> USE TaskingAssumption
<1>1. CASE TrapReturn
  <2>1. UNCHANGED <<next, previous, linked, current_task, ksp, kstack, esp0, cr3,
                    processes, pnext, pprevious, iflag, pc, new, in_service, halted>>
    BY <1>1 DEF TrapReturn, ringVars, procVars
  <2>2. RunState /\ pc # "boot" /\ pc # "sti" /\ cpu_mode = "stub"
    BY <1>1 DEF TrapReturn, CInv, RunInv, BootState, RunState, ModeOf
  <2>3. PICK c \in linked : c = current_task
    BY <2>2 DEF RunState
  <2>4. /\ ModeOf(c) = "user" /\ sp.stack = c /\ sp.depth = 1
        /\ kstack'[c][1] = [task |-> c, mode |-> "user"]
    BY <2>1, <2>2, <2>3 DEF RunState, ModeOf
  <2>5. cpu_task' = c /\ cpu_mode' = "user" /\ sp' = [stack |-> c, depth |-> 0]
    BY <1>1, <2>4 DEF TrapReturn, Resume, EmptyStack
  <2>6. RunState'
    BY <2>1, <2>2, <2>3, <2>4, <2>5 DEF RunState
  <2>7. TypeOK'
    BY <2>1, <2>3, <2>5 DEF CInv, TypeOK, StackPointers, Depths, Modes
  <2>8. RunInv'
    BY <2>1, <2>2, <2>6 DEF RunInv
  <2>9. SaveInv' /\ DepthInv' /\ NewInv' /\ TableInv' /\ RingClosed'
    BY <2>1 DEF CInv, SaveInv, GoodSaved, DepthInv, NewInv, TableInv, RingClosed
  <2> QED
    BY <2>7, <2>8, <2>9 DEF CInv
<1>2. CASE Fault
  <2>1. /\ UNCHANGED <<next, previous, linked, current_task, ksp, kstack, cpu_task,
                       cpu_mode, sp, esp0, cr3, processes, pnext, pprevious, iflag,
                       pc, new, in_service>>
        /\ halted' = TRUE
    BY <1>2 DEF Fault, ringVars, cpuVars, procVars
  <2>2. TypeOK'
    BY <2>1 DEF CInv, TypeOK
  <2>3. RunInv'
    BY <2>1 DEF CInv, RunInv, BootState, RunState
  <2>4. SaveInv' /\ DepthInv' /\ NewInv' /\ TableInv' /\ RingClosed'
    BY <2>1 DEF CInv, SaveInv, GoodSaved, DepthInv, NewInv, TableInv, RingClosed
  <2> QED
    BY <2>2, <2>3, <2>4 DEF CInv
<1> QED
  BY <1>1, <1>2
-----------------------------------------------------------------------------
(* Bringing up the system task (process.c:152-213). *)
LEMMA BootKeeps ==
  ASSUME CInv, init_system_process \/ enable_interrupts
  PROVE  CInv'
<1> USE TaskingAssumption
<1>1. CASE init_system_process
  <2>1. /\ UNCHANGED <<ksp, kstack, cpu_task, cpu_mode, sp, esp0, cr3, iflag, new,
                       in_service, halted>>
        /\ linked' = {System} /\ current_task' = System /\ pc' = "sti"
        /\ next' = [next EXCEPT ![System] = System]
        /\ previous' = [previous EXCEPT ![System] = System]
        /\ processes' = [processes EXCEPT ![System] = "live"]
        /\ pnext' = [pnext EXCEPT ![System] = System]
        /\ pprevious' = [pprevious EXCEPT ![System] = System]
    BY <1>1 DEF init_system_process
  <2>2. BootState /\ pc = "boot"
    BY <1>1 DEF init_system_process, CInv, RunInv
  <2>3. System \in Pids
    BY DEF System, Pids
  <2>4. TypeOK'
    BY <2>1, <2>3 DEF CInv, TypeOK, Pcs
  <2>5. RunInv'
    BY <2>1, <2>2 DEF BootState, RunInv, RunState, EmptyStack, ModeOf, DirectoryOf
  <2>6. SaveInv' /\ NewInv' /\ DepthInv'
    BY <2>1 DEF CInv, SaveInv, NewInv, DepthInv
  <2>7. TableInv'
    BY <2>1, <2>2, <2>3 DEF CInv, TableInv, BootState, TypeOK, Idle, System, Pids
  <2>8. RingClosed'
    BY <2>1, <2>3 DEF CInv, RingClosed, TypeOK
  <2> QED
    BY <2>4, <2>5, <2>6, <2>7, <2>8 DEF CInv
<1>2. CASE enable_interrupts
  <2>1. /\ UNCHANGED <<next, previous, linked, current_task, ksp, kstack, cpu_task,
                       cpu_mode, sp, esp0, cr3, processes, pnext, pprevious,
                       in_service, halted>>
        /\ pc = "sti" /\ iflag' = TRUE /\ pc' = "task_new" /\ new' = Idle
    BY <1>2 DEF enable_interrupts, ringVars, cpuVars, procVars
  <2>2. Idle \in Pids \ {System} /\ RunState /\ linked = {System}
    BY <2>1 DEF CInv, RunInv, System, Idle, Pids
  <2>3. TypeOK'
    BY <2>1, <2>2 DEF CInv, TypeOK, Pcs
  <2>4. RunInv' /\ NewInv' /\ SaveInv' /\ DepthInv'
    BY <2>1, <2>2 DEF CInv, RunInv, RunState, NewInv, SaveInv, GoodSaved, DepthInv
  <2>5. TableInv' /\ RingClosed'
    BY <2>1 DEF CInv, TableInv, RingClosed
  <2> QED
    BY <2>3, <2>4, <2>5 DEF CInv
<1> QED
  BY <1>1, <1>2

(* The allocations of process_load and their failures (process.c:215-300). *)
LEMMA LoadKeeps ==
  ASSUME CInv, TaskNewFails \/ \E t \in Pids \cup {NULL} : process_load(t)
  PROVE  CInv'
<1> USE TaskingAssumption
<1>1. CASE TaskNewFails
  <2>1. /\ UNCHANGED <<next, previous, linked, current_task, ksp, kstack, cpu_task,
                       cpu_mode, sp, esp0, cr3, pnext, pprevious, iflag, new,
                       in_service, halted>>
        /\ pc = "task_new" /\ pc' = "ready" /\ new # Idle
        /\ processes' = [processes EXCEPT ![new] = "dangling"]
    BY <1>1 DEF TaskNewFails, ringVars, cpuVars
  <2>2. new \in Pids /\ new \notin linked /\ linked \subseteq Pids
    BY <2>1 DEF CInv, NewInv, TypeOK
  <2>3. TypeOK'
    BY <2>1 DEF CInv, TypeOK, Pcs
  <2>4. RunInv' /\ NewInv' /\ SaveInv' /\ DepthInv' /\ RingClosed'
    BY <2>1 DEF CInv, RunInv, RunState, NewInv, SaveInv, GoodSaved, DepthInv, RingClosed
  <2>5. TableInv'
    BY <2>1, <2>2 DEF CInv, TableInv, TypeOK
  <2> QED
    BY <2>3, <2>4, <2>5 DEF CInv
<1>2. ASSUME NEW u \in Pids, process_load(u) PROVE CInv'
  <2>1. /\ UNCHANGED <<next, previous, linked, current_task, ksp, kstack, cpu_task,
                       cpu_mode, sp, esp0, cr3, pnext, pprevious, iflag,
                       in_service, halted>>
        /\ pc = "ready" /\ processes[u] = "null"
        /\ \/ pc' = "task_new" /\ new' = u
              /\ processes' = [processes EXCEPT ![u] = "live"]
           \/ pc' = "ready" /\ new' = new
              /\ processes' = [processes EXCEPT ![u] = "dangling"]
           \/ pc' = "panic" /\ new' = new
              /\ processes' = [processes EXCEPT ![u] = "live"]
    BY <1>2 DEF process_load, SlotFound, ringVars, cpuVars
  <2>2. u \notin linked /\ linked \subseteq Pids /\ System \in linked
    BY <2>1 DEF CInv, TableInv, TypeOK, RunInv, RunState
  <2>3. TypeOK'
    BY <2>1 DEF CInv, TypeOK, Pcs
  <2>4. RunInv' /\ SaveInv' /\ DepthInv'
    BY <2>1 DEF CInv, RunInv, RunState, SaveInv, GoodSaved, DepthInv
  <2>5. NewInv' /\ RingClosed'
    BY <2>1, <2>2 DEF CInv, NewInv, RingClosed
  <2>6. TableInv'
    <3>1. /\ \A t \in linked : processes[t] = "live"
          /\ \A t \in Pids : processes[t] = "live" => t \in linked
      BY <2>1 DEF CInv, TableInv
    <3>2. /\ \A t \in Pids \ {u} : processes'[t] = processes[t]
          /\ processes'[u] \in {"live", "dangling"}
          /\ pc' = "ready" => processes'[u] # "live"
          /\ pc' = "task_new" => processes'[u] = "live"
      BY <2>1 DEF CInv, TypeOK
    <3>3. \A t \in linked : processes'[t] = "live"
      BY <3>1, <3>2, <2>2
    <3>4. \A t \in Pids : processes'[t] = "live" => t \in linked \/ t = u
      BY <3>1, <3>2
    <3>5. /\ linked' = linked /\ pc' \in {"ready", "task_new", "panic"}
          /\ pc' = "task_new" => new' = u
      BY <2>1
    <3>6. ASSUME NEW t \in Pids, processes'[t] = "live"
          PROVE  t \in linked \/ (t = new' /\ pc' = "task_new") \/ pc' = "panic"
      BY <3>2, <3>4, <3>5, <3>6
    <3>7. pc' = "task_new" => processes'[new'] = "live"
      BY <3>2, <3>5
    <3> QED
      BY <3>3, <3>5, <3>6, <3>7 DEF TableInv
  <2> QED
    BY <2>3, <2>4, <2>5, <2>6 DEF CInv
<1>3. \A t : process_load(t) => t # NULL
  BY DEF process_load, SlotFound
<1> QED
  BY <1>1, <1>2, <1>3

(* The new task's first frame is written before the task is linked         *)
(* (task.c:103-113).                                                       *)
LEMMA TaskNewKeeps ==
  ASSUME CInv, task_new
  PROVE  CInv'
<1> USE TaskingAssumption
<1>1. /\ UNCHANGED <<linked, current_task, cpu_task, cpu_mode, sp, esp0, cr3,
                     processes, pnext, pprevious, iflag, new, in_service, halted>>
      /\ pc = "task_new" /\ pc' = "link1"
      /\ ksp' = [ksp EXCEPT ![new] = [stack |-> new, depth |-> 1]]
      /\ next' = [next EXCEPT ![new] = NULL]
      /\ previous' = [previous EXCEPT ![new] = NULL]
      /\ kstack' = [kstack EXCEPT ![new][1] = [task |-> new, mode |-> ModeOf(new)]]
  BY DEF task_new, task_push_state_to_kstack, procVars
<1>2. PICK w \in Pids \ {System} : w = new /\ w \notin linked
  BY <1>1 DEF CInv, NewInv
<1>3. linked \subseteq Pids /\ current_task \in linked /\ RunState
  BY <1>1 DEF CInv, TypeOK, RunInv, RunState
<1>4. /\ kstack'[w][1] = [task |-> w, mode |-> ModeOf(w)]
      /\ \A t \in Pids \ {w} : kstack'[t] = kstack[t]
      /\ kstack' \in [Pids -> [1..MaxDepth -> Frames]]
  <2>1. [task |-> w, mode |-> ModeOf(w)] \in Frames
    BY DEF Frames, Modes, ModeOf
  <2>2. kstack \in [Pids -> [1..MaxDepth -> Frames]] /\ 1 \in 1..MaxDepth
    BY DEF CInv, TypeOK
  <2> QED
    BY <1>1, <1>2, <2>1, <2>2
<1>5. /\ ksp'[w] = [stack |-> w, depth |-> 1]
      /\ \A t \in Pids \ {w} : ksp'[t] = ksp[t] /\ next'[t] = next[t]
                               /\ previous'[t] = previous[t]
      /\ ksp' \in [Pids -> StackPointers]
  BY <1>1, <1>2 DEF CInv, TypeOK, StackPointers, Depths
<1>6. TypeOK'
  BY <1>1, <1>4, <1>5 DEF CInv, TypeOK, Pcs
<1>7. RunInv'
  <2>1. kstack'[current_task] = kstack[current_task]
    BY <1>2, <1>3, <1>4
  <2> QED
    BY <2>1, <1>1, <1>3 DEF RunInv, RunState
<1>8. SaveInv'
  <2> SUFFICES ASSUME NEW t \in linked, t # current_task PROVE GoodSaved(t)'
    BY <1>1 DEF SaveInv
  <2>1. GoodSaved(t) /\ kstack'[t] = kstack[t] /\ ksp'[t] = ksp[t]
    BY <1>2, <1>3, <1>4, <1>5 DEF CInv, SaveInv
  <2> QED
    BY <2>1 DEF GoodSaved
<1>9. NewInv'
  BY <1>1, <1>2, <1>4, <1>5 DEF CInv, NewInv
<1>10. DepthInv' /\ TableInv'
  BY <1>1, <1>2, <1>5 DEF CInv, DepthInv, TableInv
<1>11. RingClosed'
  <2> SUFFICES ASSUME NEW t \in linked
               PROVE  next'[t] \in linked /\ previous'[next'[t]] = t
    BY <1>1 DEF RingClosed
  <2>1. next[t] \in linked /\ previous[next[t]] = t
    BY <1>1 DEF CInv, RingClosed
  <2> QED
    BY <2>1, <1>2, <1>3, <1>5
<1> QED
  BY <1>6, <1>7, <1>8, <1>9, <1>10, <1>11 DEF CInv

(* The stores of task_list_insert that other tasks cannot see yet          *)
(* (task.c:47-48).                                                         *)
LEMMA HiddenLinksKeep ==
  ASSUME CInv, link1 \/ link2
  PROVE  CInv'
<1> USE TaskingAssumption
<1>1. /\ UNCHANGED <<linked, current_task, ksp, kstack, cpu_task, cpu_mode, sp,
                     esp0, cr3, processes, pnext, pprevious, iflag, new,
                     in_service, halted>>
      /\ \/ /\ pc = "link1" /\ pc' = "link2" /\ next' = next
            /\ previous' = [previous EXCEPT ![new] = current_task]
         \/ /\ pc = "link2" /\ pc' = "link3" /\ previous' = previous
            /\ next' = [next EXCEPT ![new] = next[current_task]]
      /\ cpu_task = System
  BY DEF link1, link2, cpuVars, procVars, SystemRuns
<1>2. new \in Pids \ {System} /\ new \notin linked
  BY <1>1 DEF CInv, NewInv
<1>3. linked \subseteq Pids /\ System \in linked /\ current_task = System /\ System \in Pids
  BY <1>1 DEF CInv, TypeOK, RunInv, RunState
<1>4. \A t \in linked : next'[t] = next[t] /\ previous'[t] = previous[t]
  BY <1>1, <1>2, <1>3 DEF CInv, TypeOK
<1>5. next[System] \in linked
  BY <1>3 DEF CInv, RingClosed
<1>6. TypeOK'
  BY <1>1, <1>2, <1>3, <1>5 DEF CInv, TypeOK, Pcs
<1>7. RunInv' /\ SaveInv' /\ DepthInv'
  BY <1>1 DEF CInv, RunInv, RunState, SaveInv, GoodSaved, DepthInv
<1>8. TableInv'
  BY <1>1 DEF CInv, TableInv
<1>9. NewInv'
  BY <1>1, <1>2, <1>3, <1>4 DEF CInv, NewInv, TypeOK
<1>10. RingClosed'
  <2> SUFFICES ASSUME NEW t \in linked
               PROVE  next'[t] \in linked /\ previous'[next'[t]] = t
    BY <1>1 DEF RingClosed
  <2>1. next[t] \in linked /\ previous[next[t]] = t
    BY <1>1 DEF CInv, RingClosed
  <2> QED
    BY <2>1, <1>4
<1> QED
  BY <1>6, <1>7, <1>8, <1>9, <1>10 DEF CInv

(* The store that makes the new task visible to schedule (task.c:49). *)
LEMMA Link3Keeps ==
  ASSUME CInv, link3
  PROVE  CInv'
<1> USE TaskingAssumption
<1>1. /\ UNCHANGED <<previous, current_task, ksp, kstack, cpu_task, cpu_mode, sp,
                     esp0, cr3, processes, pnext, pprevious, iflag, new,
                     in_service, halted>>
      /\ pc = "link3" /\ pc' = "link4" /\ cpu_task = System
      /\ next' = [next EXCEPT ![current_task] = new]
      /\ linked' = linked \cup {new}
  BY DEF link3, cpuVars, procVars, SystemRuns
<1>2. PICK w \in Pids \ {System} : w = new /\ w \notin linked
  BY <1>1 DEF CInv, NewInv
<1>3. linked \subseteq Pids /\ System \in linked /\ current_task = System /\ System \in Pids
  BY <1>1 DEF CInv, TypeOK, RunInv, RunState
<1>4. /\ next'[System] = w
      /\ \A t \in Pids \ {System} : next'[t] = next[t]
      /\ next' \in [Pids -> Pids \cup {NULL}]
  BY <1>1, <1>2, <1>3 DEF CInv, TypeOK
<1>5. /\ next[w] = next[System] /\ previous[w] = System
      /\ next[w] \in linked /\ previous[next[w]] = System
  BY <1>1, <1>2, <1>3 DEF CInv, NewInv, RingClosed
<1>6. TypeOK'
  BY <1>1, <1>2, <1>4 DEF CInv, TypeOK, Pcs
<1>7. RunInv' /\ DepthInv'
  BY <1>1 DEF CInv, RunInv, RunState, DepthInv
<1>8. SaveInv'
  <2>1. GoodSaved(w)
    BY <1>1, <1>2 DEF CInv, NewInv, GoodSaved
  <2>2. \A t \in linked' \ {current_task'} : GoodSaved(t)
    BY <2>1, <1>1, <1>2 DEF CInv, SaveInv
  <2> QED
    BY <2>2, <1>1 DEF SaveInv, GoodSaved
<1>9. NewInv'
  BY <1>1, <1>2, <1>3, <1>4, <1>5 DEF NewInv
<1>10. TableInv'
  BY <1>1 DEF CInv, TableInv
<1>11. RingClosed'
  <2> SUFFICES ASSUME NEW t \in linked'
               PROVE  /\ next'[t] \in linked'
                      /\ t = w \/ previous[next'[t]] = t
    BY <1>1, <1>2 DEF RingClosed
  <2>1. CASE t = System
    BY <2>1, <1>1, <1>2, <1>4, <1>5
  <2>2. CASE t = w
    BY <2>2, <1>1, <1>2, <1>4, <1>5
  <2>3. CASE t \in linked \ {System}
    BY <2>3, <1>1, <1>3, <1>4 DEF CInv, RingClosed
  <2> QED
    BY <2>1, <2>2, <2>3, <1>1, <1>2
<1> QED
  BY <1>6, <1>7, <1>8, <1>9, <1>10, <1>11 DEF CInv

(* The last store: only the successor's previous was wrong (task.c:50). *)
LEMMA Link4Keeps ==
  ASSUME CInv, link4
  PROVE  CInv'
<1> USE TaskingAssumption
<1>1. /\ UNCHANGED <<next, linked, current_task, ksp, kstack, cpu_task, cpu_mode,
                     sp, esp0, cr3, processes, pnext, pprevious, iflag, new,
                     in_service, halted>>
      /\ pc = "link4" /\ pc' = "finish"
      /\ previous' = [previous EXCEPT ![next[new]] = new]
  BY DEF link4, cpuVars, procVars
<1>2. /\ new \in Pids \ {System} /\ new \in linked /\ next[System] = new
      /\ next[new] \in linked \ {new} /\ previous[new] = System
      /\ previous[next[new]] = System
      /\ linked \subseteq Pids
  BY <1>1 DEF CInv, NewInv, TypeOK
<1>3. /\ previous'[next[new]] = new
      /\ \A t \in Pids \ {next[new]} : previous'[t] = previous[t]
      /\ previous' \in [Pids -> Pids \cup {NULL}]
  BY <1>1, <1>2 DEF CInv, TypeOK
<1>4. TypeOK'
  BY <1>1, <1>3 DEF CInv, TypeOK, Pcs
<1>5. RunInv' /\ DepthInv' /\ SaveInv'
  BY <1>1 DEF CInv, RunInv, RunState, DepthInv, SaveInv, GoodSaved
<1>6. TableInv' /\ NewInv'
  BY <1>1, <1>2, <1>3 DEF CInv, TableInv, NewInv
<1>7. RingClosed'
  <2> SUFFICES ASSUME NEW t \in linked
               PROVE  next[t] \in linked /\ previous'[next[t]] = t
    BY <1>1 DEF RingClosed
  <2>1. next[t] \in linked
    BY DEF CInv, RingClosed
  <2>2. CASE t = new
    BY <2>1, <2>2, <1>3
  <2>3. CASE t # new
    <3>1. previous[next[t]] = t
      BY <2>3 DEF CInv, RingClosed
    <3>2. next[t] # next[new]
      BY <3>1, <2>3, <1>2
    <3> QED
      BY <3>1, <3>2, <2>1, <1>2, <1>3
  <2> QED
    BY <2>2, <2>3
<1> QED
  BY <1>4, <1>5, <1>6, <1>7 DEF CInv

(* The process of the new task is published (process.c:197-201, 241-253). *)
LEMMA FinishKeeps ==
  ASSUME CInv, FinishProcess
  PROVE  CInv'
<1> USE TaskingAssumption
<1>1. /\ UNCHANGED <<next, previous, linked, current_task, ksp, kstack, cpu_task,
                     cpu_mode, sp, esp0, cr3, iflag, new, in_service, halted>>
      /\ pc = "finish" /\ pc' = "ready"
      /\ processes' = [processes EXCEPT ![new] = "live"]
  BY DEF FinishProcess, ringVars, cpuVars
<1>2. new \in Pids /\ new \in linked /\ linked \subseteq Pids
  BY <1>1 DEF CInv, NewInv, TypeOK
<1>3. TypeOK'
  <2>1. /\ pnext' \in [Pids -> Pids \cup {NULL}]
        /\ pprevious' \in [Pids -> Pids \cup {NULL}]
    <3>1. /\ pnext' = [pnext EXCEPT ![new] = System, ![pprevious[System]] = new]
          /\ pprevious' = [pprevious EXCEPT ![new] = pprevious[System],
                                            ![System] = new]
      BY DEF FinishProcess, process_list_insert
    <3>2. /\ pnext \in [Pids -> Pids \cup {NULL}]
          /\ pprevious \in [Pids -> Pids \cup {NULL}]
          /\ pprevious[System] \in Pids \cup {NULL}
          /\ System \in Pids
      BY DEF CInv, TypeOK, System, Pids
    <3> QED
      BY <3>1, <3>2, <1>2
  <2> QED
    BY <1>1, <2>1 DEF CInv, TypeOK, Pcs
<1>4. RunInv' /\ DepthInv' /\ SaveInv' /\ NewInv' /\ RingClosed'
  BY <1>1 DEF CInv, RunInv, RunState, DepthInv, SaveInv, GoodSaved, NewInv, RingClosed
<1>5. TableInv'
  BY <1>1, <1>2 DEF CInv, TableInv, TypeOK
<1> QED
  BY <1>3, <1>4, <1>5 DEF CInv

(* The invariant is inductive. *)
LEMMA CInvNext == CInv /\ [Next]_vars => CInv'
<1> SUFFICES ASSUME CInv, [Next]_vars PROVE CInv'
  OBVIOUS
<1>1. CASE CreateStep
  BY <1>1, BootKeeps, TaskNewKeeps, LoadKeeps, HiddenLinksKeep, Link3Keeps,
     Link4Keeps, FinishKeeps DEF CreateStep
<1>2. CASE \E t \in Pids \cup {NULL} : process_load(t)
  BY <1>2, LoadKeeps
<1>3. CASE Tick
  BY <1>3, TickKeeps
<1>4. CASE InterruptReturns \/ \E irq \in SlaveIRQs : SlaveInterrupt(irq)
  BY <1>4, InterruptKeeps
<1>5. CASE TrapEntry \/ TrapReturn \/ Fault
  BY <1>5, TrapEntryKeeps, TrapReturnKeeps
<1>6. CASE UNCHANGED vars
  <2>1. UNCHANGED <<next, previous, linked, current_task, ksp, kstack, cpu_task,
                    cpu_mode, sp, esp0, cr3, processes, pnext, pprevious, iflag,
                    pc, new, in_service, halted>>
    BY <1>6 DEF vars, ringVars, cpuVars, procVars
  <2>2. TypeOK'
    BY <2>1 DEF CInv, TypeOK
  <2>3. RunInv' /\ NewInv'
    BY <2>1 DEF CInv, RunInv, RunState, BootState, NewInv
  <2>4. SaveInv' /\ DepthInv' /\ TableInv' /\ RingClosed'
    BY <2>1 DEF CInv, SaveInv, GoodSaved, DepthInv, TableInv, RingClosed
  <2> QED
    BY <2>2, <2>3, <2>4 DEF CInv
<1> QED
  BY <1>1, <1>2, <1>3, <1>4, <1>5, <1>6 DEF Next

(* The inductive invariant of tasking. *)
LEMMA CInvHolds == Spec => []CInv
  BY CInvInit, CInvNext, PTL DEF Spec
-----------------------------------------------------------------------------
(* Theorems. *)

(* Every frame and stack pointer that an interrupt pushes, pops or saves   *)
(* has its type, whatever the number of processes.                         *)
THEOREM TypeCorrect == Spec => []TypeOK
<1>1. CInv => TypeOK
  BY DEF CInv
<1> QED
  BY <1>1, CInvHolds, PTL

(* An interrupt always returns to current_task, in its address space and   *)
(* on its kernel stack (schedule, task.c:255-287; idt.asm:58-109).         *)
THEOREM ResumesCurrent == Spec => []RunningIsCurrent
<1>1. CInv => RunningIsCurrent
  BY DEF CInv, RunInv, BootState, RunState, RunningIsCurrent
<1> QED
  BY <1>1, CInvHolds, PTL

(* Whichever task schedule picks has a frame to resume, and the kernel     *)
(* stacks stay shallow (task.c:229-235, 286; process.h:19-22).             *)
THEOREM FramesValid == Spec => []FramesSafe
<1>1. CInv => SavedFramesValid
  BY DEF CInv, SaveInv, GoodSaved, SavedFramesValid
<1>2. CInv => StacksBounded
  BY DEF CInv, TypeOK, RunInv, BootState, RunState, EmptyStack, DepthInv, StacksBounded
<1>3. CInv => FramesSafe
  BY <1>1, <1>2 DEF FramesSafe
<1> QED
  BY <1>3, CInvHolds, PTL

(* The ring of tasks is closed at every point where task_list_insert can   *)
(* be preempted (task.c:45-51).                                            *)
THEOREM RingAlwaysClosed == Spec => []RingClosed
<1>1. CInv => RingClosed
  BY DEF CInv
<1> QED
  BY <1>1, CInvHolds, PTL

(* No freed process is reachable from the ring, and no live one is outside *)
(* it between creations (process.c:256-275).                               *)
THEOREM NoFreedProcessScheduled == Spec => []LinkedProcessLive
<1>1. CInv => LinkedProcessLive
  BY DEF CInv, TypeOK, NewInv, TableInv, LinkedProcessLive, Idle
<1> QED
  BY <1>1, CInvHolds, PTL
-----------------------------------------------------------------------------
(* The list of processes lags behind the ring from link3 to FinishProcess; *)
(* until then it is the mirror of the ring as it was before.               *)
MirrorInv ==
  /\ pc \notin {"boot", "link4", "finish"} =>
       \A t \in linked : pnext[t] = previous[t] /\ pprevious[t] = next[t]
  /\ pc \in {"link4", "finish"} =>
       \A t \in linked \ {new} :
         /\ pprevious[t] = IF t = System THEN next[new] ELSE next[t]
         /\ pnext[t] = IF t = next[new] THEN System ELSE previous[t]

(* Steps that leave both lists alone, and those that extend the ring. *)
LEMMA MirrorNext == CInv /\ MirrorInv /\ [Next]_vars => MirrorInv'
<1> SUFFICES ASSUME CInv, MirrorInv, [Next]_vars PROVE MirrorInv'
  OBVIOUS
<1> USE TaskingAssumption
<1>0. linked \subseteq Pids /\ System \in Pids
  BY DEF CInv, TypeOK, System, Pids
<1>1. ASSUME UNCHANGED <<next, previous, linked, pnext, pprevious>>,
             UNCHANGED <<pc, new>> \/ (pc # "boot" /\ pc # "link4" /\ pc # "finish"
               /\ pc' # "boot" /\ pc' # "link4" /\ pc' # "finish")
      PROVE  MirrorInv'
  BY <1>1 DEF MirrorInv
<1>2. CASE init_system_process
  BY <1>2, <1>0 DEF init_system_process, MirrorInv, CInv, TypeOK
<1>3. CASE enable_interrupts \/ TaskNewFails \/ \E t \in Pids \cup {NULL} : process_load(t)
  BY <1>3, <1>1 DEF enable_interrupts, TaskNewFails, process_load, ringVars, procVars
<1>4. CASE task_new \/ link1 \/ link2
  <2>1. /\ UNCHANGED <<linked, pnext, pprevious>>
        /\ pc \in {"task_new", "link1", "link2"} /\ pc' \in {"link1", "link2", "link3"}
        /\ \A t \in Pids \ {new} : next'[t] = next[t] /\ previous'[t] = previous[t]
    BY <1>4 DEF task_new, link1, link2, procVars, CInv, TypeOK
  <2>2. new \notin linked
    BY <2>1 DEF CInv, NewInv
  <2> QED
    BY <2>1, <2>2, <1>0 DEF MirrorInv
<1>5. CASE link3
  <2>1. /\ UNCHANGED <<previous, pnext, pprevious, new>>
        /\ pc = "link3" /\ pc' = "link4" /\ cpu_task = System
        /\ next' = [next EXCEPT ![current_task] = new]
        /\ linked' = linked \cup {new}
    BY <1>5 DEF link3, procVars, SystemRuns
  <2>2. current_task = System /\ System \in linked
    BY <2>1 DEF CInv, RunInv, RunState
  <2>3. /\ new \in Pids \ {System} /\ new \notin linked /\ next[new] = next[System]
        /\ previous[next[System]] = System
    BY <2>1, <2>2 DEF CInv, NewInv, RingClosed
  <2>4. \A t \in Pids \ {System} : next'[t] = next[t]
    BY <2>1, <2>2 DEF CInv, TypeOK
  <2>5. \A t \in linked : pnext[t] = previous[t] /\ pprevious[t] = next[t]
    BY <2>1 DEF MirrorInv
  <2> QED
    BY <2>1, <2>3, <2>4, <2>5, <1>0 DEF MirrorInv
<1>6. CASE link4
  <2>1. /\ UNCHANGED <<next, linked, pnext, pprevious, new>>
        /\ pc = "link4" /\ pc' = "finish"
        /\ previous' = [previous EXCEPT ![next[new]] = new]
    BY <1>6 DEF link4, procVars
  <2>2. \A t \in Pids \ {next[new]} : previous'[t] = previous[t]
    BY <2>1 DEF CInv, TypeOK
  <2> QED
    BY <2>1, <2>2, <1>0 DEF MirrorInv
<1>7. CASE FinishProcess
  <2>1. /\ UNCHANGED <<next, previous, linked, new>>
        /\ pc = "finish" /\ pc' = "ready"
        /\ pnext' = [pnext EXCEPT ![new] = System, ![pprevious[System]] = new]
        /\ pprevious' = [pprevious EXCEPT ![new] = pprevious[System],
                                          ![System] = new]
    BY <1>7 DEF FinishProcess, process_list_insert, ringVars
  <2>2. /\ new \in linked /\ new # System /\ next[System] = new
        /\ previous[new] = System /\ next[new] \in linked \ {new}
        /\ previous[next[new]] = new /\ System \in linked
    BY <2>1 DEF CInv, NewInv, RingClosed, RunInv, RunState
  <2>3. \A t \in linked \ {new} :
         /\ pprevious[t] = IF t = System THEN next[new] ELSE next[t]
         /\ pnext[t] = IF t = next[new] THEN System ELSE previous[t]
    BY <2>1 DEF MirrorInv
  <2>4. pprevious[System] = next[new]
    BY <2>2, <2>3
  <2>5. /\ pnext'[new] = System /\ pnext'[next[new]] = new
        /\ \A t \in Pids \ {new, next[new]} : pnext'[t] = pnext[t]
        /\ pprevious'[new] = next[new] /\ pprevious'[System] = new
        /\ \A t \in Pids \ {new, System} : pprevious'[t] = pprevious[t]
    BY <2>1, <2>2, <2>4, <1>0 DEF CInv, TypeOK
  <2>6. \A t \in linked : pnext'[t] = previous[t] /\ pprevious'[t] = next[t]
    BY <2>2, <2>3, <2>5, <1>0
  <2> QED
    BY <2>1, <2>6 DEF MirrorInv
<1>8. CASE Tick \/ InterruptReturns \/ (\E irq \in SlaveIRQs : SlaveInterrupt(irq))
           \/ TrapEntry \/ TrapReturn \/ Fault \/ UNCHANGED vars
  BY <1>8, <1>1 DEF Tick, InterruptReturns, SlaveInterrupt, TrapEntry, TrapReturn,
                    Fault, vars, ringVars, procVars
<1> QED
  BY <1>2, <1>3, <1>4, <1>5, <1>6, <1>7, <1>8 DEF Next, CreateStep

(* Between creations the list of processes is the ring of tasks backwards  *)
(* (process.c:33-42, task.c:45-51).                                        *)
THEOREM ListsMirror == Spec => []RingsMirror
<1>1. Init => MirrorInv
  BY DEF Init, MirrorInv
<1>2. MirrorInv => RingsMirror
  BY DEF MirrorInv, RingsMirror
<1> QED
  BY <1>1, <1>2, MirrorNext, CInvHolds, PTL DEF Spec

(* Both circular lists stay whole, the ring at every instant and the list  *)
(* of processes between creations (task.c:45-57, process.c:33-42).         *)
THEOREM ListsAlwaysSound == Spec => []ListsSound
<1>1. RingClosed /\ RingsMirror => ListsSound
  BY DEF ListsSound
<1> QED
  BY <1>1, RingAlwaysClosed, ListsMirror, PTL
-----------------------------------------------------------------------------
(* A set of numbers has a least one. *)
LEMMA LeastNat ==
  ASSUME NEW S \in SUBSET Nat, S # {}
  PROVE  \E m \in S : \A k \in S : m <= k
<1> DEFINE R == OpToRel(<, Nat)
<1>1. IsWellFoundedOn(R, Nat)
  BY NatLessThanWellFounded
<1>2. \A x \in Nat, y \in Nat : y < x => <<y, x>> \in R
  BY DEF OpToRel
<1> HIDE DEF R
<1>3. PICK x \in S : \A y \in S : ~(<<y, x>> \in R)
  BY <1>1, WFMin
<1>4. \A y \in S : ~(y < x)
  BY <1>2, <1>3
<1>5. \A y \in S : x <= y
  BY <1>4
<1> QED
  BY <1>5

(* Two functions that follow the same pointers from the same place are     *)
(* one: what the recursion of Queue computes is any walk along the ring.   *)
Walks(f, len, c, nx) == f = [k \in 1..len |-> IF k = 1 THEN c ELSE nx[f[k - 1]]]

LEMMA WalkFacts ==
  ASSUME NEW len \in Nat, NEW c, NEW nx, NEW f, Walks(f, len, c, nx)
  PROVE  /\ f = [k \in 1..len |-> f[k]]
         /\ \A k \in 1..len : f[k] = IF k = 1 THEN c ELSE nx[f[k - 1]]
<1>1. \A k \in 1..len : f[k] = IF k = 1 THEN c ELSE nx[f[k - 1]]
  BY DEF Walks
<1>2. f = [k \in 1..len |-> f[k]]
  BY DEF Walks
<1> QED
  BY <1>1, <1>2

LEMMA WalkUnique ==
  ASSUME NEW len \in Nat, NEW c, NEW nx, NEW q, NEW f,
         Walks(q, len, c, nx), Walks(f, len, c, nx)
  PROVE  f = q
<1> DEFINE T == {k \in 1..len : f[k] # q[k]}
<1>1. /\ f = [k \in 1..len |-> f[k]]
      /\ \A k \in 1..len : f[k] = IF k = 1 THEN c ELSE nx[f[k - 1]]
  BY WalkFacts
<1>2. /\ q = [k \in 1..len |-> q[k]]
      /\ \A k \in 1..len : q[k] = IF k = 1 THEN c ELSE nx[q[k - 1]]
  BY WalkFacts
<1>3. CASE T = {}
  <2>1. \A k \in 1..len : f[k] = q[k]
    BY <1>3
  <2>2. [k \in 1..len |-> f[k]] = [k \in 1..len |-> q[k]]
    BY <2>1
  <2> QED
    BY <1>1, <1>2, <2>2, Zenon
<1>4. CASE T # {}
  <2>1. T \in SUBSET Nat
    OBVIOUS
  <2>2. PICK m \in T : \A k \in T : m <= k
    BY <1>4, <2>1, LeastNat
  <2>3. m \in 1..len /\ f[m] # q[m]
    OBVIOUS
  <2>4. m # 1
    BY <1>1, <1>2, <2>3
  <2>5. m - 1 \in 1..len /\ ~(m <= m - 1)
    BY <2>3, <2>4
  <2>6. f[m - 1] = q[m - 1]
    BY <2>2, <2>5
  <2>7. f[m] = nx[f[m - 1]]
    BY <1>1, <2>3, <2>4
  <2>8. q[m] = nx[q[m - 1]]
    BY <1>2, <2>3, <2>4
  <2> QED
    BY <2>3, <2>6, <2>7, <2>8
<1> QED
  BY <1>3, <1>4

LEMMA Walk ==
  ASSUME NEW len \in Nat, NEW c, NEW nx, NEW q, Walks(q, len, c, nx)
  PROVE  (CHOOSE f : f = [k \in 1..len |-> IF k = 1 THEN c ELSE nx[f[k - 1]]]) = q
<1> DEFINE g == CHOOSE f : Walks(f, len, c, nx)
<1>1. Walks(g, len, c, nx)
  OBVIOUS
<1> HIDE DEF g
<1>2. g = q
  BY <1>1, WalkUnique
<1> QED
  BY <1>2 DEF g, Walks

(* The tasks in the ring, each once, in the order in which next leads      *)
(* around it from the running task.                                        *)
Cycle(q, len) ==
  /\ len \in Nat \ {0}
  /\ q \in [1..len -> linked]
  /\ \A j, k \in 1..len : q[j] = q[k] => j = k
  /\ \A t \in linked : \E k \in 1..len : q[k] = t
  /\ q[1] = current_task
  /\ \A k \in 1..(len - 1) : next[q[k]] = q[k + 1]
  /\ next[q[len]] = q[1]

OneCycle == pc # "boot" => \E len, q : Cycle(q, len)

QueueIsCycle == \A len, q : Cycle(q, len) => Queue = q

LEMMA CycleLength ==
  ASSUME NEW len, NEW q, Cycle(q, len)
  PROVE  Cardinality(linked) = len
<1>1. len \in Nat
  BY DEF Cycle
<1>2. q \in Bijection(1..len, linked)
  <2>1. q \in Injection(1..len, linked)
    BY DEF Cycle, Injection, IsInjective
  <2>2. q \in Surjection(1..len, linked)
    BY DEF Cycle, Surjection
  <2> QED
    BY <2>1, <2>2 DEF Bijection
<1>3. ExistsBijection(1..len, linked)
  BY <1>2 DEF ExistsBijection
<1> QED
  BY <1>1, <1>3, FS_CountingElements

LEMMA QueueAlwaysCycle == QueueIsCycle
<1> SUFFICES ASSUME NEW len, NEW q, Cycle(q, len) PROVE Queue = q
  BY DEF QueueIsCycle
<1>1. Cardinality(linked) = len
  BY CycleLength
<1>2. len \in Nat
  BY DEF Cycle
<1>3. q = [k \in 1..len |-> IF k = 1 THEN current_task ELSE next[q[k - 1]]]
  <2>1. \A k \in 1..len : q[k] = IF k = 1 THEN current_task ELSE next[q[k - 1]]
    <3> SUFFICES ASSUME NEW k \in 1..len, k # 1 PROVE q[k] = next[q[k - 1]]
      BY DEF Cycle
    <3>1. k - 1 \in 1..(len - 1) /\ (k - 1) + 1 = k
      BY <1>2
    <3> QED
      BY <3>1 DEF Cycle
  <2> QED
    BY <2>1 DEF Cycle
<1>4. (CHOOSE f : f = [k \in 1..len |-> IF k = 1 THEN current_task ELSE next[f[k - 1]]]) = q
  BY <1>2, <1>3, Walk DEF Walks
<1> QED
  BY <1>1, <1>4 DEF Queue

EmptyQueue == linked = {} => Queue = <<>>

LEMMA QueueStartsEmpty == EmptyQueue
<1> SUFFICES ASSUME linked = {} PROVE Queue = <<>>
  BY DEF EmptyQueue
<1>1. Cardinality(linked) = 0
  BY FS_EmptySet
<1> DEFINE q == [k \in 1..0 |-> current_task]
<1>2. q = [k \in 1..0 |-> IF k = 1 THEN current_task ELSE next[q[k - 1]]]
  OBVIOUS
<1> HIDE DEF q
<1>3. (CHOOSE f : f = [k \in 1..0 |-> IF k = 1 THEN current_task ELSE next[f[k - 1]]]) = q
  BY <1>2, Walk DEF Walks
<1>4. q = <<>>
  BY DEF q
<1> QED
  BY <1>1, <1>3, <1>4 DEF Queue

LEMMA Rotated ==
  ASSUME NEW len \in Nat \ {0}, NEW S, NEW q \in [1..len -> S]
  PROVE  Append(Tail(q), Head(q)) = [k \in 1..len |-> IF k = len THEN q[1] ELSE q[k + 1]]
<1>1. q \in Seq(S) /\ Len(q) = len
  OBVIOUS
<1>2. \A k \in 1..(len - 1) : Tail(q)[k] = q[k + 1]
  BY <1>1
<1>3. Tail(q) \in Seq(S) /\ Len(Tail(q)) = len - 1 /\ Head(q) = q[1] /\ q[1] \in S
  BY <1>1
<1> DEFINE r == Append(Tail(q), Head(q))
<1>4. r \in Seq(S) /\ Len(r) = len
  BY <1>3
<1>5. r[len] = q[1]
  BY <1>3
<1>6. \A k \in 1..len : k # len => r[k] = q[k + 1]
  BY <1>2, <1>3
<1> HIDE DEF r
<1>7. r = [k \in 1..len |-> IF k = len THEN q[1] ELSE q[k + 1]]
  BY <1>4, <1>5, <1>6
<1> QED
  BY <1>7 DEF r

LEMMA Inserted ==
  ASSUME NEW len \in Nat \ {0}, NEW S, NEW q \in [1..len -> S], NEW a, NEW b
  PROVE  <<a, b>> \o Tail(q) =
           [k \in 1..(len + 1) |-> IF k = 1 THEN a ELSE IF k = 2 THEN b ELSE q[k - 1]]
<1> DEFINE T == S \cup {a, b}
<1>1. q \in Seq(S) /\ Len(q) = len
  OBVIOUS
<1>2. Len(Tail(q)) = len - 1 /\ \A k \in 1..(len - 1) : Tail(q)[k] = q[k + 1]
  BY <1>1
<1>3. Tail(q) \in Seq(T) /\ <<a, b>> \in Seq(T) /\ Len(<<a, b>>) = 2
  BY <1>1
<1> HIDE DEF T
<1> DEFINE r == <<a, b>> \o Tail(q)
<1>4. r \in Seq(T) /\ Len(r) = len + 1
  BY <1>2, <1>3
<1>5. r[1] = a /\ r[2] = b
  BY <1>2, <1>3
<1>6. \A k \in 1..(len + 1) : k # 1 /\ k # 2 => r[k] = q[k - 1]
  <2> SUFFICES ASSUME NEW k \in 1..(len + 1), k # 1, k # 2 PROVE r[k] = q[k - 1]
    OBVIOUS
  <2>1. r[k] = Tail(q)[k - 2]
    BY <1>2, <1>3
  <2>2. k - 2 \in 1..(len - 1) /\ (k - 2) + 1 = k - 1
    OBVIOUS
  <2> QED
    BY <1>2, <2>1, <2>2
<1> HIDE DEF r
<1>7. r = [k \in 1..(len + 1) |-> IF k = 1 THEN a ELSE IF k = 2 THEN b ELSE q[k - 1]]
  BY <1>4, <1>5, <1>6
<1> QED
  BY <1>7 DEF r

LEMMA SameCycle ==
  ASSUME NEW len, NEW q, Cycle(q, len), linked' = linked, current_task' = current_task,
         \A t \in linked : next'[t] = next[t]
  PROVE  Cycle(q, len)'
<1>1. \A k \in 1..len : q[k] \in linked /\ next'[q[k]] = next[q[k]]
  BY DEF Cycle
<1> QED
  BY <1>1 DEF Cycle

LEMMA TickCycle ==
  ASSUME NEW len, NEW q, Cycle(q, len), linked' = linked, next' = next,
         current_task' = next[current_task]
  PROVE  Cycle(Append(Tail(q), Head(q)), len)'
<1> DEFINE r == [k \in 1..len |-> IF k = len THEN q[1] ELSE q[k + 1]]
<1>1. len \in Nat \ {0} /\ q \in [1..len -> linked]
  BY DEF Cycle
<1>2. Append(Tail(q), Head(q)) = r
  BY <1>1, Rotated
<1> USE DEF Cycle
<1>3. \A k \in 1..len : r[k] \in linked
  BY <1>1
<1>4. r \in [1..len -> linked]
  BY <1>3
<1>5. \A j, k \in 1..len : r[j] = r[k] => j = k
  <2> SUFFICES ASSUME NEW j \in 1..len, NEW k \in 1..len, j # k PROVE r[j] # r[k]
    OBVIOUS
  <2>1. CASE j = len
    BY <1>1, <2>1
  <2>2. CASE k = len
    BY <1>1, <2>2
  <2>3. CASE j # len /\ k # len
    <3>1. j + 1 \in 1..len /\ k + 1 \in 1..len /\ j + 1 # k + 1
      BY <1>1, <2>3
    <3> QED
      BY <2>3, <3>1
  <2> QED
    BY <2>1, <2>2, <2>3
<1>6. \A t \in linked : \E k \in 1..len : r[k] = t
  <2> SUFFICES ASSUME NEW t \in linked PROVE \E k \in 1..len : r[k] = t
    OBVIOUS
  <2>1. PICK k \in 1..len : q[k] = t
    OBVIOUS
  <2>2. CASE k = 1
    BY <1>1, <2>1, <2>2
  <2>3. CASE k # 1
    <3>1. k - 1 \in 1..len /\ k - 1 # len /\ (k - 1) + 1 = k
      BY <1>1, <2>3
    <3> QED
      BY <2>1, <3>1
  <2> QED
    BY <2>2, <2>3
<1>7. r[1] = next[current_task]
  <2>1. CASE len = 1
    BY <2>1
  <2>2. CASE len # 1
    BY <1>1, <2>2
  <2> QED
    BY <2>1, <2>2
<1>8. \A k \in 1..(len - 1) : next[r[k]] = r[k + 1]
  <2> SUFFICES ASSUME NEW k \in 1..(len - 1) PROVE next[r[k]] = r[k + 1]
    OBVIOUS
  <2>1. k \in 1..len /\ k # len /\ k + 1 \in 1..len
    BY <1>1
  <2>2. r[k] = q[k + 1]
    BY <2>1
  <2>3. CASE k + 1 = len
    BY <2>1, <2>2, <2>3
  <2>4. CASE k + 1 # len
    <3>1. k + 1 \in 1..(len - 1) /\ r[k + 1] = q[(k + 1) + 1]
      BY <1>1, <2>1, <2>4
    <3> QED
      BY <2>2, <3>1
  <2> QED
    BY <2>3, <2>4
<1>9. next[r[len]] = r[1]
  <2>1. r[len] = q[1]
    BY <1>1
  <2> QED
    BY <1>7, <2>1
<1> HIDE DEF r
<1> QED
  BY <1>1, <1>2, <1>4, <1>5, <1>6, <1>7, <1>8, <1>9

LEMMA AdmitCycle ==
  ASSUME NEW len, NEW q, Cycle(q, len), NEW c, c = current_task, NEW t, t \notin linked,
         linked' = linked \cup {t}, current_task' = current_task,
         next'[current_task] = t, next'[t] = next[current_task],
         \A u \in linked \ {current_task} : next'[u] = next[u]
  PROVE  Cycle(<<c, t>> \o Tail(q), len + 1)'
<1> DEFINE r == [k \in 1..(len + 1) |-> IF k = 1 THEN c ELSE IF k = 2 THEN t ELSE q[k - 1]]
<1> USE DEF Cycle
<1>1. len \in Nat \ {0} /\ q \in [1..len -> linked] /\ q[1] = c
  OBVIOUS
<1>2. <<c, t>> \o Tail(q) = r
  BY <1>1, Inserted
<1>3. \A k \in 1..(len + 1) : k # 1 /\ k # 2 => k - 1 \in 1..len /\ k - 1 # 1 /\ r[k] = q[k - 1]
  BY <1>1
<1>4. r[1] = c /\ r[2] = t /\ c \in linked
  BY <1>1
<1>5. \A k \in 1..(len + 1) : r[k] \in linked \cup {t}
  BY <1>1, <1>3, <1>4
<1>6. r \in [1..(len + 1) -> linked \cup {t}]
  BY <1>5
<1>60. len + 1 \in Nat \ {0}
  BY <1>1
<1> HIDE DEF r
<1>7. \A j, k \in 1..(len + 1) : r[j] = r[k] => j = k
  <2> SUFFICES ASSUME NEW j \in 1..(len + 1), NEW k \in 1..(len + 1), j < k PROVE r[j] # r[k]
    BY <1>1
  <2>1. CASE k = 2
    <3>1. j = 1
      BY <2>1
    <3> QED
      BY <1>4, <2>1, <3>1
  <2>2. CASE k # 2
    <3>1. k # 1
      OBVIOUS
    <3>2. k - 1 \in 1..len /\ k - 1 # 1 /\ r[k] = q[k - 1] /\ r[k] \in linked
      BY <1>1, <1>3, <2>2, <3>1
    <3>3. CASE j = 1
      BY <1>1, <1>4, <3>2, <3>3
    <3>4. CASE j = 2
      BY <1>4, <3>2, <3>4
    <3>5. CASE j # 1 /\ j # 2
      <4>1. j - 1 \in 1..len /\ r[j] = q[j - 1] /\ j - 1 # k - 1
        BY <1>1, <1>3, <3>5
      <4> QED
        BY <3>2, <4>1
    <3> QED
      BY <3>3, <3>4, <3>5
  <2> QED
    BY <2>1, <2>2
<1>8. \A u \in linked \cup {t} : \E k \in 1..(len + 1) : r[k] = u
  <2> SUFFICES ASSUME NEW u \in linked PROVE \E k \in 1..(len + 1) : r[k] = u
    BY <1>1, <1>4
  <2>1. PICK k \in 1..len : q[k] = u
    OBVIOUS
  <2>2. CASE k = 1
    BY <1>1, <1>4, <2>1, <2>2
  <2>3. CASE k # 1
    <3>1. k + 1 \in 1..(len + 1) /\ k + 1 # 1 /\ k + 1 # 2 /\ (k + 1) - 1 = k
      BY <1>1, <2>3
    <3>2. r[k + 1] = q[k]
      BY <1>3, <3>1
    <3> QED
      BY <2>1, <3>1, <3>2
  <2> QED
    BY <2>2, <2>3
<1>9. \A k \in 1..len : k # 1 => next'[q[k]] = next[q[k]]
  <2> SUFFICES ASSUME NEW k \in 1..len, k # 1 PROVE next'[q[k]] = next[q[k]]
    OBVIOUS
  <2>1. q[k] \in linked /\ q[k] # c
    BY <1>1
  <2> QED
    BY <2>1
<1>10. \A k \in 1..len : next'[r[k]] = r[k + 1]
  <2> SUFFICES ASSUME NEW k \in 1..len PROVE next'[r[k]] = r[k + 1]
    OBVIOUS
  <2>1. CASE k = 1
    BY <1>4, <2>1
  <2>2. CASE k = 2
    <3>1. r[3] = q[2] /\ 1 \in 1..(len - 1) /\ 1 + 1 = 2
      BY <1>1, <1>3, <2>2
    <3>2. next[q[1]] = q[2]
      BY <3>1
    <3> QED
      BY <1>1, <1>4, <2>2, <3>1, <3>2
  <2>3. CASE k # 1 /\ k # 2
    <3>1. k \in 1..(len + 1) /\ k + 1 \in 1..(len + 1) /\ k + 1 # 1 /\ k + 1 # 2
          /\ (k + 1) - 1 = k
      BY <1>1, <2>3
    <3>2. k - 1 \in 1..(len - 1) /\ k - 1 \in 1..len /\ k - 1 # 1 /\ (k - 1) + 1 = k
      BY <1>1, <2>3
    <3>3. r[k] = q[k - 1] /\ r[k + 1] = q[k]
      BY <1>3, <2>3, <3>1
    <3>4. next[q[k - 1]] = q[k]
      BY <3>2
    <3> QED
      BY <1>9, <3>2, <3>3, <3>4
  <2> QED
    BY <2>1, <2>2, <2>3
<1>11. next'[r[len + 1]] = r[1]
  <2>1. CASE len = 1
    <3>1. r[len + 1] = t /\ next[q[1]] = q[1]
      BY <1>4, <2>1
    <3> QED
      BY <1>1, <1>4, <3>1
  <2>2. CASE len # 1
    <3>1. len \in 1..len /\ len + 1 \in 1..(len + 1) /\ len + 1 # 1 /\ len + 1 # 2 /\ (len + 1) - 1 = len
      BY <1>1, <2>2
    <3>2. r[len + 1] = q[len]
      BY <1>3, <3>1
    <3> QED
      BY <1>1, <1>4, <1>9, <2>2, <3>1, <3>2
  <2> QED
    BY <2>1, <2>2
<1>12. \A k \in 1..((len + 1) - 1) : next'[r[k]] = r[k + 1]
  BY <1>1, <1>10
<1>13. r[1] = current_task'
  BY <1>4
<1>14. Cycle(r, len + 1)'
  BY <1>60, <1>6, <1>7, <1>8, <1>11, <1>12, <1>13
<1> HIDE DEF Cycle
<1> QED
  BY <1>2, <1>14

(* Before the first task there is no ring.  From then on init_system_process *)
(* starts it, link3 extends it behind the system task, a timer tick turns  *)
(* it, and no other step touches what next says of a linked task.          *)
LEMMA Starts ==
  ASSUME CInv, init_system_process
  PROVE  Cycle(<<System>>, 1)'
<1>1. next'[System] = System /\ linked' = {System} /\ current_task' = System
  BY TaskingAssumption DEF CInv, TypeOK, init_system_process, System, Pids
<1>2. <<System>> \in [1..1 -> {System}] /\ <<System>>[1] = System
  OBVIOUS
<1> HIDE DEF System
<1> QED
  BY <1>1, <1>2 DEF Cycle

LEMMA CycleStep ==
  ASSUME CInv, OneCycle, [Next]_vars
  PROVE  OneCycle' /\ [Scheduler!Next]_Queue
<1>1. QueueIsCycle' /\ EmptyQueue'
  BY QueueAlwaysCycle, QueueStartsEmpty, PTL
<1>2. QueueIsCycle /\ EmptyQueue
  BY QueueAlwaysCycle, QueueStartsEmpty
<1>3. CASE init_system_process
  <2>1. Cycle(<<System>>, 1)'
    BY <1>3, Starts
  <2>2. Queue' = <<System>>
    BY <1>1, <2>1 DEF QueueIsCycle
  <2>3. Queue = <<>>
    BY <1>2, <1>3 DEF EmptyQueue, CInv, RunInv, BootState, init_system_process
  <2> QED
    BY <2>1, <2>2, <2>3 DEF OneCycle, Scheduler!Next, Scheduler!Start
<1>4. CASE pc = "boot" /\ ~init_system_process
  <2>1. pc' = "boot" /\ linked' = linked /\ linked = {}
    BY <1>4 DEF CInv, RunInv, BootState, Next, CreateStep, vars, enable_interrupts, task_new,
       TaskNewFails, link1, link2, link3, link4, FinishProcess, process_load, Tick,
       InterruptReturns, SlaveInterrupt, TrapEntry, TrapReturn, Fault, ringVars
  <2> QED
    BY <1>1, <1>2, <2>1 DEF EmptyQueue, OneCycle
<1>5. CASE pc # "boot"
  <2>1. PICK len, q : Cycle(q, len)
    BY <1>5 DEF OneCycle
  <2>2. Queue = q
    BY <1>2, <2>1 DEF QueueIsCycle
  <2>3. len \in Nat \ {0} /\ q \in Seq(linked) /\ Len(q) = len /\ q[1] = current_task
    BY <2>1 DEF Cycle
  <2>4. q # <<>> /\ Head(q) = current_task /\ DOMAIN q = 1..len
    BY <2>3
  <2>5. CASE Tick
    <3>1. Cycle(Append(Tail(q), Head(q)), len)'
      BY <2>1, <2>5, TickCycle DEF Tick, SwitchTo, task_next, ringVars
    <3>2. Queue' = Append(Tail(q), Head(q))
      BY <1>1, <3>1 DEF QueueIsCycle
    <3> QED
      BY <2>2, <2>4, <3>1, <3>2 DEF OneCycle, Scheduler!Next, Scheduler!Tick
  <2>6. CASE link3
    <3>1. /\ current_task = System /\ new \in Pids /\ new # System /\ new \notin linked
          /\ next[new] = next[System] /\ System \in Pids
      BY <2>6, TaskingAssumption DEF CInv, RunInv, RunState, NewInv, link3, SystemRuns,
         System, Pids
    <3>2. /\ linked' = linked \cup {new} /\ current_task' = current_task
          /\ next' = [next EXCEPT ![current_task] = new]
          /\ next \in [Pids -> Pids \cup {NULL}] /\ linked \subseteq Pids
      BY <2>6 DEF CInv, TypeOK, link3, cpuVars
    <3>3. /\ next'[current_task] = new /\ next'[new] = next[current_task]
          /\ \A u \in linked \ {current_task} : next'[u] = next[u]
      BY <3>1, <3>2
    <3>4. PICK t \in Pids : t = new
      BY <3>1
    <3> HIDE DEF System
    <3>5. Cycle(<<System, t>> \o Tail(q), len + 1)'
      BY <2>1, <3>1, <3>2, <3>3, <3>4, AdmitCycle
    <3>6. Queue' = <<System, t>> \o Tail(q)
      BY <1>1, <3>5 DEF QueueIsCycle
    <3>7. \A k \in 1..len : q[k] # t
      BY <2>1, <3>1, <3>4 DEF Cycle
    <3>8. Scheduler!Admit(t)
      BY <2>2, <2>4, <3>1, <3>6, <3>7 DEF Scheduler!Admit
    <3> QED
      BY <3>5, <3>8 DEF OneCycle, Scheduler!Next
  <2>7. CASE ~Tick /\ ~link3
    <3>1. pc # "boot" /\ ~init_system_process
      BY <1>5 DEF init_system_process
    <3>2. linked' = linked /\ current_task' = current_task
      BY <2>7, <3>1 DEF Next, CreateStep, vars, enable_interrupts, task_new,
         TaskNewFails, link1, link2, link4, FinishProcess, process_load,
         InterruptReturns, SlaveInterrupt, TrapEntry, TrapReturn, Fault, ringVars, cpuVars
    <3>3. \A t \in linked : next'[t] = next[t]
      <4>1. CASE next' = next
        BY <4>1
      <4>2. CASE task_new \/ link2
        <5>1. new \notin linked /\ next \in [Pids -> Pids \cup {NULL}] /\ linked \subseteq Pids
          BY <4>2 DEF CInv, TypeOK, NewInv, task_new, link2
        <5> QED
          BY <4>2, <5>1 DEF task_new, link2
      <4> QED
        BY <2>7, <3>1, <4>1, <4>2 DEF Next, CreateStep, vars, enable_interrupts,
           TaskNewFails, link1, link4, FinishProcess, process_load,
           InterruptReturns, SlaveInterrupt, TrapEntry, TrapReturn, Fault, ringVars, cpuVars
    <3>4. Cycle(q, len)'
      BY <2>1, <3>2, <3>3, SameCycle
    <3>5. Queue' = q
      BY <1>1, <3>4 DEF QueueIsCycle
    <3> QED
      BY <2>2, <3>4, <3>5 DEF OneCycle
  <2> QED
    BY <2>5, <2>6, <2>7
<1> QED
  BY <1>3, <1>4, <1>5

(* The ring of tasks, at every instant and with a half-finished insertion  *)
(* in it, is a round-robin queue: interrupts that fall between the stores  *)
(* of task_list_insert never lose, duplicate or reorder a task (task.c:45- *)
(* 57, 255-287).                                                           *)
THEOREM SchedulerIsRoundRobin == Spec => RoundRobinSpec
<1>1. Init => OneCycle /\ Scheduler!Init
  BY QueueStartsEmpty DEF Init, OneCycle, EmptyQueue, Scheduler!Init
<1>2. CInv /\ OneCycle /\ [Next]_vars => OneCycle' /\ [Scheduler!Next]_Queue
  BY CycleStep
<1> QED
  BY <1>1, <1>2, CInvHolds, PTL DEF Spec, RoundRobinSpec, Scheduler!Spec
=============================================================================
