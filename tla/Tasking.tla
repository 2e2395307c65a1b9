------------------------------ MODULE Tasking ------------------------------
(***************************************************************************)
(* Preemptive tasking: the task ring and schedule() of kernel/task/task.c, *)
(* process creation in kernel/task/process.c, and the interrupt path of    *)
(* idt/idt.asm and idt/idt.c that ties them to the CPU.                    *)
(*                                                                         *)
(* There is one CPU.  The system task (pid 0, kernel_main) creates every   *)
(* other task and may be preempted between any two of its stores; the idle *)
(* task (pid 1) runs in ring 0; loaded programs run in ring 3.  Interrupt  *)
(* gates clear IF and `sti' delays interrupts past the `iret' that follows *)
(* it, so one interrupt is one action: entry, isr_wrapper, isr_dispatcher, *)
(* handler and return.  Vectors 3 and 4 are trap gates: there the CPU      *)
(* enters with IF set and can be interrupted again before the stub's `cli',*)
(* so a trap is two actions.                                               *)
(*                                                                         *)
(* A context is abstracted to the task it belongs to and the mode it runs  *)
(* in; a kernel stack to the frames pushed on it; a kernel_stack_pointer   *)
(* to the stack and the number of frames below it.  Nothing of this knows  *)
(* which task is supposed to run: whether the CPU resumes the right one is *)
(* what the properties are about.                                          *)
(***************************************************************************)
EXTENDS Integers, Sequences, FiniteSets

CONSTANTS
  MaxProcs,   \* MAX_PROCESSES
  MaxDepth,   \* frames the model of a kernel stack has room for
  SlaveIRQs   \* interrupt lines of the slave PIC in use, of 8..15

ASSUME TaskingAssumption ==
  /\ MaxProcs \in Nat /\ MaxProcs > 1
  /\ MaxDepth \in Nat /\ MaxDepth > 2
  /\ SlaveIRQs \subseteq 8..15

VARIABLES
  next, previous,     \* task.next, task.previous
  current_task,
  ksp,                \* task.kernel_stack_pointer
  kstack,             \* the frames on each task's kernel stack
  cpu_task, cpu_mode, \* the context that is executing
  sp,                 \* the CPU's stack pointer, in kernel mode
  esp0, cr3,          \* tss.esp0 and the page directory in force
  iflag,              \* IF of EFLAGS
  pc, new,            \* the system task's program counter, the pid it creates
  processes,          \* processes[]: "null", "live" or "dangling"
  pnext, pprevious,   \* process.next, process.previous
  in_service,         \* the slave PIC's in-service register
  halted,             \* an exception handler spins with IF clear
  linked              \* ghost: the tasks that are in the ring

ringVars == <<next, previous, linked>>
cpuVars  == <<current_task, ksp, kstack, cpu_task, cpu_mode, sp, esp0, cr3>>
procVars == <<processes, pnext, pprevious>>
vars == <<ringVars, cpuVars, procVars, iflag, pc, new, in_service, halted>>

NULL   == -1
System == 0
Idle   == 1
Pids   == 0..(MaxProcs - 1)
Modes  == {"kernel", "user", "stub"}
Frames == [task : Pids, mode : Modes]
Depths == 0..MaxDepth
StackPointers == [stack : Pids, depth : Depths]
Pcs == {"boot", "sti", "ready", "task_new", "link1", "link2", "link3",
        "link4", "finish", "panic"}

ModeOf(t)      == IF t \in {System, Idle} THEN "kernel" ELSE "user"
DirectoryOf(t) == IF t \in {System, Idle} THEN System ELSE t
EmptyStack(t)  == [stack |-> t, depth |-> 0]
EmptyFrame     == [task |-> System, mode |-> "kernel"]
-----------------------------------------------------------------------------
(* kernel_main up to tasking_init.  The stack set up in kernel.asm is the  *)
(* system task's; tss_init points esp0 there.                              *)
Init ==
  /\ next = [t \in Pids |-> NULL] /\ previous = [t \in Pids |-> NULL]
  /\ current_task = NULL
  /\ ksp = [t \in Pids |-> EmptyStack(t)]
  /\ kstack = [t \in Pids |-> [d \in 1..MaxDepth |-> EmptyFrame]]
  /\ cpu_task = System /\ cpu_mode = "kernel" /\ sp = EmptyStack(System)
  /\ esp0 = System /\ cr3 = DirectoryOf(System)
  /\ iflag = FALSE
  /\ pc = "boot" /\ new = NULL
  /\ processes = [t \in Pids |-> "null"]
  /\ pnext = [t \in Pids |-> NULL] /\ pprevious = [t \in Pids |-> NULL]
  /\ in_service = {}
  /\ halted = FALSE
  /\ linked = {}

SystemRuns == cpu_task = System /\ cpu_mode = "kernel" /\ ~halted

(* init_system_process.  Its raise_int_20() is `int 20', vector 0x14, which *)
(* only prints (no_int_handler).                                            *)
init_system_process ==
  /\ SystemRuns /\ pc = "boot"
  /\ next' = [next EXCEPT ![System] = System]
  /\ previous' = [previous EXCEPT ![System] = System]
  /\ linked' = {System}
  /\ current_task' = System
  /\ processes' = [processes EXCEPT ![System] = "live"]
  /\ pnext' = [pnext EXCEPT ![System] = System]
  /\ pprevious' = [pprevious EXCEPT ![System] = System]
  /\ pc' = "sti"
  /\ UNCHANGED <<ksp, kstack, cpu_task, cpu_mode, sp, esp0, cr3, iflag, new,
                 in_service, halted>>

(* tasking_init goes on to init_idle_process, whose allocations come far   *)
(* too early to fail.                                                      *)
enable_interrupts ==
  /\ SystemRuns /\ pc = "sti"
  /\ iflag' = TRUE
  /\ pc' = "task_new" /\ new' = Idle
  /\ UNCHANGED <<ringVars, cpuVars, procVars, in_service, halted>>

BUG_SlotUnchecked(t) ==
  IF t = NULL THEN \A u \in Pids : processes[u] # "null"
              ELSE processes[t] = "null" /\ \A u \in 0..(t - 1) : processes[u] # "null"

(* The search of process_load ends at slot t: the first free one.  With no *)
(* free slot slot_found is still -1, NULL here, and process_load returns   *)
(* -ENOMEM, which changes nothing.                                         *)
SlotFound(t) ==
  t # NULL /\ processes[t] = "null" /\ \A u \in 0..(t - 1) : processes[u] # "null"

(* process_load up to task_new: the slot is taken when the process object  *)
(* is allocated.  A failure after that frees the object and leaves the     *)
(* slot pointing at it.  A binary that did not load is not noticed until   *)
(* process_map_memory panics, with interrupts enabled.                     *)
process_load(t) ==
  /\ SystemRuns /\ pc = "ready"
  /\ SlotFound(t)
  /\ \/ /\ pc' = "task_new" /\ new' = t
        /\ processes' = [processes EXCEPT ![t] = "live"]
     \/ /\ UNCHANGED <<pc, new>>            \* no memory for the user stack
        /\ processes' = [processes EXCEPT ![t] = "dangling"]
     \/ /\ pc' = "panic" /\ UNCHANGED new  \* process->memory is NULL
        /\ processes' = [processes EXCEPT ![t] = "live"]
  /\ UNCHANGED <<ringVars, cpuVars, pnext, pprevious, iflag, in_service, halted>>

BUG_CallersStack ==
  kstack' = [kstack EXCEPT ![System][1] = [task |-> new, mode |-> ModeOf(new)]]

(* The frame that starts the task, on its own kernel stack. *)
task_push_state_to_kstack ==
  kstack' = [kstack EXCEPT ![new][1] = [task |-> new, mode |-> ModeOf(new)]]

(* task_new up to task_list_insert. *)
task_new ==
  /\ SystemRuns /\ pc = "task_new"
  /\ task_push_state_to_kstack
  /\ ksp' = [ksp EXCEPT ![new] = [stack |-> new, depth |-> 1]]
  /\ next' = [next EXCEPT ![new] = NULL]
  /\ previous' = [previous EXCEPT ![new] = NULL]
  /\ pc' = "link1"
  /\ UNCHANGED <<linked, current_task, cpu_task, cpu_mode, sp, esp0, cr3,
                 procVars, iflag, new, in_service, halted>>

BUG_TaskNewUnchecked ==
  /\ SystemRuns /\ pc = "task_new" /\ new # Idle
  /\ processes' = [processes EXCEPT ![new] = "live"]
  /\ pc' = "ready"
  /\ UNCHANGED <<ringVars, cpuVars, pnext, pprevious, iflag, new, in_service,
                 halted>>

(* task_new finds no memory: process_init frees the process. *)
TaskNewFails ==
  /\ SystemRuns /\ pc = "task_new" /\ new # Idle
  /\ processes' = [processes EXCEPT ![new] = "dangling"]
  /\ pc' = "ready"
  /\ UNCHANGED <<ringVars, cpuVars, pnext, pprevious, iflag, new, in_service,
                 halted>>

BUG_LinkBeforeNext ==
  /\ SystemRuns /\ pc = "link2"
  /\ next' = [next EXCEPT ![current_task] = new]
  /\ linked' = linked \cup {new}
  /\ pc' = "link3"
  /\ UNCHANGED <<previous, cpuVars, procVars, iflag, new, in_service, halted>>

(* The four stores of task_list_insert. *)
link1 ==
  /\ SystemRuns /\ pc = "link1"
  /\ previous' = [previous EXCEPT ![new] = current_task]
  /\ pc' = "link2"
  /\ UNCHANGED <<next, linked, cpuVars, procVars, iflag, new, in_service, halted>>

link2 ==
  /\ SystemRuns /\ pc = "link2"
  /\ next' = [next EXCEPT ![new] = next[current_task]]
  /\ pc' = "link3"
  /\ UNCHANGED <<previous, linked, cpuVars, procVars, iflag, new, in_service,
                 halted>>

link3 ==
  /\ SystemRuns /\ pc = "link3"
  /\ next' = [next EXCEPT ![current_task] = new]
  /\ linked' = linked \cup {new}
  /\ pc' = "link4"
  /\ UNCHANGED <<previous, cpuVars, procVars, iflag, new, in_service, halted>>

link4 ==
  /\ SystemRuns /\ pc = "link4"
  /\ previous' = [previous EXCEPT ![next[new]] = new]
  /\ pc' = "finish"
  /\ UNCHANGED <<next, linked, cpuVars, procVars, iflag, new, in_service, halted>>

(* Appends to the list of processes.  Nobody reads it, so its four stores  *)
(* are one step.                                                           *)
process_list_insert ==
  /\ pnext' = [pnext EXCEPT ![new] = System, ![pprevious[System]] = new]
  /\ pprevious' = [pprevious EXCEPT ![new] = pprevious[System],
                                    ![System] = new]

(* What is left of init_idle_process and process_init after task_new. *)
FinishProcess ==
  /\ SystemRuns /\ pc = "finish"
  /\ processes' = [processes EXCEPT ![new] = "live"]
  /\ process_list_insert
  /\ pc' = "ready"
  /\ UNCHANGED <<ringVars, cpuVars, iflag, new, in_service, halted>>
-----------------------------------------------------------------------------
(* Interrupts. *)

(* Where the CPU and isr_wrapper push the interrupt frame: from ring 3 on  *)
(* an empty stack at esp0, from ring 0 on the stack in use.                *)
FramePointer ==
  IF cpu_mode = "user" THEN [stack |-> esp0, depth |-> 1]
                       ELSE [stack |-> sp.stack, depth |-> sp.depth + 1]

PushFrame ==
  kstack' = [kstack EXCEPT ![FramePointer.stack][FramePointer.depth] =
                [task |-> cpu_task, mode |-> cpu_mode]]

(* The end of isr_wrapper: pop the frame p points to and iret.  p is what  *)
(* isr_dispatcher returns: `mov esp, eax' is commented out, but `pop esp'  *)
(* reads the argument's slot on the stack, and the build (-O0) stores      *)
(* isr_dispatcher's assignment to its parameter there.                     *)
Resume(p) ==
  LET f == kstack'[p.stack][p.depth] IN
  /\ cpu_task' = f.task
  /\ cpu_mode' = f.mode
  /\ sp' = IF f.mode = "user" THEN EmptyStack(p.stack)
                              ELSE [stack |-> p.stack, depth |-> p.depth - 1]

BUG_SameDirectory(t) ==
  /\ current_task' = t
  /\ esp0' = t
  /\ UNCHANGED cr3

(* schedule's part after task_store. *)
SwitchTo(t) ==
  /\ current_task' = t
  /\ esp0' = IF t = current_task THEN esp0 ELSE t
  /\ cr3' = IF t = current_task THEN cr3 ELSE DirectoryOf(t)

(* task_store(current_task, interrupt_frame). *)
task_store == [ksp EXCEPT ![current_task] = FramePointer]

BUG_NextPid == IF current_task + 1 \in linked THEN current_task + 1 ELSE System
BUG_PingPong == IF current_task = System THEN next[System] ELSE System
BUG_SkipSystem == IF next[current_task] = System THEN next[System]
                                                 ELSE next[current_task]

task_next == next[current_task]

(* The timer interrupt, or `int 0x20' in a program: int_0x20_handler calls *)
(* schedule and returns the frame of the task it chose.                    *)
Tick ==
  /\ iflag /\ ~halted
  /\ PushFrame
  /\ ksp' = task_store
  /\ SwitchTo(task_next)
  /\ Resume(ksp'[task_next])
  /\ UNCHANGED <<ringVars, procVars, iflag, pc, new, in_service, halted>>

(* Interrupt gates whose handler returns the frame it was given: the       *)
(* keyboard, the other lines of the master PIC, `int 0x14' and the like.   *)
(* The frame is pushed and popped.                                         *)
InterruptReturns ==
  /\ iflag /\ ~halted
  /\ PushFrame
  /\ Resume(FramePointer)
  /\ UNCHANGED <<ringVars, current_task, ksp, esp0, cr3, procVars, iflag, pc,
                 new, in_service, halted>>

(* The slave's in-service register after line intno was delivered and      *)
(* isr_dispatcher called pic_ack(int_no - 32): the end of interrupt goes   *)
(* to the slave only for lines >= 40.                                      *)
pic_ack(intno) == IF intno >= 40 THEN in_service ELSE in_service \cup {intno}

(* An interrupt of the slave PIC: delivered unless a line of the same or a *)
(* higher priority is in service there.                                    *)
SlaveInterrupt(irq) ==
  /\ iflag /\ ~halted
  /\ \A k \in in_service : irq < k
  /\ PushFrame
  /\ Resume(FramePointer)
  /\ in_service' = pic_ack(irq)
  /\ UNCHANGED <<ringVars, current_task, ksp, esp0, cr3, procVars, iflag, pc,
                 new, halted>>

(* A program executes `int 3' or `int 4': the trap gate leaves IF set, and *)
(* the CPU is in isr_3 or isr_4 before its `cli'.                          *)
TrapEntry ==
  /\ cpu_mode = "user" /\ ~halted
  /\ PushFrame
  /\ cpu_mode' = "stub" /\ sp' = FramePointer
  /\ UNCHANGED <<ringVars, current_task, ksp, cpu_task, esp0, cr3, procVars,
                 iflag, pc, new, in_service, halted>>

(* The rest of the trap, from `cli' to `iret'. *)
TrapReturn ==
  /\ cpu_mode = "stub" /\ ~halted
  /\ UNCHANGED kstack
  /\ Resume(sp)
  /\ UNCHANGED <<ringVars, current_task, ksp, esp0, cr3, procVars, iflag, pc,
                 new, in_service, halted>>

(* A program faults: the handlers of vectors 6, 13 and 14 never return.    *)
Fault ==
  /\ cpu_mode = "user" /\ ~halted
  /\ halted' = TRUE
  /\ UNCHANGED <<ringVars, cpuVars, procVars, iflag, pc, new, in_service>>

(* The system task at work on a task; what it does next is not its choice. *)
CreateStep ==
  \/ init_system_process \/ enable_interrupts
  \/ task_new \/ TaskNewFails
  \/ link1 \/ link2 \/ link3 \/ link4
  \/ FinishProcess

Next ==
  \/ CreateStep
  \/ \E t \in Pids \cup {NULL} : process_load(t)
  \/ Tick \/ InterruptReturns
  \/ \E irq \in SlaveIRQs : SlaveInterrupt(irq)
  \/ TrapEntry \/ TrapReturn \/ Fault

Spec == Init /\ [][Next]_vars

(* The timer keeps ticking, and every time slice of the system task is     *)
(* long enough for its next store.                                         *)
FairSpec == Spec /\ WF_vars(Tick) /\ SF_vars(CreateStep)
-----------------------------------------------------------------------------
(* Properties. *)

(* Every variable keeps its type, also when a frame is popped: the model   *)
(* stores nothing but frames and stack pointers (task.c, idt.asm:58-109).  *)
(* Once tasks are created, the slot of the one being created is an entry   *)
(* of processes[], also when every entry is taken (process.c:283-293).     *)
TypeOK ==
  /\ next \in [Pids -> Pids \cup {NULL}]
  /\ previous \in [Pids -> Pids \cup {NULL}]
  /\ current_task \in Pids \cup {NULL}
  /\ ksp \in [Pids -> StackPointers]
  /\ kstack \in [Pids -> [1..MaxDepth -> Frames]]
  /\ cpu_task \in Pids /\ cpu_mode \in Modes
  /\ sp \in StackPointers
  /\ esp0 \in Pids /\ cr3 \in Pids
  /\ iflag \in BOOLEAN
  /\ pc \in Pcs /\ new \in Pids \cup {NULL}
  /\ pc \notin {"boot", "sti"} => new \in Pids
  /\ processes \in [Pids -> {"null", "live", "dangling"}]
  /\ pnext \in [Pids -> Pids \cup {NULL}]
  /\ pprevious \in [Pids -> Pids \cup {NULL}]
  /\ in_service \subseteq SlaveIRQs
  /\ halted \in BOOLEAN
  /\ linked \subseteq Pids

(* Whenever interrupts are enabled, what executes is current_task, in its  *)
(* own address space, with tss.esp0 on its own kernel stack and, in kernel *)
(* mode, on that stack (schedule, task.c:255-287; isr_wrapper,             *)
(* idt.asm:58-109).                                                        *)
RunningIsCurrent ==
  iflag => /\ cpu_task = current_task
           /\ cr3 = DirectoryOf(current_task)
           /\ esp0 = current_task
           /\ sp.stack = current_task

(* The frame that kernel_stack_pointer of a task in the ring points to,    *)
(* for every task but the running one, is on the task's own kernel stack,  *)
(* holds a context of that task and has the trap's frame below it when the *)
(* task was preempted inside a trap stub: whichever task schedule() picks, *)
(* iret resumes it where it was (task.c:229-235, 286; idt.asm:93-109).     *)
SavedFramesValid ==
  \A t \in linked \ {current_task} :
    LET p == ksp[t]
        f == kstack[t][p.depth]
    IN  /\ p.stack = t
        /\ f.task = t
        /\ \/ f.mode = ModeOf(t) /\ p.depth = 1
           \/ /\ f.mode = "stub" /\ p.depth = 2
              /\ kstack[t][1] = [task |-> t, mode |-> "user"]

(* Frames never pile up on a kernel stack: at most a trap's and one        *)
(* interrupt's.  The stack shares its memory with the task's control block *)
(* (union task, process.h:19-22), so growth would overwrite next and ksp.  *)
StacksBounded ==
  /\ sp.depth <= 1
  /\ \A t \in linked : ksp[t].depth <= 2

(* Whichever task schedule() picks, the frame it resumes is that task's    *)
(* own, and the frames on a kernel stack leave the task's control block    *)
(* below them alone (task.c:229-235, 286; idt.asm:58-109).                 *)
FramesSafe == SavedFramesValid /\ StacksBounded

(* At every point where the system task can be preempted, also between two *)
(* stores of task_list_insert (task.c:47-50), following next from a task   *)
(* in the ring stays in the ring, and previous is its inverse but for the  *)
(* one link that is still to be fixed.                                     *)
RingClosed ==
  \A t \in linked :
    /\ next[t] \in linked
    /\ (pc = "link4" /\ t = new) \/ previous[next[t]] = t

(* Between two creations the list of processes is the ring of tasks read   *)
(* backwards: tasks are inserted after the system task (task.c:45-50),     *)
(* processes before it (process.c:33-39).                                  *)
RingsMirror ==
  pc = "ready" => \A t \in linked : pnext[t] = previous[t] /\ pprevious[t] = next[t]

(* Both circular lists are whole: the ring at every instant, the list of   *)
(* processes, its mirror image, between two creations (task.c:45-57,       *)
(* process.c:33-42).                                                       *)
ListsSound == RingClosed /\ RingsMirror

(* schedule() follows task->process of every task in the ring (task.c:271, *)
(* 279): that process is never one that process_init has freed             *)
(* (process.c:256-275), and between two creations the processes alive are  *)
(* exactly the tasks that are scheduled.                                   *)
LinkedProcessLive ==
  \A t \in Pids : /\ t \in linked => processes[t] # "dangling"
                  /\ pc = "ready" /\ processes[t] = "live" => t \in linked

(* The tasks met by following next from the running one, the running one   *)
(* first: the queue of the abstract scheduler.                             *)
Queue[k \in 1..Cardinality(linked)] ==
  IF k = 1 THEN current_task ELSE next[Queue[k - 1]]

(* The ring, preempted creations included, is a round-robin queue          *)
(* (task.c:45-57, 255-287).                                                *)
Scheduler == INSTANCE RoundRobin WITH Tasks <- Pids, queue <- Queue

RoundRobinSpec == Scheduler!Spec

(* Every task that is in the ring gets the CPU again and again, unless a   *)
(* program's fault stops the kernel (task.c:255-287; panic.c:8-9).         *)
EveryTaskRuns ==
  \A t \in Pids : t \in linked ~> (halted \/ cpu_task = t)

(* A creation that has begun is finished, however often the system task is *)
(* preempted in it (process.c:185-201, 239-253).                           *)
CreationCompletes ==
  pc \in {"task_new", "link1", "link2", "link3", "link4", "finish"}
    ~> (pc = "ready" \/ halted)
=============================================================================
