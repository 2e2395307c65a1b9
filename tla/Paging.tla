------------------------------- MODULE Paging -------------------------------
(***************************************************************************)
(* Page directories (memory/paging.c): building the kernel's directory at  *)
(* start-up, cloning it for a process and mapping the process's code and   *)
(* stack (process_map_memory of kernel/task/process.c), and schedule()'s   *)
(* switch of directories, which may preempt the mapping at any point.      *)
(*                                                                         *)
(* Memory is counted in pages: an address is the pair of its directory and *)
(* table indices, a physical address the number of its frame.  Everything  *)
(* the code passes on is aligned to pages (heap blocks are pages), so the  *)
(* alignment checks never refuse.  mem holds the pages that serve as       *)
(* directories and tables, in physical memory, where both the MMU and the  *)
(* kernel, through the directory in cr3, find them.                        *)
(*                                                                         *)
(* kzalloc hands out one run of blocks after the other (theorem            *)
(* BumpUntilLastBlock of HeapProofs) and clears it.  Only one table's      *)
(* worth of memory is mapped, a quarter of the heap: long before kzalloc   *)
(* could return NULL, clearing a block faults, and the kernel stops.       *)
(***************************************************************************)
EXTENDS Integers, Sequences, FiniteSets

CONSTANTS
  Entries,      \* PAGING_ENTRIES_PER_TABLE, also the frames that get mapped
  CodeIndex,    \* directory index of PROGRAM_BASE_VIRT_ADDR
  StackIndex,   \* ... of PROGRAM_STACK_TOP_VIRT_ADDR
  KernelIndex,  \* ... of KERNEL_VIRTUAL_BASE
  BootFrame,    \* the frame of BOOT_PAGE_DIRECTORY
  HeapFrame,    \* the frame of the first heap block handed out
  MaxProcs,     \* MAX_PROCESSES
  CodeSizes     \* sizes of binaries, in pages

ASSUME PagingAssumption ==
  /\ {Entries, CodeIndex, StackIndex, KernelIndex, BootFrame, HeapFrame,
      MaxProcs} \subseteq Nat
  /\ 0 < CodeIndex /\ CodeIndex < StackIndex /\ StackIndex < KernelIndex
  /\ KernelIndex + 1 < Entries - 1
  /\ BootFrame < HeapFrame /\ HeapFrame < Entries
  /\ MaxProcs > 1
  /\ CodeSizes \subseteq Nat \ {0}

VARIABLES
  mem,               \* frame -> the entries in it, for directories and tables
  handles,           \* struct page_directory_handle: directory, directory_virtual
  current_directory,
  cr3, pse,          \* CR3, the PSE bit of CR4
  cursor,            \* the frame of the next heap block
  pc, new,           \* the system task's program counter, the pid it creates
  job,               \* the arguments of the paging_map_range under way
  code, stack,       \* process.memory and process.stack, as frames
  ring,              \* the tasks schedule() switches between
  running,           \* the one that runs
  halted             \* the page fault handler spins with IF clear

tableVars == <<mem, handles, cursor>>
bootVars  == <<current_directory, pse>>
procVars  == <<code, stack, ring>>
cpuVars   == <<running, halted>>
vars == <<tableVars, bootVars, procVars, cpuVars, cr3, pc, new, job>>

Index  == 0..(Entries - 1)
Last   == Entries - 1
Frames == 0..(Entries - 1)
Pages  == Index \X Index
NULL   == <<0, 0>>
Pids   == 0..(MaxProcs - 1)
Kernel == 0                  \* the system task; its handle is kernel_page_directory
Boot   == -1                 \* the temporary handle of paging_init
Panic  == -1
Handles == Pids \cup {Boot}

KernelFlags == {"present", "writable"}
UserFlags   == {"present", "writable", "user"}
NullEntry   == [frame |-> 0, flags |-> {}]
EmptyTable  == [i \in Index |-> NullEntry]
NoHandle    == [directory |-> NULL, directory_virtual |-> [i \in Index |-> NULL]]

(* Blocks taken by the page bitmap of init_page_bitmap (a byte per page,   *)
(* never read again), by a handle, and by a task with its kernel stack.    *)
BitmapBlocks == 1
HandleBlocks == 2
TaskBlocks   == 4

(* The page at which the kernel sees frame f. *)
KernelPage(f) == IF f < Entries THEN <<KernelIndex, f>>
                                ELSE <<KernelIndex + 1, f - Entries>>
-----------------------------------------------------------------------------
(* What the MMU makes of page v under the directory in frame d. *)
Unmapped == [frame |-> Panic, user |-> FALSE]

MMU(d, v) ==
  LET pde == mem[d][v[1]]
      pte == mem[pde.frame][v[2]]
  IN  IF "present" \notin pde.flags THEN Unmapped
      ELSE IF pse /\ "pse" \in pde.flags
           THEN [frame |-> pde.frame + v[2], user |-> "user" \in pde.flags]
      ELSE IF "present" \notin pte.flags THEN Unmapped
           ELSE [frame |-> pte.frame,
                 user |-> "user" \in pde.flags /\ "user" \in pte.flags]

(* The frame the kernel reaches through a pointer into page v. *)
At(v) == MMU(cr3, v).frame

DirectoryEntry(h, i) == mem[At(h.directory)][i]

(* The kernel's own walk, of the handle h.  It panics on an entry for a    *)
(* 4 MB page when PSE is off.                                              *)
virtual_to_physical_addr(h, v) ==
  LET pde == DirectoryEntry(h, v[1])
  IN  IF "pse" \in pde.flags
      THEN IF pse THEN pde.frame + v[2] ELSE Panic
      ELSE mem[At(h.directory_virtual[v[1]])][v[2]].frame
-----------------------------------------------------------------------------
(* kernel.asm: BOOT_PAGE_DIRECTORY maps the first 4 MB with two entries    *)
(* for 4 MB pages; PSE and paging are on.                                  *)
BootEntry == [frame |-> 0, flags |-> KernelFlags \cup {"pse"}]

Init ==
  /\ mem = [f \in Frames |->
              IF f = BootFrame
              THEN [i \in Index |-> IF i \in {0, KernelIndex} THEN BootEntry
                                                              ELSE NullEntry]
              ELSE EmptyTable]
  /\ handles = [h \in Handles |-> NoHandle]
  /\ current_directory = Kernel      \* not used before paging_init sets it
  /\ cr3 = BootFrame /\ pse = TRUE
  /\ cursor = HeapFrame
  /\ pc = "boot" /\ new = Kernel
  /\ job = [handle |-> Kernel, virt |-> NULL, phys |-> 0, end |-> 0,
            flags |-> {}, then |-> "boot"]
  /\ code = [p \in Pids |-> [begin |-> 0, len |-> 0]]
  /\ stack = [p \in Pids |-> 0]
  /\ ring = {Kernel} /\ running = Kernel
  /\ halted = FALSE

SystemRuns == running = Kernel /\ ~halted

(* paging_init is at work; interrupts are still disabled. *)
Booting == \/ pc \in {"boot", "high", "cr3", "pse", "kfree"}
           \/ pc = "map" /\ job.handle = Kernel

(* kzalloc of n blocks, which begin at cursor: all are mapped. *)
Touchable(n) ==
  \A f \in cursor..(cursor + n - 1) : MMU(cr3, KernelPage(f)) # Unmapped
kzalloc(n) == Touchable(n) /\ cursor' = cursor + n

(* paging_map_from_to: the pages from virt on get the frames begin..end-1. *)
paging_map_from_to(h, virt, begin, end, flags, then) ==
  /\ job' = [handle |-> h, virt |-> virt, phys |-> begin, end |-> end,
             flags |-> flags, then |-> then]
  /\ pc' = "map"

(* paging_init up to the first paging_map_from_to: a temporary handle for  *)
(* the boot directory, and the kernel's directory, whose last entry maps   *)
(* the directory itself.                                                   *)
paging_init ==
  LET temp == [NoHandle EXCEPT !.directory = KernelPage(BootFrame)]
      page == KernelPage(cursor + BitmapBlocks + HandleBlocks)
      self == virtual_to_physical_addr(temp, page)
  IN  /\ SystemRuns /\ pc = "boot"
      /\ kzalloc(BitmapBlocks + HandleBlocks + 1)
      /\ current_directory' = Boot
      /\ handles' = [handles EXCEPT
           ![Boot] = temp,
           ![Kernel] = [directory |-> page,
                        directory_virtual |-> [NoHandle.directory_virtual
                                                 EXCEPT ![Last] = page]]]
      /\ mem' = [mem EXCEPT ![At(page)] =
                   [EmptyTable EXCEPT ![Last] =
                      [frame |-> self, flags |-> KernelFlags]]]
      /\ paging_map_from_to(Kernel, NULL, 0, Entries, KernelFlags, "high")
      /\ UNCHANGED <<procVars, cpuVars, cr3, pse, new>>

(* Its second paging_map_from_to: the same frames at KERNEL_VIRTUAL_BASE. *)
MapHigh ==
  /\ SystemRuns /\ pc = "high"
  /\ paging_map_from_to(Kernel, <<KernelIndex, 0>>, 0, Entries, KernelFlags, "cr3")
  /\ UNCHANGED <<tableVars, bootVars, procVars, cpuVars, cr3, new>>

BUG_PseOffFirst ==
  /\ SystemRuns /\ pc = "cr3"
  /\ pse' = FALSE /\ pc' = "pse"
  /\ UNCHANGED <<tableVars, procVars, cpuVars, current_directory, cr3, new,
                 job>>

(* The end of paging_init: CR3, then PSE off, then the temporary handle is *)
(* freed and current_directory set.  Interrupts are disabled.              *)
LoadCr3 ==
  /\ SystemRuns /\ pc = "cr3"
  /\ cr3' = DirectoryEntry(handles[Kernel], Last).frame
  /\ pc' = "pse"
  /\ UNCHANGED <<tableVars, bootVars, procVars, cpuVars, new, job>>

PseOff ==
  /\ SystemRuns /\ pc = "pse"
  /\ pse' = FALSE /\ pc' = "kfree"
  /\ UNCHANGED <<tableVars, procVars, cpuVars, current_directory, cr3, new,
                 job>>

BUG_KeepBootHandle ==
  /\ SystemRuns /\ pc = "kfree"
  /\ pc' = "ready"
  /\ UNCHANGED <<tableVars, bootVars, procVars, cpuVars, cr3, new, job>>

SetDirectory ==
  /\ SystemRuns /\ pc = "kfree"
  /\ handles' = [handles EXCEPT ![Boot] = NoHandle]
  /\ current_directory' = Kernel
  /\ pc' = "ready"
  /\ UNCHANGED <<procVars, cpuVars, mem, cr3, pse, cursor, new, job>>
-----------------------------------------------------------------------------
(* The loop of paging_map_range. *)

BUG_NoCarry(v) == <<v[1], v[2] + 1>>

(* The page after v; the last one is followed by page 0, as the sum wraps. *)
NextPage(v) == IF v[2] < Last THEN <<v[1], v[2] + 1>>
               ELSE IF v[1] < Last THEN <<v[1] + 1, 0>> ELSE NULL

MapEntry == [frame |-> job.phys, flags |-> job.flags]

MapAdvance ==
  /\ job' = [job EXCEPT !.virt = NextPage(job.virt), !.phys = job.phys + 1]
  /\ UNCHANGED <<bootVars, procVars, cpuVars, cr3, pc, new>>

Mapping == SystemRuns /\ pc = "map" /\ job.phys < job.end
HasTable == handles[job.handle].directory_virtual[job.virt[1]] # NULL

(* paging_map_page when the table exists ... *)
paging_map_page ==
  LET table == At(handles[job.handle].directory_virtual[job.virt[1]])
  IN  /\ Mapping /\ HasTable
      /\ mem' = [mem EXCEPT ![table][job.virt[2]] = MapEntry]
      /\ UNCHANGED <<handles, cursor>>
      /\ MapAdvance

(* ... and when it is created first.  Its physical address is looked up in *)
(* current_directory, whatever the directory in cr3.                       *)
MapPageInNewTable ==
  LET h == handles[job.handle]
      i == job.virt[1]
      page == KernelPage(cursor)
      table == virtual_to_physical_addr(handles[current_directory], page)
  IN  /\ Mapping /\ ~HasTable
      /\ kzalloc(1)
      /\ handles' = [handles EXCEPT ![job.handle].directory_virtual[i] = page]
      /\ mem' = [mem EXCEPT
           ![At(page)] = [EmptyTable EXCEPT ![job.virt[2]] = MapEntry],
           ![At(h.directory)][i] = [frame |-> table, flags |-> job.flags]]
      /\ MapAdvance

MapDone ==
  /\ SystemRuns /\ pc = "map" /\ job.phys = job.end
  /\ pc' = job.then
  /\ UNCHANGED <<tableVars, bootVars, procVars, cpuVars, cr3, new, job>>
-----------------------------------------------------------------------------
(* process_load up to process_map_memory: n pages of memory, a block for   *)
(* the process, one for its stack.  (The load of a binary that cannot be   *)
(* read ends in a panic, see Tasking.)                                     *)
process_load(p, n) ==
  /\ SystemRuns /\ pc = "ready"
  /\ p = new + 1
  /\ kzalloc(n + 2)
  /\ code' = [code EXCEPT ![p] = [begin |-> cursor, len |-> n]]
  /\ stack' = [stack EXCEPT ![p] = cursor + n + 1]
  /\ new' = p
  /\ pc' = "clone"
  /\ UNCHANGED <<bootVars, cpuVars, mem, handles, cr3, job, ring>>

BUG_SelfEntryShared(page) == DirectoryEntry(handles[Kernel], Last)

(* The last entry of a directory in `page': the directory itself. *)
SelfEntry(page) ==
  [frame |-> virtual_to_physical_addr(handles[current_directory], page),
   flags |-> KernelFlags]

(* paging_clone_directory(&kernel_page_directory).  Source and kernel      *)
(* directory are the same, so every table is shared and none copied.       *)
paging_clone_directory ==
  LET page == KernelPage(cursor + HandleBlocks)
      source == handles[Kernel]
      Used(i) == i < Last /\ DirectoryEntry(source, i) # NullEntry
  IN  /\ SystemRuns /\ pc = "clone"
      /\ kzalloc(HandleBlocks + 1)
      /\ handles' = [handles EXCEPT ![new] =
           [directory |-> page,
            directory_virtual |->
              [i \in Index |-> IF i = Last THEN page
                               ELSE IF Used(i) THEN source.directory_virtual[i]
                               ELSE NULL]]]
      /\ mem' = [mem EXCEPT ![At(page)] =
           [i \in Index |-> IF i = Last THEN SelfEntry(page)
                            ELSE IF Used(i) THEN DirectoryEntry(source, i)
                            ELSE NullEntry]]
      /\ pc' = "map_code"
      /\ UNCHANGED <<bootVars, procVars, cpuVars, cr3, new, job>>

BUG_LowBase == <<0, 0>>
ProgramBase == <<CodeIndex, 0>>

(* process_map_memory, after the clone. *)
MapCode ==
  LET begin == virtual_to_physical_addr(handles[current_directory],
                                        KernelPage(code[new].begin))
  IN  /\ SystemRuns /\ pc = "map_code"
      /\ paging_map_from_to(new, ProgramBase, begin, begin + code[new].len,
                            UserFlags, "map_stack")
      /\ UNCHANGED <<tableVars, bootVars, procVars, cpuVars, cr3, new>>

StackPage == KernelPage(stack[new])

MapStack ==
  LET begin == virtual_to_physical_addr(handles[current_directory], StackPage)
  IN  /\ SystemRuns /\ pc = "map_stack"
      /\ paging_map_from_to(new, <<StackIndex, 0>>, begin, begin + 1,
                            UserFlags, "task_new")
      /\ UNCHANGED <<tableVars, bootVars, procVars, cpuVars, cr3, new>>

(* task_new: from task_list_insert on the task is in the ring. *)
task_new ==
  /\ SystemRuns /\ pc = "task_new"
  /\ kzalloc(TaskBlocks)
  /\ ring' = ring \cup {new}
  /\ pc' = "ready"
  /\ UNCHANGED <<bootVars, cpuVars, mem, handles, cr3, new, job, code,
                 stack>>

(* schedule() moves CR3, and leaves current_directory alone. *)
schedule(p) ==
  /\ ~Booting /\ ~halted
  /\ p \in ring \ {running}
  /\ cr3' = DirectoryEntry(handles[p], Last).frame
  /\ running' = p
  /\ UNCHANGED <<tableVars, bootVars, procVars, pc, new, job, halted>>

(* The blocks the next step asks kzalloc for: a load of n pages when pc is *)
(* "ready".                                                                *)
BlocksNeeded(n) ==
  CASE pc = "ready"    -> n + 2
    [] pc = "clone"    -> HandleBlocks + 1
    [] pc = "task_new" -> TaskBlocks
    [] Mapping /\ ~HasTable -> 1
    [] OTHER -> 0

(* kzalloc clears a block that is not mapped. *)
PageFault(n) ==
  /\ SystemRuns
  /\ pc = "ready" => new + 1 \in Pids
  /\ ~Touchable(BlocksNeeded(n))
  /\ halted' = TRUE
  /\ UNCHANGED <<tableVars, bootVars, procVars, cr3, pc, new, job, running>>

Next ==
  \/ paging_init \/ MapHigh \/ LoadCr3 \/ PseOff \/ SetDirectory
  \/ paging_map_page \/ MapPageInNewTable \/ MapDone
  \/ \E p \in Pids, n \in CodeSizes : process_load(p, n)
  \/ paging_clone_directory \/ MapCode \/ MapStack \/ task_new
  \/ \E p \in Pids : schedule(p)
  \/ \E n \in CodeSizes : PageFault(n)

Spec == Init /\ [][Next]_vars
-----------------------------------------------------------------------------
(* Properties. *)

Entry == [frame : Frames, flags : SUBSET (UserFlags \cup {"pse"})]

(* Every entry names a frame of the mapped memory, every pointer a page,   *)
(* and the loop of paging_map_range (paging.c:155-164) stays on pages.     *)
TypeOK ==
  /\ mem \in [Frames -> [Index -> Entry]]
  /\ handles \in [Handles -> [directory : Pages,
                              directory_virtual : [Index -> Pages]]]
  /\ current_directory \in Handles
  /\ cr3 \in Frames /\ pse \in BOOLEAN
  /\ cursor \in HeapFrame..Entries
  /\ pc \in {"boot", "high", "cr3", "pse", "kfree", "ready", "clone", "map",
             "map_code", "map_stack", "task_new"}
  /\ new \in Pids
  /\ job.handle \in Pids /\ job.virt \in Pages /\ job.phys \in 0..Entries
  /\ job.end \in 0..Entries
  /\ \A p \in Pids : code[p].begin \in Frames /\ stack[p] \in Frames
  /\ ring \subseteq Pids /\ running \in Pids /\ halted \in BOOLEAN

(* Whatever directory is in force, between any two steps of paging_init    *)
(* (paging.c:253-269) and after any switch (task.c:279), the kernel's      *)
(* memory is where its pointers say, and out of the programs' reach.       *)
KernelAlwaysMapped ==
  \A f \in Frames : MMU(cr3, KernelPage(f)) = [frame |-> f, user |-> FALSE]

(* virtual_to_physical_addr (paging.c:18-36), asked about current_directory*)
(* as all callers do, gives the frame the MMU uses under the directory in  *)
(* force, although schedule() does not update current_directory, and never *)
(* meets a 4 MB entry with PSE off; and in every handle the array of       *)
(* physical addresses agrees with that of pointers.                        *)
TranslationExact ==
  /\ ~pse /\ pc # "kfree" =>
       \A f \in Frames :
         virtual_to_physical_addr(handles[current_directory], KernelPage(f)) = f
  /\ \A h \in Pids : handles[h] # NoHandle =>
       \A i \in Index :
         LET page == handles[h].directory_virtual[i]
             pde  == DirectoryEntry(handles[h], i)
         IN  IF page = NULL THEN pde = NullEntry ELSE pde.frame = At(page)

(* What programs can reach under the directory in frame d. *)
UserView(d) == {<<v, MMU(d, v).frame>> : v \in {w \in Pages : MMU(d, w).user}}

MappedTo(p) ==
  {<<<<CodeIndex, k>>, code[p].begin + k>> : k \in 0..(code[p].len - 1)}
    \cup {<<<<StackIndex, 0>>, stack[p]>>}

(* The running program reaches its own code and stack, at the addresses it *)
(* was linked for (process.c:129-143), and nothing else: not the tables,   *)
(* not another program's memory.  The kernel's own directory shows nothing.*)
Isolation ==
  UserView(cr3) = IF running = Kernel THEN {} ELSE MappedTo(running)

(* The directory in force is that of the running task: CR3 is loaded from  *)
(* the entry with which a directory maps itself (task.c:279,               *)
(* paging.c:212-215).                                                      *)
RunsOwnDirectory ==
  ~Booting => KernelPage(cr3) = handles[running].directory

(* A program runs in its own address space and reaches nothing beside it,  *)
(* also while the system task is preempted in the middle of building the   *)
(* next one (task.c:279, paging.c:188-218, process.c:116-150).             *)
ProgramsApart == RunsOwnDirectory /\ Isolation

(* Once tasks run, the kernel's directory and the tables it shares with    *)
(* all others (paging.c:199-204) are never written again.                  *)
KernelFrames ==
  {At(handles[Kernel].directory_virtual[i]) :
     i \in {k \in Index : handles[Kernel].directory_virtual[k] # NULL}}

KernelTablesFrozen ==
  [][~Booting => \A f \in KernelFrames : mem'[f] = mem[f]]_vars
=============================================================================
