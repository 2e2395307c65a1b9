# AvocadOS: a TLA+ verification project

AvocadOS is a small i386 kernel: a block heap, paging, interrupts with a
preemptive round-robin scheduler, processes, a VFS-like file layer and a FAT16
reader. This directory holds TLA+ models of its core, TLC configurations that
check them on small instances, and TLAPS proofs for every size. Source paths
below are relative to `src/src/` of the repository.

## Inventory

| component | state | operations | interacts with | what is hard | what makes it correct |
|---|---|---|---|---|---|
| kernel heap (`memory/heap.c`, `kheap.c`) | a byte per block, `in_use`, cursor `last_allocated_block` | `heap_malloc`, `heap_free` | called by every other part, never from an interrupt handler | the cursor is also the loop's end condition; the table's end; long call sequences | live regions are disjoint and inside the heap; the table and the counter describe them; a search ends |
| tasking (`kernel/task/*`, `idt/*`) | ring of tasks, list of processes, `current_task`, saved stack pointers, `tss.esp0`, `cr3`, PIC | interrupt entry and exit, `schedule`, `task_new`, `task_list_insert`, `process_init`, `process_load` | the timer preempts everything, creation included | interleaving of interrupts with unprotected list stores; traps with IF set; failed creations | the CPU resumes the right context; the ring is closed at every instant; every task runs |
| open files (`fs/file.c`, `file_table.c`) | table of `FILE *`, the objects behind each | `fopen`, `fclose`, `fread`, `fstat` | FAT16 below, `process_load_binary` above, heap | failure after one, two or three allocations; a full table; streams looked up again by number | the table names only whole open files; nothing leaks |
| FAT16 reading (`fs/fat16.c`, `disk/disk_stream.c`) | cursors of each descriptor, one shared stream | `fat16_open`, `fat16_read`, `fat16_close` | disk below | the shared stream moves under every FAT access; cluster and sector boundaries; damaged chains | the bytes delivered are the file's; errors are reported |
| FAT16 directories (`fs/fat16.c`) | position in a directory, items and folder descriptors | `traverse_path`, `fat16_find_entry_in_dir` | reading, heap | the root directory has rules of its own; several exits | a path opens what it names, finds what is there, keeps nothing |
| paging (`memory/paging.c`) | directories, tables, `current_directory` | map, clone, switch | tasking, heap | shared kernel tables; unchecked allocations; 4 MB mapped, 16 MB of heap | kernel half equal in all directories |
| path parser (`fs/path_parser.c`) | the list of parts of one path | parse, free | files, heap, names of FAT16 entries | unchecked allocations; empty parts; paths beyond `MAX_PATH_LEN` | parts are the text between slashes; nothing is kept |
| strings (`string/string.c`) | none | `memcpy`, `memset`, `strncmp`, `strncpy`, `itoa`, ... | all | whole dwords and what remains; widths and signs | equal to their reference |
| terminal (`termio/termio.c`) | screen, row and column | `terminal_put_char`, `print` | tasks and interrupt handlers print | the cursor is shared and unprotected; the wrap tests for equality | writes stay on the screen; the terminal is a teletype |
| disk driver (`disk/disk.c`) | registers of the drive | `disk_read_block` | FAT16 above, the drive below | polling without limit; the drive works on its own | the sectors asked for, to the word; the drive is released |
| GDT (`kernel/gdt.c`) | eight bytes per segment | `gdt_structure_to_native` | start-up | limits that change their unit | the processor reads back base and limit |
| `list.c`, `buffer.c` (beside the kernel, in `src/`) | circular list, ring buffer | push, pop, swap, delete | none | pointer surgery; full and empty look alike | they are a sequence and a queue |
| boot code, `memcheck.c`, `fat.cc` | - | start-up, dead code | hardware | - | - |

`PROJECT.json` lists the components with their status, and the hazards, each
at its line with the properties that watch it.

## Modules

| module | models | run by |
|---|---|---|
| `Allocator` | abstract specification: disjoint regions appear and disappear | refined by `Heap` |
| `Heap` | the kernel heap | `MCHeap` |
| `HeapProofs` | theorems about `Heap` | - |
| `RoundRobin` | abstract specification: a queue that rotates and grows | refined by `Tasking` |
| `Tasking` | interrupts, scheduler, creation of tasks and processes | `MCTasking` |
| `TaskingProofs` | theorems about `Tasking` | - |
| `Files` | open files and `process_load_binary` | `MCFiles` |
| `FilesProofs` | theorems about `Files` | - |
| `FatVolume` | geometry of a volume (operators only) | extended by `Fat16` |
| `Fat16` | reading files through the shared stream | `MCFat16` |
| `Fat16Proofs` | theorems about `Fat16` | - |
| `Fat16Dir` | finding files by path | `MCFat16Dir` |
| `Fat16DirProofs` | theorems about `Fat16Dir` | - |
| `Paging` | page directories and the MMU | `MCPaging` |
| `PagingProofs` | theorems about `Paging` | - |
| `Ring` | abstract specification: a sequence and what each call does to it | refined by `CircularList` |
| `CircularList` | the list of `list.c` | instantiated by `Programs` |
| `BoundedQueue` | abstract specification: a bounded first-in first-out queue | refined by `RingBuffer` |
| `RingBuffer` | the buffer of `buffer.c` | extended by `Programs` |
| `Programs` | either of the two, chosen at the start | `MCPrograms` |
| `Teletype` | abstract specification: one position running through the screen | refined by `Termio` |
| `Termio` | the terminal, shared by a task and handlers | `MCTermio` |
| `DiskDriver` | the driver and the drive | `MCDiskDriver` |
| `DeviceProofs` | theorems about `Termio` and `DiskDriver` | - |
| `CString` | functions of `string.c` (operators only) | extended by `PathParser` |
| `PathParser` | the parser, and names of directory entries | extended by `Library` |
| `GdtEntry` | segment descriptors (operators only) | extended by `Library` |
| `Library` | the parser, and single calls of the functions of `CString` and `GdtEntry` | `MCLibrary` |
| `LibraryProofs` | theorems about the sequential code: `RingBuffer`, `CircularList`, `PathParser`, `CString`, `GdtEntry` | - |

A definition whose name starts with `BUG_` is the mutated form of the one that
follows it and is used by nothing else; `PROJECT.json` says which property
must fail when it takes the other's place.

### Heap

`entries` is the block table (a set of flag bits per block), `in_use` and
`last_allocated_block` are the counters of `struct heap`; `pc`, `n_blocks`,
`i`, `found_block` and `remaining_blocks` are the search in progress. One
action is one iteration of `find_first_block`'s loop (`BlockTaken`,
`BlockFree`), the reservation (`heap_reserve_blocks`), a failed search
(`MallocFails`), a free, or a free of a pointer that is no first block
(`FreeIgnored`). `owned` is a ghost: what callers hold. The table lies directly
in front of the heap it describes (`kheap_init`), so an index past the table
reads the first bytes of block 0, any value; once such a read or write has a
consequence `spilled` is set, and the safety properties speak of the executions
before that. `BumpRegime` says when that is: not before as many blocks have
been asked for as the table has.

### Tasking

The CPU is `cpu_task`, `cpu_mode`, `sp` and `iflag`; kernel stacks are
`kstack`, one sequence of frames per task; `ksp` is
`task.kernel_stack_pointer`. An interrupt is one action, since its gate clears
IF: entry, `pic_ack`, handler, exit. A trap gate leaves IF set, so a trap is two
actions and other interrupts fall between. The system task creates processes
store by store: `task_list_insert` is four actions (`link1` to `link4`). The
call of `process_load` is commented out in `process.c:212`; the model lets the
system task make it at any time, as the code around it is written for.
`isr_wrapper` pops the stack pointer from the argument slot of
`isr_dispatcher` (`mov esp, eax` is commented out): the model takes the value
that an unoptimised build (`-O0`, the Makefile's) leaves there. The queue of
`RoundRobin` is the ring read from `current_task` along `next` (`Queue`). The
search for a slot may end without one (`SlotFound`); slots of failed creations
are never reused, so the table does fill up, and `TypeOK` says that what is
created always has an entry of `processes[]`.

### Files

`fopen` is one action per step that can fail. Objects are addresses; a freed
`FILE` reads as 0xFF bytes because `heap_free` fills it. `wild` is set when
`fclose` through NULL or through a freed `FILE` may have had an effect; nothing
is claimed after that.

### Fat16 and Fat16Dir

In `Fat16` a byte is named by its address on the disk, so `out`, the bytes
delivered through a descriptor, tells where each was read. `ppos` is the one
stream's position, moved by data and FAT reads alike. The chain is followed
link by link from the first cluster after every chunk, as the code does. A
request is a pair of size and count, multiplied modulo `WordSize`, which stands
for the 2^32 of the code. At most one FAT entry is damaged (free, reserved, bad, or an early end).
`Fat16Dir` reads one entry per action. Directories are sequences of entries
there, which is what `Fat16` shows of reading through clusters; the root
directory's own rules are modelled. Names are model values there; what a name
is made of is in `PathParser`. What a path names is a `Route`: one entry per part,
each but the last a directory that leads to the next; `Denoted` is the entry at
the end of one. A damaged chain under a subdirectory makes the read of an entry
fail (`fat16.c:353-355`); that exit is left out, the lookup ends there as for a
name that is not there.

### Paging

`mem` is physical memory as far as it holds directories and tables; `MMU` is
the processor's walk of it from `cr3`, and the kernel's pointers go through
`MMU` too (`At`). `handles` are the `page_directory_handle`s with their two
arrays, `virtual_to_physical_addr` the kernel's own walk. An address is a pair
of directory and table index, so alignment is given. `paging_init` is one
action up to its loops, then one per mapped page and one per register it sets;
`process_map_memory` likewise, and `schedule` may come between any two steps
once tasks run. `schedule` moves CR3 and not `current_directory`, as the code
does. `kzalloc` hands out block after block, which is what
`BumpUntilLastBlock` proves of the heap while fewer blocks were asked for than
the table has; of the heap's 16 MB only what lies in the first 4 MB of memory
is mapped, so `kzalloc`'s `memset` faults (`PageFault`, the machine stops) long
before that regime ends. For the same reason its results are never NULL here,
and `process_init`'s error exits are left to `Tasking`.

### CircularList and RingBuffer

The two programs beside the kernel. `next` and `prev` are the links of the
nodes, `list` the caller's head; each function is an action, with its stores in
the order of the code, so that `swap` on neighbours sees what it has already
overwritten. `live` and `held` are ghosts of `malloc` and of the node a caller
took out. `torn` records that `swap` was called on a node and the one right
before it: `WalksAgree` says that the ring breaks then and only then. The model
ends there (`Hang`). The code goes on: functions with a loop never return from
such a ring, and the loop-free ones (`push_back`, `push_front`, `extract_node`,
`pop_back`, `pop_front`, `swap`) work on broken links in which a freed node can stay
reachable; nothing is claimed of a list after the tear. In
`RingBuffer` the state is the structure itself, with the value returned last.

### Termio

The system task prints with interrupts on, handlers print with interrupts off.
Every load and store of `terminal_put_char` in the task is an action, and the
whole message of a handler falls between any two. C leaves open when the row is
loaded relative to `terminal_column++` in the call at line 39: `LoadRow` may come
at any of the three places. `schedule` prints the names of two tasks and a
newline (`task.c:269-272`), as every handler that returns ends its output with
one; `ColumnInLine` rests on it. `Teletype` allows the one interrupted
character to be misplaced, and nothing else.

### DiskDriver

`disk_read_sector` with every poll and every word a step; the drive (external)
takes steps of its own. Registers are digits of base `Base`, for 256; `HeadValues` is
how many values the head register has room for beside the drive's flags. The drive
ignores a command that is written while it is busy, so a driver that returned
too early would show. It is busy from the step in which the last word is read;
a real drive takes a moment to say so, which `disk.c` does not wait for. `Fails`
ends a command with ERR set, which the code does not look at. The `-ENOMEDIUM`
exit of `disk_read_block` is left out: `disk_get` hands out `&disks[0]` only.

### CString, PathParser, GdtEntry, Library

Sequential code against reference definitions. Strings are sequences of
character codes, pointers are indices. `memcpy` and `memset` go by whole dwords
and then bytes (`Touched`). A char is signed: `memset` widens it with its sign,
and `strncmp` subtracts signed characters (`Signed`), so that a byte from 0x80
on sorts before every other. `itoa` narrows its argument to an int from
`-half` to `half - 1`; `Shifts` are the values its two loops divide by ten. The parser's
loop is one action per part; `memory` is how many requests `kzalloc` still
serves, and a write through NULL goes to mapped low memory (`low`), without a
fault. `NamesResolve` takes each part on to `fat16_split_entry_name` and the
comparison of padded names, against every entry of `Letters` a directory can
hold. The split looks at the first 12 characters of a part (`Cut`,
`NameLen + 1 + ExtLen`), so longer parts that begin with the name of an entry
find that entry, and blanks at the end of stem and extension do not count; the
property says exactly that. Descriptors are written in base `Nibble`, for 16.
`Library` also makes single calls of the functions, kept in `called` with
arguments and result. Two clauses of `CallsExact` describe the code instead of
judging it: what `memset` makes of the bytes 128 to 254, and the text `itoa`
gives for the least int.

## Runs

| run | instance | shows |
|---|---|---|
| `heap` | 5 blocks, requests of 0 to 3 blocks | safety of allocation and free, refinement of `Allocator`; searches end while the end of the table is not reached |
| `tasking` | 5 processes, 2 slave lines | safety of the scheduler and of creation, refinement of `RoundRobin`; every task runs, creation completes |
| `files` | 3 slots, 5 objects | the table and the objects agree, no leak |
| `files_wild` | the same | violation |
| `fat16` | clusters of 2 sectors of 2 bytes, 2 files of up to 3 clusters, 2 descriptors, reads of 1 x 3, 3 x 2 and 6 x 3 bytes, the last beyond a word of 16 | content, counts, eof and errors |
| `fat16dir` | all roots of 4 entries over 5 kinds, 2 subdirectories, 3 paths; `data_sector` on and between entries, clusters smaller and larger than the root | what opens is right, what is within reach is found, nothing is kept, lookups end |
| `fat16dir_root` | the shipped geometry, 64 entries | violation |
| `paging` | tables of 53 entries, 4 processes of 1 to 3 pages | start-up order, kernel mapped under every directory, translation equal to the MMU's, isolation of programs, shared tables unwritten |
| `programs` | up to 4 nodes with every index, a buffer of 3 slots (the code's size) and 2 values | list and buffer are whole, the list refines `Ring`, the buffer `BoundedQueue` |
| `termio` | a screen of 2 lines of 3 cells; messages of one character and of more than a line | the cursor stays on the screen, refinement of `Teletype` |
| `disk` | registers of base 4, sectors of 3 words, counts of 1, 2 and 4 (a register holds 4 as 0), sectors that need 1 to 4 registers | the words are right, the drive is released, a read ends |
| `library` | all paths of up to 4 characters, all of up to 8 that begin validly (slash, dot, blank, letter) and of 9 (slash, letter), `MAX_PATH_LEN` 8, 0 to 7 blocks of memory, names of 2 and 1 characters; buffers of 9 bytes; ints of 8 bits; descriptors of base-2 nibbles | paths, names, library functions and descriptors agree with their references; nothing is kept |

The bounds make the limits meet: the heap is filled, fragmented and wrapped;
the process table fills up; the file table fills while two more objects exist;
reads of 3 and 6 bytes start and end on, before and after both sector and
cluster boundaries. In `paging` three processes fit, and the fourth runs out
of mapped memory at each of its allocations. Symmetry is used only in `fat16`, over descriptors, which
no definition tells apart.

### Violations found

* `files_wild`: `process_load_binary` closes NULL, or closes twice (`process.c:98`).
* `fat16dir_root`: the root directory ends at byte `data_sector` (`fat16.c:126`), so of 64 entries 22 can be opened.

Behaviour that no document contradicts is described by the properties instead:
the heap's search may start one entry past the table and need not end on a full
one (`heap.c:63-67`; `BumpRegime` and `SearchEndsInBumpRegime` say until when it
is sound), `process_load` goes on into a panic when the binary was not read
(`process.c:298`, `pc = "panic"`), lines of the slave PIC are never acknowledged
at the slave (`idt.c:51`, `in_service`), `swap` of a node with its predecessor
tears the list (`WalksAgree`), parts of a path longer than 8.3 overrun the arrays
of `traverse_path` (`NamesResolve`, `Fits`), a chain that runs into a free FAT entry continues with the boot sector
(`ContentExact`), and a root directory larger than a cluster stalls the search
(`StaleEntry`; `LookupEnds` therefore speaks of larger clusters).

### Fairness

* `heap`, `fat16dir`: weak fairness of the steps of the call. They are
  loops of the only caller, and a preempted caller is scheduled again
  (`EveryTaskRuns`).
* `tasking`: weak fairness of the timer tick, which is hardware, and strong
  fairness of the system task's next store: the task is enabled only while it
  runs, again and again, and a time slice is much longer than one store.
  Runs in which a program faults end with the machine halted, as the code does.
* `disk`: weak fairness of the driver's loops, which the processor executes, and
  of the drive, which answers a command with data or with an error.

Deadlock is not checked in `tasking` (panics halt the machine), `files` (a wild
`fclose` ends what is claimed), `fat16dir` (a write through NULL does) and
`paging` (a page fault stops the machine).

## Proofs

All constants are arbitrary under the `ASSUME`s of the modules, which TLC
evaluates in the runs.

* `HeapProofs` (any table, any request sizes). The inductive invariant joins the
  table and the ghost `owned`: the flags of every block are exactly those of
  the region it is in, regions are disjoint, `in_use` is their total, and during
  a search the run collected so far is free. `HeapSafe` and the refinement
  `HeapImplementsAllocator` follow. `BumpUntilLastBlock` needs a second
  invariant: nothing at or above the cursor was ever taken, and the cursor is
  at most `requested`.
* `TaskingProofs` (any number of processes). The invariant ties each place where
  the system task can be interrupted to the shape of the ring, of the list and
  of the stacks: which frame lies where, and which link is still open.
  `ResumesCurrent`, `FramesValid`, `RingAlwaysClosed`,
  `NoFreedProcessScheduled` and `ListsMirror` are its parts, and
  `ListsAlwaysSound` joins the two about lists. `SchedulerIsRoundRobin` adds that
  the linked tasks are one cycle from `current_task` (`OneCycle`), shows that
  `Queue` is that cycle, and follows it through a switch, which rotates it, and
  through the last store of an insertion, which puts one task in second place.
* `FilesProofs` (any table, any number of objects). The only objects that no slot
  holds are those of the `fopen` under way (`FlightInv`), and while the loader
  uses its stream a slot holds it (`LoadInv`).

* `Fat16DirProofs` (any directories, paths and geometry). The invariant says of a
  lookup what lies behind it: the parts already taken lead along a route to the
  directory being read, and no entry passed in it matches the part looked for,
  unless it is one the scan skips. `LookupCorrect` needs no more; `AllFreed`
  adds which allocations each place of the lookup holds.
* `Fat16Proofs` (any geometry, any layout of disjoint chains, one damaged link
  anywhere, any sequence of reads through any number of descriptors). The
  arithmetic lemmas say when two positions share a cluster. The invariant has
  the chain of each file up to the damage (`VolumeInv`), the walk along it
  (`WalkInv`: on cluster j with Turn + 1 - j steps to go, or behind the chain), the
  cursors after a walk (`CursorInv`), the chunk under way (`ChunkInv`: the next byte
  to copy is the next of the chunk) and the accounts of the call (`CallInv`).
  `ContentCorrect`, `EndsCorrect` and the action property `CountCorrect` follow.
* `PagingProofs` (any number of entries and processes, binaries of any size). The
  invariant describes memory by shapes: `KernelShape` is the kernel's directory
  with as many pages mapped at 0 and at `KernelIndex` as the loop has reached,
  `ProcessShape` a process's directory, which shares the kernel's two tables, with
  as much of its code and stack. That a write for one process disturbs no other
  directory rests on the order in which the heap handed out the frames
  (`ProcessOrder`, `OrderInv`): the frames of older processes all lie below the
  directory being filled. `KernelSeen` and `Translated`, that the MMU and the
  kernel's own walk find every frame where the kernel's pointers say, are lemmas
  the steps themselves need, since every store goes through them. `KernelMapped`,
  `TranslationCorrect` and `ProgramsKeptApart` follow from the shapes, and
  `TablesFrozen` from the fact that the shape of the complete kernel directory
  leaves nothing open. The entry after `KernelIndex` must not be the last of the
  directory (768 and 1023 in the code): it is the empty one at which `kzalloc`
  faults.
* `DeviceProofs`, the disk (any base of the registers and sector size). The digits
  written to the registers add up to the address again (`AddressKept`), driver and
  drive are in step (`InStep`), and what was stored so far is right (`Stored`).
* `DeviceProofs`, the terminal (a screen of any size, messages of any length).
  `CursorSafe` is inductive together with what the task holds in registers
  (`Loaded`). `TerminalIsTeletype` needs `InTouch` as well: until a handler prints
  in between, what was loaded still agrees with the shared cursor. A message is
  mapped as a whole, by an induction along its characters.
* `LibraryProofs`, the buffer (any size, any values). `BufferIsQueue` maps the cells
  from head on, as many as are counted, to the queue, and shows each call to be a
  step of `BoundedQueue`.
* `LibraryProofs`, the list (any number of nodes). Until `torn`, some sequence of
  different nodes is linked in a circle from the head (`Whole`, `Sound`); from
  then on the head is on a walk that ends in a node linked to itself one way only
  (`Ended`). The walks of the code come out as that sequence (`WalksAre`), which is
  what each action needs to say what it does to it. `StructuresAlwaysSound` and
  `ListIsSequence` follow: the pointers refine a sequence.
* `LibraryProofs`, the parser (any path, any `MAX_PATH_LEN`, memory running out
  anywhere). `PInv` says that the parts found so far, each with a slash before it,
  are the path up to `path_ptr`, and which blocks they hold.
  `ParserKeepsNothing` and `ParserIsExact` follow; `NamesAlwaysResolve` is about
  fields of any width and compares the split with the names of an entry case by
  case (no dot, a dot that is looked at, a dot beyond). `ParserAmongCalls` carries
  them over to `Library`.
* `LibraryProofs`, the functions (buffers, strings, ints and segments of any size).
  `BuffersFilled`, `StrncmpExact`, `ItoaPrints` and `DescriptorReadsBack` state each
  function's result, and `CallsAlwaysExact` the property of the run. In
  `ItoaPrints` the values of `Shifts` reach zero because each is smaller than the
  one before, and the digits written up to place k denote the k-th from the end.

Walks, concatenations and digits are recursive functions, and nothing in the
library's induction theorems can be used for them (they take an operator as a
parameter). `LibraryProofs` rests on three lemmas instead: a set of numbers has a
least element (`LeastNat`, from `NatLessThanWellFounded`), hence a set that
contains 0 and with k also k + 1 contains all numbers up to a bound (`Induct`),
hence a loop has a sequence of states (`Loop`), which is what the `CHOOSE` behind a
recursive function picks.

Two of the proofs corrected the models. `NamesResolve` was false as first stated
for parts of more than 12 characters, longer than the run's paths were then, and
`strncmp` had been modelled with unsigned characters.

Only model-checked, because liveness under fairness is out of the prover's reach:
`SearchEndsInBumpRegime`, `EveryTaskRuns`, `CreationCompletes`, `LookupEnds` and
`ReadEnds`. Every other property of the passing runs is a theorem.

## Not modelled

The boot loader and `kernel_main`'s start-up order are straight-line code that
runs once. `memcheck.c` is compiled out, `fat.cc` is dead. In `fat16.c`,
`fat16_seek`, `fat16_read_file`, `fat16_count_dir_items` and the `cluster_chain`
helpers have no caller (`fseek` calls a null operation); neither have
`terminal_print_string_x_y`, `paging_switch_directory` and the functions of
`string.c` that `CString` leaves out. `fs_insert`, `fs_probe_fs`, `disk_init` and
`gdt_init` run once at start-up, on constant tables. The `main`s of `list.c` and
`buffer.c` are tests: they call the operations in one fixed order.

## Plan

What the models leave open is the liveness above, which TLC checks on the
instances of the runs, and the code listed as not modelled, should it get a
caller.
