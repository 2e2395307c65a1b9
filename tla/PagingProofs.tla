---------------------------- MODULE PagingProofs ----------------------------
(***************************************************************************)
(* What holds of page directories for any number of entries, processes and *)
(* pages of code.                                                          *)
(***************************************************************************)
EXTENDS Paging, TLAPS

(* The frames of the kernel's directory and of its two tables. *)
KD == HeapFrame + BitmapBlocks + HandleBlocks
KL == KD + 1
KH == KD + 2

(* The loop of paging_map_range that goes on with t. *)
MapsFor(t) == pc = "map" /\ job.then = t

(* paging_init before it loads CR3. *)
OnBootDirectory ==
  pc \in {"boot", "high", "cr3"} \/ MapsFor("high") \/ MapsFor("cr3")

(* How many frames the kernel's two tables map. *)
Low  == IF pc = "boot" THEN 0 ELSE IF MapsFor("high") THEN job.phys ELSE Entries
High == IF pc \in {"boot", "high"} \/ MapsFor("high") THEN 0
        ELSE IF MapsFor("cr3") THEN job.phys ELSE Entries

(* How many pages of p are mapped, of its code and of its stack. *)
Coded(p) ==
  IF p # new THEN code[p].len
  ELSE IF pc = "map_code" THEN 0
  ELSE IF MapsFor("map_stack") THEN job.phys - code[p].begin ELSE code[p].len

Stacked(p) ==
  IF p # new THEN 1
  ELSE IF pc \in {"map_code", "map_stack"} \/ MapsFor("map_stack") THEN 0
  ELSE IF MapsFor("task_new") THEN job.phys - stack[p] ELSE 1

(* The processes that have a directory. *)
Built(p) == p # Kernel /\ p <= new /\ (p = new => pc # "clone")

(* The frame of a directory and of its tables. *)
Dir(h)      == h.directory[2]
Table(h, i) == h.directory_virtual[i][2]

(* Directory and handle h name frame f at index i, or nothing. *)
Linked(m, h, i, f, flags) ==
  /\ h.directory_virtual[i] = KernelPage(f)
  /\ m[Dir(h)][i] = [frame |-> f, flags |-> flags]

Unlinked(m, h, i) == h.directory_virtual[i] = NULL /\ m[Dir(h)][i] = NullEntry

(* A table that maps n pages to the frames from f on. *)
Maps(table, f, n, flags) ==
  \A k \in Index :
    table[k] = IF k < n THEN [frame |-> f + k, flags |-> flags] ELSE NullEntry

(* There is such a table at index i, unless n is 0. *)
TableFor(m, h, i, f, n, flags) ==
  IF n > 0
  THEN Linked(m, h, i, Table(h, i), flags) /\ Maps(m[Table(h, i)], f, n, flags)
  ELSE Unlinked(m, h, i)

(* The kernel's directory and its handle h in memory m. *)
KernelShape(m, h, lo, hi) ==
  /\ h.directory = KernelPage(KD) /\ Linked(m, h, Last, KD, KernelFlags)
  /\ TableFor(m, h, 0, 0, lo, KernelFlags) /\ (lo > 0 => Table(h, 0) = KL)
  /\ TableFor(m, h, KernelIndex, 0, hi, KernelFlags) /\ (hi > 0 => Table(h, KernelIndex) = KH)
  /\ \A i \in Index \ {0, KernelIndex, Last} : Unlinked(m, h, i)

(* A process with c pages of code from frame b on, and s pages of stack    *)
(* from frame t on.  It shares the kernel's tables.                        *)
ProcessShape(m, h, c, b, s, t) ==
  /\ h.directory = KernelPage(Dir(h)) /\ Linked(m, h, Last, Dir(h), KernelFlags)
  /\ Linked(m, h, 0, KL, KernelFlags) /\ Linked(m, h, KernelIndex, KH, KernelFlags)
  /\ TableFor(m, h, CodeIndex, b, c, UserFlags) /\ TableFor(m, h, StackIndex, t, s, UserFlags)
  /\ \A i \in Index \ {0, CodeIndex, StackIndex, KernelIndex, Last} : Unlinked(m, h, i)

(* The frames of a process lie in the order in which it got them. *)
ProcessOrder(h, c, s, top) ==
  /\ KH < Dir(h) /\ Dir(h) < top
  /\ c > 0 => Dir(h) < Table(h, CodeIndex) /\ Table(h, CodeIndex) < top
  /\ s > 0 => c > 0 /\ Table(h, CodeIndex) < Table(h, StackIndex)
              /\ Table(h, StackIndex) < top
-----------------------------------------------------------------------------
MoreTypes ==
  /\ job \in [handle : Pids, virt : Pages, phys : 0..Entries, end : 0..Entries,
              flags : SUBSET UserFlags, then : {"boot", "high", "cr3", "map_stack", "task_new"}]
  /\ code \in [Pids -> [begin : Frames, len : Nat]]
  /\ stack \in [Pids -> Frames]

(* What is being mapped. *)
JobInv ==
  /\ MapsFor("high") \/ MapsFor("cr3") => job.handle = Kernel /\ job.flags = KernelFlags
                                          /\ job.end = Entries
  /\ MapsFor("high") /\ job.phys < Entries => job.virt = <<0, job.phys>>
  /\ MapsFor("cr3") /\ job.phys < Entries => job.virt = <<KernelIndex, job.phys>>
  /\ MapsFor("map_stack") =>
       /\ job.handle = new /\ job.flags = UserFlags
       /\ code[new].begin <= job.phys /\ job.phys <= job.end
       /\ job.end = code[new].begin + code[new].len
       /\ job.virt = <<CodeIndex, job.phys - code[new].begin>>
  /\ MapsFor("task_new") =>
       /\ job.handle = new /\ job.flags = UserFlags
       /\ stack[new] <= job.phys /\ job.phys <= job.end /\ job.end = stack[new] + 1
       /\ job.virt = <<StackIndex, job.phys - stack[new]>>
  /\ pc = "map" => job.then # "boot"

(* The processor: which directory, which mode, which task. *)
CpuInv ==
  /\ Booting => running = Kernel /\ new = Kernel
  /\ pc \in {"clone", "map_code", "map_stack", "task_new"} \/ MapsFor("map_stack")
       \/ MapsFor("task_new") => new # Kernel
  /\ pse <=> OnBootDirectory \/ pc = "pse"
  /\ OnBootDirectory =>
       /\ cr3 = BootFrame
       /\ \A i \in Index : mem[BootFrame][i] =
            IF i \in {0, KernelIndex} THEN BootEntry ELSE NullEntry
  /\ ~OnBootDirectory => cr3 = Dir(handles[running])
  /\ current_directory = IF Booting /\ pc # "boot" THEN Boot ELSE Kernel
  /\ Booting /\ pc # "boot" => handles[Boot].directory = KernelPage(BootFrame)
  /\ \A p \in ring : p = Kernel \/ p < new \/ (p = new /\ pc = "ready")
  /\ running \in ring

(* Where the next block lies. *)
CursorInv ==
  /\ pc = "boot" => cursor = HeapFrame
  /\ MapsFor("high") => cursor = IF Low = 0 THEN KL ELSE KH
  /\ pc = "high" => cursor = KH
  /\ MapsFor("cr3") => cursor = IF High = 0 THEN KH ELSE KH + 1
  /\ pc = "cr3" \/ ~OnBootDirectory => cursor > KH

KernelInv ==
  /\ pc = "boot" => handles[Kernel] = NoHandle
  /\ pc # "boot" => KernelShape(mem, handles[Kernel], Low, High)

LoadInv ==
  \A p \in Pids : p # Kernel /\ p <= new =>
    /\ code[p].len > 0 /\ code[p].begin + code[p].len <= stack[p]
    /\ stack[p] < cursor

ProcessInv ==
  \A p \in Pids :
    /\ p # Kernel /\ ~Built(p) => handles[p] = NoHandle
    /\ Built(p) =>
         /\ ProcessShape(mem, handles[p], Coded(p), code[p].begin, Stacked(p), stack[p])
         /\ ProcessOrder(handles[p], Coded(p), Stacked(p), cursor)

(* The frames of p were handed out before those of q. *)
OrderInv ==
  \A p \in Pids, q \in Pids : Built(p) /\ Built(q) /\ p < q =>
    Table(handles[p], StackIndex) < Dir(handles[q])

PInv ==
  /\ TypeOK /\ MoreTypes /\ JobInv /\ CpuInv /\ CursorInv
  /\ KernelInv /\ LoadInv /\ ProcessInv /\ OrderInv
-----------------------------------------------------------------------------
(* Constants, indices and pages. *)

LEMMA Numbers ==
  /\ Entries \in Nat /\ CodeIndex \in Nat /\ StackIndex \in Nat /\ KernelIndex \in Nat
  /\ BootFrame \in Nat /\ HeapFrame \in Nat /\ MaxProcs \in Nat
  /\ 0 < CodeIndex /\ CodeIndex < StackIndex /\ StackIndex < KernelIndex
  /\ KernelIndex + 1 < Last /\ Last = Entries - 1 /\ Last \in Nat
  /\ BootFrame < HeapFrame /\ HeapFrame < Entries /\ MaxProcs > 1
  /\ KD \in Nat /\ KD = HeapFrame + 3 /\ KL = KD + 1 /\ KH = KD + 2
<1>1. /\ Entries \in Nat /\ CodeIndex \in Nat /\ StackIndex \in Nat /\ KernelIndex \in Nat
      /\ BootFrame \in Nat /\ HeapFrame \in Nat /\ MaxProcs \in Nat
      /\ 0 < CodeIndex /\ CodeIndex < StackIndex /\ StackIndex < KernelIndex
      /\ KernelIndex + 1 < Entries - 1
      /\ BootFrame < HeapFrame /\ HeapFrame < Entries /\ MaxProcs > 1
  BY PagingAssumption
<1> QED
  BY <1>1 DEF Last, KD, KL, KH, BitmapBlocks, HandleBlocks

LEMMA Indices ==
  /\ Index = 0..Last /\ Frames = 0..Last
  /\ 0 \in Index /\ CodeIndex \in Index /\ StackIndex \in Index /\ KernelIndex \in Index
  /\ KernelIndex + 1 \in Index /\ Last \in Index
  /\ Kernel = 0 /\ Kernel \in Pids /\ Boot \notin Pids /\ Pids \subseteq Nat
  /\ \A p \in Pids : p \in Handles
  /\ Boot \in Handles /\ NULL = <<0, 0>> /\ BootFrame \in Frames
  BY Numbers DEF Index, Frames, Last, Kernel, Boot, Pids, Handles, NULL

LEMMA FrameBelow ==
  ASSUME NEW x \in Nat, x + 1 <= Entries
  PROVE  x \in Frames
  BY Indices, Numbers

LEMMA PageOf ==
  ASSUME NEW f \in Frames
  PROVE  /\ KernelPage(f) = <<KernelIndex, f>> /\ KernelPage(f)[1] = KernelIndex
         /\ KernelPage(f)[2] = f /\ KernelPage(f) # NULL /\ KernelPage(f) \in Pages
<1>1. f \in 0..Last /\ f < Entries
  BY Indices, Numbers
<1>2. KernelPage(f) = <<KernelIndex, f>>
  BY <1>1 DEF KernelPage
<1>3. <<KernelIndex, f>> \in Pages /\ <<KernelIndex, f>> # <<0, 0>>
  BY Indices, Numbers DEF Pages, Frames, Index
<1> QED
  BY <1>2, <1>3, Indices

LEMMA FlagFacts ==
  /\ "present" \in KernelFlags /\ "user" \notin KernelFlags /\ "pse" \notin KernelFlags
  /\ "present" \in UserFlags /\ "user" \in UserFlags /\ "pse" \notin UserFlags
  /\ KernelFlags \subseteq UserFlags
  BY DEF KernelFlags, UserFlags

LEMMA NoEntry ==
  NullEntry = [frame |-> 0, flags |-> {}] /\ NullEntry.frame = 0 /\ NullEntry.flags = {}
  BY DEF NullEntry
-----------------------------------------------------------------------------
(* What the invariant says of a single state. *)

(* Who runs has a directory. *)
LEMMA RunningBuilt ==
  ASSUME PInv
  PROVE  running \in Pids /\ (running = Kernel \/ Built(running))
<1>1. running \in Pids /\ new \in Pids /\ running \in ring
  BY DEF PInv, TypeOK, CpuInv
<1>2. running = Kernel \/ running < new \/ (running = new /\ pc = "ready")
  BY <1>1 DEF PInv, CpuInv
<1> QED
  BY <1>1, <1>2, Indices DEF Built

(* Every directory, the kernel's and a process's, shares the kernel's      *)
(* tables.                                                                 *)
LEMMA Shared ==
  ASSUME PInv, ~OnBootDirectory, NEW p \in Pids, p = Kernel \/ Built(p)
  PROVE  /\ Linked(mem, handles[p], 0, KL, KernelFlags)
         /\ Linked(mem, handles[p], KernelIndex, KH, KernelFlags)
         /\ Linked(mem, handles[p], Last, Dir(handles[p]), KernelFlags)
         /\ Unlinked(mem, handles[p], KernelIndex + 1)
         /\ handles[p].directory = KernelPage(Dir(handles[p]))
         /\ Dir(handles[p]) \in Frames
<1>1. pc # "boot" /\ Low = Entries /\ High = Entries /\ Entries > 0
  BY Numbers DEF OnBootDirectory, Low, High
<1>2. cursor > KH /\ cursor \in HeapFrame..Entries
  BY DEF PInv, CursorInv, TypeOK
<1>3. KD \in Frames /\ KL \in Frames /\ KH \in Frames
  BY <1>2, Numbers, Indices
<1>4. KernelIndex + 1 \in Index \ {0, KernelIndex, Last}
      /\ KernelIndex + 1 \in Index \ {0, CodeIndex, StackIndex, KernelIndex, Last}
  BY Indices, Numbers
<1>5. CASE p = Kernel
  <2>1. KernelShape(mem, handles[p], Entries, Entries)
    BY <1>1, <1>5 DEF PInv, KernelInv
  <2>2. handles[p].directory = KernelPage(KD) /\ Dir(handles[p]) = KD
    BY <1>3, <2>1, PageOf DEF KernelShape, Dir
  <2> QED
    BY <1>1, <1>3, <1>4, <2>1, <2>2 DEF KernelShape, TableFor
<1>6. CASE Built(p)
  <2>1. ProcessShape(mem, handles[p], Coded(p), code[p].begin, Stacked(p), stack[p])
        /\ ProcessOrder(handles[p], Coded(p), Stacked(p), cursor)
    BY <1>6 DEF PInv, ProcessInv
  <2>2. Dir(handles[p]) \in Frames
    <3>1. handles[p].directory \in Pages
      BY Indices DEF PInv, TypeOK
    <3> QED
      BY <3>1, Indices DEF Dir, Pages
  <2> QED
    BY <1>4, <2>1, <2>2 DEF ProcessShape
<1> QED
  BY <1>5, <1>6

LEMMA SharedTables ==
  ASSUME PInv, ~OnBootDirectory
  PROVE  /\ KD \in Frames /\ KL \in Frames /\ KH \in Frames
         /\ Maps(mem[KL], 0, Entries, KernelFlags) /\ Maps(mem[KH], 0, Entries, KernelFlags)
<1>1. pc # "boot" /\ Low = Entries /\ High = Entries /\ Entries > 0
  BY Numbers DEF OnBootDirectory, Low, High
<1>2. cursor > KH /\ cursor \in HeapFrame..Entries
  BY DEF PInv, CursorInv, TypeOK
<1>3. KD \in Frames /\ KL \in Frames /\ KH \in Frames
  BY <1>2, Numbers, Indices
<1>4. KernelShape(mem, handles[Kernel], Entries, Entries)
  BY <1>1 DEF PInv, KernelInv
<1> QED
  BY <1>1, <1>3, <1>4 DEF KernelShape, TableFor

(* The MMU's walk through a table. *)
LEMMA WalkTable ==
  ASSUME NEW dir, NEW v, NEW f, NEW g, NEW pdflags, NEW flags,
         mem[dir][v[1]] = [frame |-> f, flags |-> pdflags],
         mem[f][v[2]] = [frame |-> g, flags |-> flags],
         "present" \in pdflags, "pse" \notin pdflags
  PROVE  /\ "present" \in flags =>
              MMU(dir, v) = [frame |-> g, user |-> "user" \in pdflags /\ "user" \in flags]
         /\ "present" \notin flags => MMU(dir, v) = Unmapped
  BY DEF MMU

(* The kernel's memory is where its pointers say. *)
LEMMA KernelSeen ==
  ASSUME PInv, NEW f \in Frames
  PROVE  MMU(cr3, KernelPage(f)) = [frame |-> f, user |-> FALSE] /\ At(KernelPage(f)) = f
<1>1. KernelPage(f)[1] = KernelIndex /\ KernelPage(f)[2] = f /\ f \in Nat /\ f \in Index
      /\ f < Entries
  BY PageOf, Indices, Numbers
<1> SUFFICES MMU(cr3, KernelPage(f)) = [frame |-> f, user |-> FALSE]
  BY DEF At
<1>2. CASE OnBootDirectory
  <2>1. mem[cr3][KernelIndex] = BootEntry /\ pse
    BY <1>2, Indices DEF PInv, CpuInv
  <2>2. BootEntry.frame = 0 /\ "present" \in BootEntry.flags /\ "pse" \in BootEntry.flags
        /\ "user" \notin BootEntry.flags
    BY DEF BootEntry, KernelFlags
  <2>3. MMU(cr3, KernelPage(f)) = [frame |-> 0 + f, user |-> "user" \in BootEntry.flags]
    BY <1>1, <2>1, <2>2 DEF MMU
  <2>4. ("user" \in BootEntry.flags) = FALSE /\ 0 + f = f
    BY <1>1, <2>2
  <2> QED
    BY <2>3, <2>4
<1>3. CASE ~OnBootDirectory
  <2>1. mem[cr3][KernelIndex] = [frame |-> KH, flags |-> KernelFlags]
    BY <1>3, RunningBuilt, Shared DEF Linked, PInv, CpuInv
  <2>2. mem[KH][f] = [frame |-> 0 + f, flags |-> KernelFlags]
    BY <1>1, <1>3, SharedTables DEF Maps
  <2>3. MMU(cr3, KernelPage(f)) =
          [frame |-> 0 + f, user |-> "user" \in KernelFlags /\ "user" \in KernelFlags]
    BY <1>1, <2>1, <2>2, FlagFacts, WalkTable
  <2>4. ("user" \in KernelFlags /\ "user" \in KernelFlags) = FALSE /\ 0 + f = f
    BY <1>1, FlagFacts
  <2> QED
    BY <2>3, <2>4
<1> QED
  BY <1>2, <1>3

(* kzalloc stays within the memory that is mapped (kheap.c:59-69). *)
LEMMA Within ==
  ASSUME PInv, NEW n \in Nat, Touchable(n)
  PROVE  cursor + n <= Entries
<1>1. cursor \in HeapFrame..Entries /\ HeapFrame \in Nat /\ Entries \in Nat /\ cursor \in Nat
  BY Numbers DEF PInv, TypeOK
<1> SUFFICES ASSUME cursor + n > Entries PROVE FALSE
  BY <1>1
<1>2. Entries \in cursor..(cursor + n - 1)
  BY <1>1
<1>3. KernelPage(Entries) = <<KernelIndex + 1, 0>>
  BY Numbers DEF KernelPage
<1>4. mem[cr3][KernelIndex + 1] = NullEntry
  <2>1. CASE OnBootDirectory
    <3>1. KernelIndex + 1 \in Index /\ KernelIndex + 1 \notin {0, KernelIndex}
      BY Indices, Numbers
    <3> QED
      BY <2>1, <3>1 DEF PInv, CpuInv
  <2>2. CASE ~OnBootDirectory
    BY <2>2, RunningBuilt, Shared DEF Unlinked, PInv, CpuInv
  <2> QED
    BY <2>1, <2>2
<1>5. MMU(cr3, <<KernelIndex + 1, 0>>) = Unmapped
  BY <1>4, NoEntry DEF MMU
<1> QED
  BY <1>2, <1>3, <1>5 DEF Touchable

(* The kernel's own walk agrees (paging.c:18-36). *)
LEMMA Translated ==
  ASSUME PInv, pc \notin {"boot", "pse", "kfree"}, NEW f \in Frames
  PROVE  virtual_to_physical_addr(handles[current_directory], KernelPage(f)) = f
<1>1. KernelPage(f)[1] = KernelIndex /\ KernelPage(f)[2] = f /\ f \in Nat /\ f \in Index
      /\ f < Entries
  BY PageOf, Indices, Numbers
<1>2. CASE OnBootDirectory
  <2>1. pc \in {"high", "cr3"} \/ (pc = "map" /\ job.handle = Kernel)
    BY <1>2 DEF OnBootDirectory, MapsFor, PInv, JobInv
  <2>2. Booting
    BY <2>1 DEF Booting
  <2>3. handles[current_directory].directory = KernelPage(BootFrame) /\ pse
        /\ mem[BootFrame][KernelIndex] = BootEntry
    BY <1>2, <2>2, Indices DEF PInv, CpuInv
  <2>4. DirectoryEntry(handles[current_directory], KernelIndex) = BootEntry
    BY <2>3, KernelSeen, Indices DEF DirectoryEntry
  <2>5. BootEntry.frame = 0 /\ "pse" \in BootEntry.flags
    BY DEF BootEntry
  <2> QED
    BY <1>1, <2>3, <2>4, <2>5 DEF virtual_to_physical_addr
<1>3. CASE ~OnBootDirectory
  <2>1. ~Booting
    <3>1. pc \notin {"boot", "high", "cr3", "pse", "kfree"}
      BY <1>3 DEF OnBootDirectory
    <3>2. ~(pc = "map" /\ job.handle = Kernel)
      <4> SUFFICES ASSUME pc = "map" PROVE job.handle # Kernel
        OBVIOUS
      <4>1. job.then \in {"map_stack", "task_new"}
        BY <1>3 DEF OnBootDirectory, MapsFor, PInv, MoreTypes, JobInv
      <4> QED
        BY <4>1 DEF MapsFor, PInv, JobInv, CpuInv
    <3> QED
      BY <3>1, <3>2 DEF Booting
  <2>2. current_directory = Kernel
    BY <2>1 DEF PInv, CpuInv
  <2>3. /\ Linked(mem, handles[Kernel], KernelIndex, KH, KernelFlags)
        /\ handles[Kernel].directory = KernelPage(Dir(handles[Kernel]))
        /\ Dir(handles[Kernel]) \in Frames
    BY <1>3, Shared, Indices
  <2>4. DirectoryEntry(handles[Kernel], KernelIndex) = [frame |-> KH, flags |-> KernelFlags]
    BY <2>3, KernelSeen DEF DirectoryEntry, Linked
  <2>5. At(handles[Kernel].directory_virtual[KernelIndex]) = KH
    BY <1>3, <2>3, SharedTables, KernelSeen DEF Linked
  <2>6. mem[KH][f] = [frame |-> 0 + f, flags |-> KernelFlags]
    BY <1>1, <1>3, SharedTables DEF Maps
  <2> QED
    BY <1>1, <2>2, <2>4, <2>5, <2>6, FlagFacts DEF virtual_to_physical_addr
<1> QED
  BY <1>2, <1>3
-----------------------------------------------------------------------------
(* Writing entries. *)

Memory == [Frames -> [Index -> Entry]]
Handle == [directory : Pages, directory_virtual : [Index -> Pages]]

LEMMA HandleFrames ==
  ASSUME NEW h \in Handle
  PROVE  Dir(h) \in Frames /\ \A i \in Index : Table(h, i) \in Frames
  BY DEF Handle, Pages, Dir, Table, Index, Frames

(* What is known of every handle and of the heap. *)
LEMMA Held ==
  ASSUME PInv
  PROVE  /\ mem \in Memory /\ handles \in [Handles -> Handle]
         /\ cursor \in Nat /\ cursor >= HeapFrame /\ cursor <= Entries
         /\ \A h \in Handles :
              /\ handles[h] \in Handle
              /\ Dir(handles[h]) \in Frames /\ Dir(handles[h]) \in Nat
              /\ \A i \in Index : Table(handles[h], i) \in Frames /\ Table(handles[h], i) \in Nat
<1>1. mem \in Memory /\ handles \in [Handles -> Handle] /\ cursor \in HeapFrame..Entries
  BY DEF PInv, TypeOK, Memory, Handle
<1>2. cursor \in Nat /\ cursor >= HeapFrame /\ cursor <= Entries
  BY <1>1, Numbers
<1>3. Frames \subseteq Nat
  BY Indices
<1>4. \A h \in Handles : handles[h] \in Handle
  BY <1>1
<1> QED
  BY <1>1, <1>2, <1>3, <1>4, HandleFrames

LEMMA Stays ==
  ASSUME NEW m, NEW n, NEW h, NEW g, NEW j, NEW f, NEW c, NEW flags,
         Dir(g) = Dir(h), g.directory_virtual[j] = h.directory_virtual[j],
         n[Dir(h)][j] = m[Dir(h)][j]
  PROVE  /\ Linked(m, h, j, f, flags) => Linked(n, g, j, f, flags)
         /\ Unlinked(m, h, j) => Unlinked(n, g, j)
         /\ Table(g, j) = Table(h, j)
         /\ (c > 0 => n[Table(h, j)] = m[Table(h, j)])
            => (TableFor(m, h, j, f, c, flags) => TableFor(n, g, j, f, c, flags))
<1>1. Linked(m, h, j, f, flags) => Linked(n, g, j, f, flags)
  BY DEF Linked
<1>2. Unlinked(m, h, j) => Unlinked(n, g, j)
  BY DEF Unlinked
<1>3. Table(g, j) = Table(h, j)
  BY DEF Table
<1>4. Linked(m, h, j, Table(h, j), flags) => Linked(n, g, j, Table(g, j), flags)
  BY <1>3 DEF Linked
<1> QED
  BY <1>1, <1>2, <1>3, <1>4 DEF TableFor

LEMMA KernelStays ==
  ASSUME NEW m, NEW n, NEW h, NEW lo, NEW hi, KernelShape(m, h, lo, hi), Dir(h) = KD,
         n[KD] = m[KD], lo > 0 => n[KL] = m[KL], hi > 0 => n[KH] = m[KH]
  PROVE  KernelShape(n, h, lo, hi)
<1>1. Linked(n, h, Last, KD, KernelFlags)
  BY Stays DEF KernelShape
<1>2. TableFor(n, h, 0, 0, lo, KernelFlags)
  BY Stays DEF KernelShape
<1>3. TableFor(n, h, KernelIndex, 0, hi, KernelFlags)
  BY Stays DEF KernelShape
<1>4. \A i \in Index \ {0, KernelIndex, Last} : Unlinked(n, h, i)
  BY Stays DEF KernelShape
<1> QED
  BY <1>1, <1>2, <1>3, <1>4 DEF KernelShape

LEMMA ProcessStays ==
  ASSUME NEW m, NEW n, NEW h, NEW c, NEW b, NEW s, NEW t, ProcessShape(m, h, c, b, s, t),
         n[Dir(h)] = m[Dir(h)],
         c > 0 => n[Table(h, CodeIndex)] = m[Table(h, CodeIndex)],
         s > 0 => n[Table(h, StackIndex)] = m[Table(h, StackIndex)]
  PROVE  ProcessShape(n, h, c, b, s, t)
<1>1. Linked(n, h, Last, Dir(h), KernelFlags)
  BY Stays DEF ProcessShape
<1>2. Linked(n, h, 0, KL, KernelFlags) /\ Linked(n, h, KernelIndex, KH, KernelFlags)
  BY Stays DEF ProcessShape
<1>3. TableFor(n, h, CodeIndex, b, c, UserFlags)
  BY Stays DEF ProcessShape
<1>4. TableFor(n, h, StackIndex, t, s, UserFlags)
  BY Stays DEF ProcessShape
<1>5. \A i \in Index \ {0, CodeIndex, StackIndex, KernelIndex, Last} : Unlinked(n, h, i)
  BY Stays DEF ProcessShape
<1> QED
  BY <1>1, <1>2, <1>3, <1>4, <1>5 DEF ProcessShape

(* One more page in a table, and a first page in a new table x linked to   *)
(* directory d.                                                            *)
Extend(m, x, c, f, flags) == [m EXCEPT ![x][c] = [frame |-> f, flags |-> flags]]
Begin(m, x, d, i, f, flags) ==
  [m EXCEPT ![x] = [EmptyTable EXCEPT ![0] = [frame |-> f, flags |-> flags]],
            ![d][i] = [frame |-> x, flags |-> flags]]
Link(h, i, x) == [h EXCEPT !.directory_virtual[i] = KernelPage(x)]

LEMMA Extended ==
  ASSUME NEW m \in Memory, NEW h \in Handle, NEW i \in Index, NEW b \in Nat, NEW c \in Index,
         c > 0, NEW flags \in SUBSET UserFlags, b + c \in Frames,
         TableFor(m, h, i, b, c, flags), Table(h, i) # Dir(h),
         NEW n, n = Extend(m, Table(h, i), c, b + c, flags)
  PROVE  /\ n \in Memory /\ TableFor(n, h, i, b, c + 1, flags)
         /\ \A f \in Frames \ {Table(h, i)} : n[f] = m[f]
<1> DEFINE x == Table(h, i)
           e == [frame |-> b + c, flags |-> flags]
<1>1. x \in Frames /\ Dir(h) \in Frames /\ x # Dir(h) /\ c \in Nat
  BY HandleFrames, Indices
<1>2. e \in Entry
  BY DEF Entry
<1>3. /\ \A f \in Frames \ {x} : n[f] = m[f]
      /\ \A k \in Index : n[x][k] = IF k = c THEN e ELSE m[x][k]
  BY <1>1 DEF Memory, Extend
<1>4. n \in Memory
  BY <1>1, <1>2 DEF Memory, Extend
<1>5. Maps(m[x], b, c, flags) /\ Linked(m, h, i, x, flags)
  BY DEF TableFor
<1>6. Linked(n, h, i, x, flags)
  BY <1>1, <1>3, <1>5 DEF Linked
<1>7. Maps(n[x], b, c + 1, flags)
  <2> SUFFICES ASSUME NEW k \in Index
               PROVE  n[x][k] = IF k < c + 1 THEN [frame |-> b + k, flags |-> flags]
                                ELSE NullEntry
    BY DEF Maps
  <2>1. k \in Nat /\ m[x][k] = IF k < c THEN [frame |-> b + k, flags |-> flags] ELSE NullEntry
    BY <1>5, Indices DEF Maps
  <2>2. CASE k = c
    BY <1>1, <1>3, <2>2
  <2>3. CASE k # c
    <3>1. k < c + 1 <=> k < c
      BY <1>1, <2>1, <2>3
    <3> QED
      BY <1>3, <2>1, <2>3, <3>1
  <2> QED
    BY <2>2, <2>3
<1>8. c + 1 > 0
  BY <1>1
<1> QED
  BY <1>3, <1>4, <1>6, <1>7, <1>8 DEF TableFor

(* A handle and memory that differ at index i only. *)
SameBut(m, h, n, g, i) ==
  /\ Dir(g) = Dir(h) /\ g.directory = h.directory
  /\ \A j \in Index \ {i} : /\ g.directory_virtual[j] = h.directory_virtual[j]
                            /\ n[Dir(h)][j] = m[Dir(h)][j]

(* Table x at index i maps one page. *)
NewTable(m, h, n, g, i, b, flags, x) ==
  /\ n \in Memory /\ g \in Handle /\ SameBut(m, h, n, g, i) /\ Table(g, i) = x
  /\ TableFor(n, g, i, b, 1, flags)
  /\ \A f \in Frames \ {x, Dir(h)} : n[f] = m[f]

LEMMA Begun ==
  ASSUME NEW m \in Memory, NEW h \in Handle, NEW i \in Index, NEW b \in Frames,
         NEW flags \in SUBSET UserFlags, NEW x \in Frames, x # Dir(h),
         NEW n, n = Begin(m, x, Dir(h), i, b, flags), NEW g, g = Link(h, i, x)
  PROVE  NewTable(m, h, n, g, i, b, flags, x)
<1> DEFINE e == [frame |-> b, flags |-> flags]
           t == [EmptyTable EXCEPT ![0] = e]
           l == [frame |-> x, flags |-> flags]
<1>1. Dir(h) \in Frames /\ 0 \in Index /\ b \in Nat /\ KernelPage(x) \in Pages
      /\ KernelPage(x)[2] = x
  BY HandleFrames, Indices, Numbers, PageOf
<1>2. e \in Entry /\ l \in Entry /\ NullEntry \in Entry
  <2>1. 0 \in Frames
    BY Indices DEF Frames, Index
  <2> QED
    BY <2>1 DEF Entry, NullEntry
<1>3. t \in [Index -> Entry] /\ \A k \in Index : t[k] = IF k = 0 THEN e ELSE NullEntry
  BY <1>1, <1>2 DEF EmptyTable
<1>4. n = [m EXCEPT ![x] = t, ![Dir(h)][i] = l]
  BY DEF Begin
<1> HIDE DEF t, l
<1>5. /\ n \in Memory /\ n[x] = t /\ n[Dir(h)][i] = l
      /\ \A j \in Index \ {i} : n[Dir(h)][j] = m[Dir(h)][j]
      /\ \A f \in Frames \ {x, Dir(h)} : n[f] = m[f]
  <2> DEFINE r == [m EXCEPT ![x] = t]
             u == [r[Dir(h)] EXCEPT ![i] = l]
  <2>1. r \in Memory /\ r[x] = t /\ \A f \in Frames \ {x} : r[f] = m[f]
    BY <1>3 DEF Memory
  <2>2. n = [r EXCEPT ![Dir(h)] = u]
    BY <1>4
  <2> HIDE DEF r
  <2>3. u \in [Index -> Entry] /\ u[i] = l /\ \A j \in Index \ {i} : u[j] = r[Dir(h)][j]
    BY <1>1, <1>2, <2>1 DEF Memory
  <2> HIDE DEF u
  <2>4. n \in Memory /\ n[Dir(h)] = u /\ \A f \in Frames \ {Dir(h)} : n[f] = r[f]
    BY <1>1, <2>1, <2>2, <2>3 DEF Memory
  <2> QED
    BY <1>1, <2>1, <2>3, <2>4
<1>6. /\ g \in Handle /\ g.directory = h.directory /\ g.directory_virtual[i] = KernelPage(x)
      /\ \A j \in Index \ {i} : g.directory_virtual[j] = h.directory_virtual[j]
  BY <1>1 DEF Handle, Link
<1>7. Dir(g) = Dir(h) /\ Table(g, i) = x
  BY <1>1, <1>6 DEF Dir, Table
<1>8. Linked(n, g, i, x, flags)
  BY <1>5, <1>6, <1>7 DEF Linked, l
<1>9. Maps(n[x], b, 1, flags)
  <2> SUFFICES ASSUME NEW k \in Index
               PROVE  n[x][k] = IF k < 1 THEN [frame |-> b + k, flags |-> flags] ELSE NullEntry
    BY DEF Maps
  <2>1. k \in Nat /\ b + 0 = b
    BY <1>1 DEF Index
  <2>2. k < 1 <=> k = 0
    BY <2>1
  <2>3. n[x][k] = IF k = 0 THEN e ELSE NullEntry
    BY <1>3, <1>5
  <2>4. CASE k = 0
    BY <2>1, <2>2, <2>3, <2>4
  <2>5. CASE k # 0
    BY <2>2, <2>3, <2>5
  <2> QED
    BY <2>4, <2>5
<1>10. TableFor(n, g, i, b, 1, flags)
  BY <1>7, <1>8, <1>9 DEF TableFor
<1> QED
  BY <1>5, <1>6, <1>7, <1>10 DEF NewTable, SameBut
-----------------------------------------------------------------------------
(* Steps that write no table. *)

LEMMA PInvInit == Init => PInv
<1> SUFFICES ASSUME Init PROVE PInv
  OBVIOUS
<1>1. /\ pc = "boot" /\ new = Kernel /\ running = Kernel /\ ring = {Kernel} /\ cr3 = BootFrame
      /\ cursor = HeapFrame /\ current_directory = Kernel
      /\ handles = [h \in Handles |-> NoHandle]
      /\ job = [handle |-> Kernel, virt |-> NULL, phys |-> 0, end |-> 0,
                flags |-> {}, then |-> "boot"]
      /\ code = [p \in Pids |-> [begin |-> 0, len |-> 0]] /\ stack = [p \in Pids |-> 0]
  BY DEF Init
<1>2. pse = TRUE /\ halted = FALSE
  BY DEF Init
<1>3. 0 \in Frames /\ 0 \in 0..Entries /\ NULL \in Pages
  BY Indices, Numbers DEF Pages
<1>4. NullEntry \in Entry /\ BootEntry \in Entry
  BY <1>3 DEF Entry, NullEntry, BootEntry, KernelFlags, UserFlags
<1>5. mem \in Memory
  BY <1>4 DEF Init, Memory, EmptyTable
<1>6. \A i \in Index : mem[BootFrame][i] = IF i \in {0, KernelIndex} THEN BootEntry ELSE NullEntry
  BY Indices DEF Init
<1>7. NoHandle \in Handle
  BY <1>3 DEF NoHandle, Handle
<1>8. TypeOK
  <2>1. pse \in BOOLEAN /\ halted \in BOOLEAN
    BY <1>2
  <2>2. cr3 \in Frames /\ cursor \in HeapFrame..Entries
    BY <1>1, Indices, Numbers
  <2>3. handles \in [Handles -> Handle]
    BY <1>1, <1>7
  <2> QED
    BY <1>1, <1>3, <1>5, <2>1, <2>2, <2>3, Indices DEF TypeOK, Memory, Handle
<1>9. MoreTypes
  BY <1>1, <1>3, Indices DEF MoreTypes
<1>10. OnBootDirectory /\ Booting
  BY <1>1 DEF OnBootDirectory, Booting
<1>11. CpuInv
  <2>1. pse <=> OnBootDirectory \/ pc = "pse"
    BY <1>2, <1>10
  <2> QED
    BY <1>1, <1>6, <1>10, <2>1 DEF CpuInv, MapsFor
<1>12. JobInv /\ CursorInv /\ KernelInv
  BY <1>1, <1>10, Indices DEF JobInv, MapsFor, CursorInv, KernelInv
<1>13. \A p \in Pids : p # Kernel => ~(p <= new)
  BY <1>1, Indices
<1>14. LoadInv /\ ProcessInv /\ OrderInv
  BY <1>1, <1>13, Indices DEF LoadInv, ProcessInv, OrderInv, Built
<1> QED
  BY <1>8, <1>9, <1>11, <1>12, <1>14 DEF PInv

LEMMA Steady ==
  ASSUME PInv, mem' = mem, cursor' \in Nat, cursor' >= cursor,
         \A p \in Pids : handles'[p] = handles[p],
         pc # "boot", pc' # "boot", Low' = Low, High' = High,
         \A p \in Pids :
           /\ Built(p)' <=> Built(p)
           /\ Built(p) => /\ Coded(p)' = Coded(p) /\ Stacked(p)' = Stacked(p)
                          /\ code'[p].begin = code[p].begin /\ stack'[p] = stack[p]
  PROVE  KernelInv' /\ ProcessInv' /\ OrderInv'
<1>1. KernelInv'
  BY Indices DEF PInv, KernelInv
<1>2. OrderInv'
  BY DEF PInv, OrderInv
<1>3. ProcessInv'
  <2> SUFFICES ASSUME NEW p \in Pids
               PROVE  /\ p # Kernel /\ ~Built(p)' => handles'[p] = NoHandle
                      /\ Built(p)' =>
                           /\ ProcessShape(mem', handles'[p], Coded(p)', code'[p].begin,
                                           Stacked(p)', stack'[p])
                           /\ ProcessOrder(handles'[p], Coded(p)', Stacked(p)', cursor')
    BY DEF ProcessInv
  <2>1. CASE ~Built(p)
    BY <2>1 DEF PInv, ProcessInv
  <2>2. CASE Built(p)
    <3>1. /\ ProcessShape(mem, handles[p], Coded(p), code[p].begin, Stacked(p), stack[p])
          /\ ProcessOrder(handles[p], Coded(p), Stacked(p), cursor)
      BY <2>2 DEF PInv, ProcessInv
    <3>2. /\ Dir(handles[p]) \in Nat /\ Table(handles[p], CodeIndex) \in Nat
          /\ Table(handles[p], StackIndex) \in Nat /\ cursor \in Nat
      BY Held, Indices
    <3>3. ProcessOrder(handles[p], Coded(p), Stacked(p), cursor')
      BY <3>1, <3>2 DEF ProcessOrder
    <3> QED
      BY <2>2, <3>1, <3>3
  <2> QED
    BY <2>1, <2>2
<1> QED
  BY <1>1, <1>2, <1>3

(* No process exists while paging_init is at work. *)
LEMMA NoneBuilt ==
  ASSUME PInv, Booting, new' = new
  PROVE  new = Kernel /\ new' = Kernel /\ \A p \in Pids : ~Built(p) /\ ~Built(p)'
<1>1. new = Kernel
  BY DEF PInv, CpuInv
<1>2. \A p \in Pids : p # Kernel => ~(p <= Kernel)
  BY Indices
<1> QED
  BY <1>1, <1>2 DEF Built

LEMMA LoadKept ==
  ASSUME PInv, UNCHANGED <<code, stack, new>>, cursor' \in Nat, cursor' >= cursor
  PROVE  LoadInv'
<1>1. \A p \in Pids : stack[p] \in Nat /\ cursor \in Nat
  BY Indices, Numbers DEF PInv, TypeOK, MoreTypes
<1> QED
  BY <1>1 DEF PInv, LoadInv

LEMMA MapHighKeeps ==
  ASSUME PInv, MapHigh
  PROVE  PInv'
<1>1. /\ pc = "high" /\ pc' = "map"
      /\ job' = [handle |-> Kernel, virt |-> <<KernelIndex, 0>>, phys |-> 0, end |-> Entries,
                 flags |-> KernelFlags, then |-> "cr3"]
      /\ UNCHANGED <<mem, handles, cursor, current_directory, code, stack, ring, running,
                     cr3, new>>
  BY DEF MapHigh, paging_map_from_to, tableVars, bootVars, procVars, cpuVars
<1>2. pse' = pse /\ halted' = halted
  BY DEF MapHigh, bootVars, cpuVars
<1>3. Booting /\ Booting' /\ OnBootDirectory /\ OnBootDirectory'
  BY <1>1 DEF Booting, OnBootDirectory, MapsFor
<1>4. Low = Entries /\ Low' = Entries /\ High = 0 /\ High' = 0
  BY <1>1 DEF Low, High, MapsFor
<1>5. cursor' \in Nat /\ cursor' >= cursor
  BY <1>1, Numbers DEF PInv, TypeOK
<1>6. KernelInv' /\ ProcessInv' /\ OrderInv' /\ LoadInv'
  BY <1>1, <1>3, <1>4, <1>5, NoneBuilt, Steady, LoadKept
<1>7. TypeOK'
  <2>1. pse' \in BOOLEAN /\ halted' \in BOOLEAN
    BY <1>2 DEF PInv, TypeOK
  <2>2. <<KernelIndex, 0>> \in Pages /\ 0 \in 0..Entries /\ Entries \in 0..Entries
    BY Indices, Numbers DEF Pages
  <2> QED
    BY <1>1, <2>1, <2>2, Indices DEF PInv, TypeOK
<1>8. MoreTypes'
  <2>1. <<KernelIndex, 0>> \in Pages /\ 0 \in 0..Entries /\ Entries \in 0..Entries
    BY Indices, Numbers DEF Pages
  <2> QED
    BY <1>1, <2>1, Indices, FlagFacts DEF PInv, MoreTypes
<1>9. JobInv'
  BY <1>1 DEF JobInv, MapsFor
<1>10. CursorInv'
  BY <1>1, <1>3, <1>4 DEF PInv, CursorInv, MapsFor
<1>11. CpuInv'
  <2>1. pse' <=> OnBootDirectory' \/ pc' = "pse"
    BY <1>2, <1>3 DEF PInv, CpuInv
  <2> QED
    BY <1>1, <1>3, <2>1 DEF PInv, CpuInv, MapsFor
<1> QED
  BY <1>6, <1>7, <1>8, <1>9, <1>10, <1>11 DEF PInv

(* The directory's last entry names the directory (paging.c:212-215). *)
LEMMA OwnEntry ==
  ASSUME PInv, NEW p \in Pids, p # Kernel => Built(p),
         p = Kernel => pc # "boot" /\ KD \in Frames
  PROVE  DirectoryEntry(handles[p], Last).frame = Dir(handles[p])
<1>1. /\ handles[p].directory = KernelPage(Dir(handles[p])) /\ Dir(handles[p]) \in Frames
      /\ Linked(mem, handles[p], Last, Dir(handles[p]), KernelFlags)
  <2>1. CASE p = Kernel
    <3>1. KernelShape(mem, handles[p], Low, High)
      BY <2>1 DEF PInv, KernelInv
    <3>2. Dir(handles[p]) = KD
      BY <2>1, <3>1, PageOf DEF KernelShape, Dir
    <3> QED
      BY <2>1, <3>1, <3>2 DEF KernelShape
  <2>2. CASE p # Kernel
    <3>1. ProcessShape(mem, handles[p], Coded(p), code[p].begin, Stacked(p), stack[p])
      BY <2>2 DEF PInv, ProcessInv
    <3> QED
      BY <3>1, Held, Indices DEF ProcessShape
  <2> QED
    BY <2>1, <2>2
<1>2. At(handles[p].directory) = Dir(handles[p])
  BY <1>1, KernelSeen
<1> QED
  BY <1>1, <1>2 DEF DirectoryEntry, Linked

LEMMA LoadCr3Keeps ==
  ASSUME PInv, LoadCr3
  PROVE  PInv'
<1>1. /\ pc = "cr3" /\ pc' = "pse" /\ cr3' = DirectoryEntry(handles[Kernel], Last).frame
      /\ UNCHANGED <<mem, handles, cursor, current_directory, code, stack, ring, running,
                     new, job>>
  BY DEF LoadCr3, tableVars, bootVars, procVars, cpuVars
<1>2. pse' = pse /\ halted' = halted
  BY DEF LoadCr3, bootVars, cpuVars
<1>3. Booting /\ Booting' /\ OnBootDirectory /\ ~OnBootDirectory'
  BY <1>1 DEF Booting, OnBootDirectory, MapsFor
<1>4. Low' = Low /\ High' = High
  BY <1>1 DEF Low, High, MapsFor
<1>5. cursor' \in Nat /\ cursor' >= cursor /\ KD \in Frames
  BY <1>1, Held, Numbers, Indices DEF PInv, CursorInv
<1>6. KernelInv' /\ ProcessInv' /\ OrderInv' /\ LoadInv'
  BY <1>1, <1>3, <1>4, <1>5, NoneBuilt, Steady, LoadKept
<1>7. cr3' = Dir(handles[Kernel]) /\ running = Kernel
  BY <1>1, <1>3, <1>5, OwnEntry, Indices DEF PInv, CpuInv
<1>8. TypeOK'
  <2>1. pse' \in BOOLEAN /\ halted' \in BOOLEAN
    BY <1>2 DEF PInv, TypeOK
  <2>2. cr3' \in Frames
    BY <1>7, Held, Indices
  <2> QED
    BY <1>1, <2>1, <2>2 DEF PInv, TypeOK
<1>9. MoreTypes' /\ JobInv'
  BY <1>1 DEF PInv, MoreTypes, JobInv, MapsFor
<1>10. CursorInv'
  BY <1>1, <1>3 DEF PInv, CursorInv, MapsFor
<1>11. CpuInv'
  <2>1. pse' <=> OnBootDirectory' \/ pc' = "pse"
    BY <1>1, <1>2, <1>3 DEF PInv, CpuInv
  <2> QED
    BY <1>1, <1>3, <1>7, <2>1 DEF PInv, CpuInv, MapsFor
<1> QED
  BY <1>6, <1>8, <1>9, <1>10, <1>11 DEF PInv

LEMMA PseOffKeeps ==
  ASSUME PInv, PseOff
  PROVE  PInv'
<1>1. /\ pc = "pse" /\ pc' = "kfree"
      /\ UNCHANGED <<mem, handles, cursor, current_directory, code, stack, ring, running,
                     cr3, new, job>>
  BY DEF PseOff, tableVars, procVars, cpuVars
<1>2. pse' = FALSE /\ halted' = halted
  BY DEF PseOff, cpuVars
<1>3. Booting /\ Booting' /\ ~OnBootDirectory /\ ~OnBootDirectory'
  BY <1>1 DEF Booting, OnBootDirectory, MapsFor
<1>4. Low' = Low /\ High' = High
  BY <1>1 DEF Low, High, MapsFor
<1>5. cursor' \in Nat /\ cursor' >= cursor
  BY <1>1, Held
<1>6. KernelInv' /\ ProcessInv' /\ OrderInv' /\ LoadInv'
  BY <1>1, <1>3, <1>4, <1>5, NoneBuilt, Steady, LoadKept
<1>7. TypeOK'
  <2>1. pse' \in BOOLEAN /\ halted' \in BOOLEAN
    BY <1>2 DEF PInv, TypeOK
  <2> QED
    BY <1>1, <2>1 DEF PInv, TypeOK
<1>8. MoreTypes' /\ JobInv'
  BY <1>1 DEF PInv, MoreTypes, JobInv, MapsFor
<1>9. CursorInv'
  BY <1>1, <1>3 DEF PInv, CursorInv, MapsFor
<1>10. CpuInv'
  <2>1. pse' <=> OnBootDirectory' \/ pc' = "pse"
    BY <1>1, <1>2, <1>3
  <2> QED
    BY <1>1, <1>3, <2>1 DEF PInv, CpuInv, MapsFor
<1> QED
  BY <1>6, <1>7, <1>8, <1>9, <1>10 DEF PInv

LEMMA SetDirectoryKeeps ==
  ASSUME PInv, SetDirectory
  PROVE  PInv'
<1>1. /\ pc = "kfree" /\ pc' = "ready" /\ current_directory' = Kernel
      /\ handles' = [handles EXCEPT ![Boot] = NoHandle]
      /\ UNCHANGED <<mem, cursor, code, stack, ring, running, cr3, new, job>>
  BY DEF SetDirectory, procVars, cpuVars
<1>2. pse' = pse /\ halted' = halted
  BY DEF SetDirectory, cpuVars
<1>3. Booting /\ ~Booting' /\ ~OnBootDirectory /\ ~OnBootDirectory'
  BY <1>1 DEF Booting, OnBootDirectory, MapsFor
<1>4. Low' = Low /\ High' = High
  BY <1>1 DEF Low, High, MapsFor
<1>5. cursor' \in Nat /\ cursor' >= cursor
  BY <1>1, Held
<1>6. \A p \in Pids : handles'[p] = handles[p]
  BY <1>1, Held, Indices
<1>7. KernelInv' /\ ProcessInv' /\ OrderInv' /\ LoadInv'
  BY <1>1, <1>3, <1>4, <1>5, <1>6, NoneBuilt, Steady, LoadKept
<1>8. TypeOK'
  <2>1. pse' \in BOOLEAN /\ halted' \in BOOLEAN
    BY <1>2 DEF PInv, TypeOK
  <2>2. handles' \in [Handles -> Handle]
    <3>1. NoHandle \in Handle
      BY Indices DEF NoHandle, Handle, Pages
    <3> QED
      BY <1>1, <3>1, Held
  <2> QED
    BY <1>1, <2>1, <2>2, Indices DEF PInv, TypeOK, Handle
<1>9. MoreTypes' /\ JobInv'
  BY <1>1 DEF PInv, MoreTypes, JobInv, MapsFor
<1>10. CursorInv'
  BY <1>1, <1>3 DEF PInv, CursorInv, MapsFor
<1>11. CpuInv'
  <2>1. pse' <=> OnBootDirectory' \/ pc' = "pse"
    BY <1>1, <1>2, <1>3 DEF PInv, CpuInv
  <2>2. running \in Pids
    BY RunningBuilt
  <2> QED
    BY <1>1, <1>3, <1>6, <2>1, <2>2 DEF PInv, CpuInv, MapsFor
<1> QED
  BY <1>7, <1>8, <1>9, <1>10, <1>11 DEF PInv

(* Before CR3 is loaded paging_init is at work; afterwards a loop that     *)
(* maps pages does it for a process.                                       *)
LEMMA Started ==
  ASSUME PInv
  PROVE  /\ OnBootDirectory => Booting
         /\ pc = "map" /\ ~OnBootDirectory => MapsFor("map_stack") \/ MapsFor("task_new")
         /\ MapsFor("map_stack") \/ MapsFor("task_new") => ~Booting
         /\ pc \in {"ready", "clone", "map_code", "map_stack", "task_new"}
              => ~Booting /\ ~OnBootDirectory
<1>1. OnBootDirectory => Booting
  BY DEF PInv, JobInv, OnBootDirectory, Booting, MapsFor
<1>2. pc = "map" /\ ~OnBootDirectory => MapsFor("map_stack") \/ MapsFor("task_new")
  BY DEF PInv, JobInv, MoreTypes, OnBootDirectory, MapsFor
<1>3. MapsFor("map_stack") \/ MapsFor("task_new") => ~Booting
  BY DEF PInv, JobInv, CpuInv, Booting, MapsFor
<1> QED
  BY <1>1, <1>2, <1>3 DEF Booting, OnBootDirectory, MapsFor

LEMMA ScheduleKeeps ==
  ASSUME PInv, NEW p \in Pids, schedule(p)
  PROVE  PInv'
<1>1. /\ ~Booting /\ p \in ring /\ running' = p
      /\ cr3' = DirectoryEntry(handles[p], Last).frame
      /\ UNCHANGED <<mem, handles, cursor, current_directory, code, stack, ring, pc, new, job>>
  BY DEF schedule, tableVars, bootVars, procVars
<1>2. pse' = pse /\ halted' = halted
  BY DEF schedule, bootVars
<1>3. ~Booting' /\ ~OnBootDirectory /\ ~OnBootDirectory' /\ pc # "boot"
  BY <1>1, Started DEF Booting, OnBootDirectory, MapsFor
<1>4. cr3' = Dir(handles[p])
  <2>1. p # Kernel => Built(p)
    <3>1. p = Kernel \/ p < new \/ (p = new /\ pc = "ready")
      BY <1>1 DEF PInv, CpuInv
    <3>2. new \in Nat /\ p \in Nat
      BY Indices DEF PInv, TypeOK
    <3> QED
      BY <3>1, <3>2 DEF Built
  <2> QED
    BY <1>1, <1>3, <2>1, OwnEntry, SharedTables
<1>5. KernelInv' /\ ProcessInv' /\ OrderInv' /\ LoadInv'
  <2>1. KernelInv' /\ LoadInv'
    BY <1>1 DEF PInv, KernelInv, LoadInv, Low, High, MapsFor
  <2>2. ProcessInv' /\ OrderInv'
    BY <1>1 DEF PInv, ProcessInv, OrderInv, Built, Coded, Stacked, MapsFor
  <2> QED
    BY <2>1, <2>2
<1>6. TypeOK'
  <2>1. pse' \in BOOLEAN /\ halted' \in BOOLEAN
    BY <1>2 DEF PInv, TypeOK
  <2>2. cr3' \in Frames
    BY <1>4, Held, Indices
  <2> QED
    BY <1>1, <2>1, <2>2 DEF PInv, TypeOK
<1>7. MoreTypes' /\ JobInv'
  BY <1>1 DEF PInv, MoreTypes, JobInv, MapsFor
<1>8. CursorInv'
  BY <1>1, <1>3 DEF PInv, CursorInv, MapsFor, Low, High
<1>9. CpuInv'
  <2>1. pse' <=> OnBootDirectory' \/ pc' = "pse"
    BY <1>1, <1>2, <1>3 DEF PInv, CpuInv
  <2> QED
    BY <1>1, <1>3, <1>4, <2>1 DEF PInv, CpuInv, MapsFor
<1> QED
  BY <1>5, <1>6, <1>7, <1>8, <1>9 DEF PInv

(* The page fault handler, and no step at all. *)
LEMMA HaltKeeps ==
  ASSUME PInv, halted' \in BOOLEAN,
         UNCHANGED <<tableVars, bootVars, procVars, cr3, pc, new, job, running>>
  PROVE  PInv'
<1>1. UNCHANGED <<mem, handles, cursor, current_directory, code, stack, ring, running, cr3,
                  pc, new, job>>
  BY DEF tableVars, bootVars, procVars
<1>2. pse' = pse
  BY DEF bootVars
<1>3. KernelInv' /\ LoadInv' /\ CursorInv'
  BY <1>1 DEF PInv, KernelInv, LoadInv, Low, High, MapsFor, CursorInv, OnBootDirectory
<1>4. ProcessInv' /\ OrderInv'
  BY <1>1 DEF PInv, ProcessInv, OrderInv, Built, Coded, Stacked, MapsFor
<1>5. TypeOK'
  <2>1. pse' \in BOOLEAN
    BY <1>2 DEF PInv, TypeOK
  <2> QED
    BY <1>1, <2>1 DEF PInv, TypeOK
<1>6. MoreTypes' /\ JobInv'
  BY <1>1 DEF PInv, MoreTypes, JobInv, MapsFor
<1>7. CpuInv'
  <2>1. (Booting <=> Booting') /\ (OnBootDirectory <=> OnBootDirectory')
    BY <1>1 DEF Booting, OnBootDirectory, MapsFor
  <2>2. pse' <=> OnBootDirectory' \/ pc' = "pse"
    BY <1>1, <1>2, <2>1 DEF PInv, CpuInv
  <2> QED
    BY <1>1, <2>1, <2>2 DEF PInv, CpuInv, MapsFor
<1> QED
  BY <1>3, <1>4, <1>5, <1>6, <1>7 DEF PInv

LEMMA ProcessLoadKeeps ==
  ASSUME PInv, NEW p \in Pids, NEW n \in CodeSizes, process_load(p, n)
  PROVE  PInv'
<1>1. /\ pc = "ready" /\ pc' = "clone" /\ p = new + 1 /\ new' = p
      /\ Touchable(n + 2) /\ cursor' = cursor + (n + 2)
      /\ code' = [code EXCEPT ![p] = [begin |-> cursor, len |-> n]]
      /\ stack' = [stack EXCEPT ![p] = cursor + n + 1]
      /\ UNCHANGED <<mem, handles, current_directory, ring, running, cr3, job>>
  BY DEF process_load, kzalloc, bootVars, cpuVars
<1>2. pse' = pse /\ halted' = halted
  BY DEF process_load, bootVars, cpuVars
<1>3. ~Booting /\ ~Booting' /\ ~OnBootDirectory /\ ~OnBootDirectory'
  BY <1>1, Started DEF Booting, OnBootDirectory, MapsFor
<1>4. n \in Nat /\ n > 0 /\ cursor \in Nat /\ new \in Nat /\ new \in Pids
  BY PagingAssumption, Held, Indices DEF PInv, TypeOK
<1>5. cursor + (n + 2) <= Entries
  BY <1>1, <1>4, Within
<1>6. cursor \in Frames /\ cursor + n + 1 \in Frames /\ cursor' \in HeapFrame..Entries
      /\ cursor' \in Nat /\ cursor' > cursor
  BY <1>1, <1>4, <1>5, Held, Indices, Numbers
<1>7. /\ code'[p] = [begin |-> cursor, len |-> n] /\ stack'[p] = cursor + n + 1
      /\ \A q \in Pids \ {p} : code'[q] = code[q] /\ stack'[q] = stack[q]
  BY <1>1 DEF PInv, MoreTypes
<1>8. \A q \in Pids : q # p =>
        /\ q <= new' <=> q <= new
        /\ q # new'
  BY <1>1, <1>4, Indices
<1>9. Low' = Low /\ High' = High
  BY <1>1 DEF Low, High, MapsFor
<1>10. \A q \in Pids : Built(q)' <=> Built(q)
  <2> SUFFICES ASSUME NEW q \in Pids PROVE Built(q)' <=> Built(q)
    OBVIOUS
  <2>1. CASE q = p
    BY <1>1, <1>4, <2>1 DEF Built
  <2>2. CASE q # p
    BY <1>1, <1>8, <2>2 DEF Built
  <2> QED
    BY <2>1, <2>2
<1>11. \A q \in Pids : Built(q) => q # p
  BY <1>1, <1>4 DEF Built
<1>12. \A q \in Pids : Built(q) => Coded(q)' = Coded(q) /\ Stacked(q)' = Stacked(q)
  BY <1>1, <1>7, <1>8, <1>11 DEF Coded, Stacked, MapsFor
<1>13. KernelInv' /\ ProcessInv' /\ OrderInv'
  <2>1. cursor' \in Nat /\ cursor' >= cursor
    BY <1>4, <1>6
  <2>2. \A q \in Pids :
          /\ Built(q)' <=> Built(q)
          /\ Built(q) => /\ Coded(q)' = Coded(q) /\ Stacked(q)' = Stacked(q)
                         /\ code'[q].begin = code[q].begin /\ stack'[q] = stack[q]
    BY <1>7, <1>10, <1>11, <1>12
  <2> QED
    BY <1>1, <1>9, <2>1, <2>2, Steady
<1>14. LoadInv'
  <2> SUFFICES ASSUME NEW q \in Pids, q # Kernel, q <= new'
               PROVE  /\ code'[q].len > 0 /\ code'[q].begin + code'[q].len <= stack'[q]
                      /\ stack'[q] < cursor'
    BY DEF LoadInv
  <2>1. CASE q = p
    BY <1>1, <1>4, <1>7, <2>1
  <2>2. CASE q # p
    <3>1. /\ code[q].len > 0 /\ code[q].begin + code[q].len <= stack[q]
          /\ stack[q] < cursor
      BY <1>8, <2>2 DEF PInv, LoadInv
    <3>2. stack[q] \in Nat
      BY Indices DEF PInv, MoreTypes
    <3>3. code'[q] = code[q] /\ stack'[q] = stack[q]
      BY <1>7, <2>2
    <3>4. stack[q] < cursor'
      BY <1>4, <1>6, <3>1, <3>2
    <3> QED
      BY <3>1, <3>3, <3>4
  <2> QED
    BY <2>1, <2>2
<1>15. MoreTypes'
  BY <1>1, <1>4, <1>6 DEF PInv, MoreTypes
<1>16. TypeOK'
  <2>1. pse' \in BOOLEAN /\ halted' \in BOOLEAN
    BY <1>2 DEF PInv, TypeOK
  <2>2. \A q \in Pids : code'[q].begin \in Frames /\ stack'[q] \in Frames
    BY <1>15 DEF MoreTypes
  <2> QED
    BY <1>1, <1>6, <2>1, <2>2 DEF PInv, TypeOK
<1>17. JobInv'
  BY <1>1 DEF JobInv, MapsFor
<1>18. CursorInv'
  <2>1. cursor' > KH
    BY <1>3, <1>6, Held, Numbers DEF PInv, CursorInv
  <2> QED
    BY <1>1, <2>1 DEF CursorInv, MapsFor
<1>19. CpuInv'
  <2>1. pse' <=> OnBootDirectory' \/ pc' = "pse"
    BY <1>1, <1>2, <1>3 DEF PInv, CpuInv
  <2>2. \A q \in ring : q = Kernel \/ q < new'
    <3> SUFFICES ASSUME NEW q \in ring, q # Kernel PROVE q < new'
      OBVIOUS
    <3>1. q < new \/ q = new
      BY DEF PInv, CpuInv
    <3>2. q \in Nat
      BY Indices DEF PInv, TypeOK
    <3> QED
      BY <1>1, <1>4, <3>1, <3>2
  <2>3. new' # Kernel
    BY <1>1, <1>4, Indices
  <2> QED
    BY <1>1, <1>3, <2>1, <2>2, <2>3 DEF PInv, CpuInv, MapsFor
<1> QED
  BY <1>13, <1>14, <1>15, <1>16, <1>17, <1>18, <1>19 DEF PInv

(* The process that is being built. *)
LEMMA NewLoaded ==
  ASSUME PInv, new # Kernel
  PROVE  /\ new \in Pids /\ code[new].begin \in Frames /\ code[new].begin \in Nat
         /\ code[new].len \in Nat /\ stack[new] \in Frames /\ stack[new] \in Nat
         /\ code[new].len > 0 /\ code[new].begin + code[new].len <= stack[new]
         /\ stack[new] < cursor /\ stack[new] < Entries
<1>1. new \in Pids /\ new <= new
  BY Indices DEF PInv, TypeOK
<1>2. /\ code[new].begin \in Frames /\ code[new].len \in Nat /\ stack[new] \in Frames
  BY <1>1 DEF PInv, MoreTypes
<1>3. /\ code[new].len > 0 /\ code[new].begin + code[new].len <= stack[new]
      /\ stack[new] < cursor
  BY <1>1 DEF PInv, LoadInv
<1>4. code[new].begin \in Nat /\ stack[new] \in Nat /\ stack[new] < Entries
  BY <1>2, Indices, Numbers
<1> QED
  BY <1>1, <1>2, <1>3, <1>4

(* A step of the system task that writes no table, in process_load and     *)
(* what it calls.                                                          *)
LEMMA SystemStep ==
  ASSUME PInv, ~Booting, ~Booting', ~OnBootDirectory, ~OnBootDirectory',
         pc' \in {"ready", "map", "map_stack", "task_new"},
         UNCHANGED <<mem, handles, current_directory, code, stack, running, cr3, new>>,
         pse' = pse, halted' = halted,
         cursor' \in Nat, cursor' >= cursor, cursor' <= Entries,
         pc # "clone", new # Kernel,
         Coded(new)' = Coded(new), Stacked(new)' = Stacked(new),
         MoreTypes', JobInv',
         ring' \subseteq Pids, running' \in ring',
         \A p \in ring' : p = Kernel \/ p < new \/ (p = new /\ pc' = "ready")
  PROVE  PInv'
<1>1. pc # "pse" /\ pc' # "pse" /\ pc # "boot" /\ pc' # "boot"
  BY DEF Booting
<1>2. Low' = Low /\ High' = High
  BY DEF Low, High, OnBootDirectory, MapsFor
<1>3. \A p \in Pids : Built(p)' <=> Built(p)
  BY <1>1 DEF Built
<1>4. \A p \in Pids : Coded(p)' = Coded(p) /\ Stacked(p)' = Stacked(p)
  <2> SUFFICES ASSUME NEW p \in Pids
               PROVE  Coded(p)' = Coded(p) /\ Stacked(p)' = Stacked(p)
    OBVIOUS
  <2>1. CASE p = new
    BY <2>1
  <2>2. CASE p # new
    BY <2>2 DEF Coded, Stacked
  <2> QED
    BY <2>1, <2>2
<1>5. KernelInv' /\ ProcessInv' /\ OrderInv'
  BY <1>1, <1>2, <1>3, <1>4, Steady
<1>6. LoadInv'
  BY LoadKept
<1>7. TypeOK'
  <2>1. pse' \in BOOLEAN /\ halted' \in BOOLEAN
    BY DEF PInv, TypeOK
  <2>2. cursor' \in HeapFrame..Entries
    BY Held, Numbers
  <2>3. job'.handle \in Pids /\ job'.virt \in Pages /\ job'.phys \in 0..Entries
        /\ job'.end \in 0..Entries
    BY DEF MoreTypes
  <2> QED
    BY <2>1, <2>2, <2>3 DEF PInv, TypeOK
<1>8. CursorInv'
  <2>1. cursor' > KH
    BY Held, Numbers DEF PInv, CursorInv
  <2> QED
    BY <1>1, <2>1 DEF CursorInv, OnBootDirectory
<1>9. CpuInv'
  <2>1. pse' <=> OnBootDirectory' \/ pc' = "pse"
    BY <1>1 DEF PInv, CpuInv
  <2> QED
    BY <1>1, <2>1 DEF PInv, CpuInv
<1> QED
  BY <1>5, <1>6, <1>7, <1>8, <1>9 DEF PInv

LEMMA MapCodeKeeps ==
  ASSUME PInv, MapCode
  PROVE  PInv'
<1> DEFINE b == code[new].begin
           n == code[new].len
<1>1. /\ pc = "map_code" /\ pc' = "map"
      /\ UNCHANGED <<mem, handles, cursor, current_directory, code, stack, ring, running,
                     cr3, new>>
  BY DEF MapCode, paging_map_from_to, tableVars, bootVars, procVars, cpuVars
<1>2. pse' = pse /\ halted' = halted
  BY DEF MapCode, bootVars, cpuVars
<1>3. new # Kernel
  BY <1>1 DEF PInv, CpuInv
<1>4. b \in Frames /\ b \in Nat /\ n \in Nat /\ b + n <= Entries /\ new \in Pids
  BY <1>3, NewLoaded, Numbers
<1>5. job' = [handle |-> new, virt |-> <<CodeIndex, 0>>, phys |-> b, end |-> b + n,
              flags |-> UserFlags, then |-> "map_stack"]
  <2>1. virtual_to_physical_addr(handles[current_directory], KernelPage(b)) = b
    BY <1>1, <1>4, Translated
  <2> QED
    BY <2>1 DEF MapCode, paging_map_from_to, ProgramBase
<1>6. ~Booting /\ ~Booting' /\ ~OnBootDirectory /\ ~OnBootDirectory'
  BY <1>1, <1>3, <1>5, Started DEF Booting, OnBootDirectory, MapsFor
<1>7. Coded(new)' = Coded(new) /\ Stacked(new)' = Stacked(new)
  <2>1. b - b = 0
    BY <1>4
  <2> QED
    BY <1>1, <1>5, <2>1 DEF Coded, Stacked, MapsFor
<1>8. MoreTypes'
  <2>1. <<CodeIndex, 0>> \in Pages /\ b \in 0..Entries /\ b + n \in 0..Entries
    BY <1>4, Indices, Numbers DEF Pages
  <2> QED
    BY <1>1, <1>4, <1>5, <2>1 DEF PInv, MoreTypes
<1>9. JobInv'
  <2>1. b <= b /\ b <= b + n /\ b - b = 0
    BY <1>4
  <2> QED
    BY <1>1, <1>5, <2>1 DEF JobInv, MapsFor
<1>10. ring' \subseteq Pids /\ running' \in ring'
       /\ \A p \in ring' : p = Kernel \/ p < new \/ (p = new /\ pc' = "ready")
  BY <1>1 DEF PInv, TypeOK, CpuInv
<1> QED
  BY <1>1, <1>2, <1>3, <1>6, <1>7, <1>8, <1>9, <1>10, Held, SystemStep

LEMMA MapStackKeeps ==
  ASSUME PInv, MapStack
  PROVE  PInv'
<1> DEFINE b == stack[new]
<1>1. /\ pc = "map_stack" /\ pc' = "map"
      /\ UNCHANGED <<mem, handles, cursor, current_directory, code, stack, ring, running,
                     cr3, new>>
  BY DEF MapStack, paging_map_from_to, tableVars, bootVars, procVars, cpuVars
<1>2. pse' = pse /\ halted' = halted
  BY DEF MapStack, bootVars, cpuVars
<1>3. new # Kernel
  BY <1>1 DEF PInv, CpuInv
<1>4. b \in Frames /\ b \in Nat /\ b + 1 <= Entries /\ new \in Pids
  BY <1>3, NewLoaded, Numbers
<1>5. job' = [handle |-> new, virt |-> <<StackIndex, 0>>, phys |-> b, end |-> b + 1,
              flags |-> UserFlags, then |-> "task_new"]
  <2>1. virtual_to_physical_addr(handles[current_directory], KernelPage(b)) = b
    BY <1>1, <1>4, Translated
  <2> QED
    BY <2>1 DEF MapStack, StackPage, paging_map_from_to
<1>6. ~Booting /\ ~Booting' /\ ~OnBootDirectory /\ ~OnBootDirectory'
  BY <1>1, <1>3, <1>5, Started DEF Booting, OnBootDirectory, MapsFor
<1>7. Coded(new)' = Coded(new) /\ Stacked(new)' = Stacked(new)
  <2>1. b - b = 0
    BY <1>4
  <2> QED
    BY <1>1, <1>5, <2>1 DEF Coded, Stacked, MapsFor
<1>8. MoreTypes'
  <2>1. <<StackIndex, 0>> \in Pages /\ b \in 0..Entries /\ b + 1 \in 0..Entries
    BY <1>4, Indices, Numbers DEF Pages
  <2> QED
    BY <1>1, <1>4, <1>5, <2>1 DEF PInv, MoreTypes
<1>9. JobInv'
  <2>1. b <= b /\ b <= b + 1 /\ b - b = 0
    BY <1>4
  <2> QED
    BY <1>1, <1>5, <2>1 DEF JobInv, MapsFor
<1>10. ring' \subseteq Pids /\ running' \in ring'
       /\ \A p \in ring' : p = Kernel \/ p < new \/ (p = new /\ pc' = "ready")
  BY <1>1 DEF PInv, TypeOK, CpuInv
<1> QED
  BY <1>1, <1>2, <1>3, <1>6, <1>7, <1>8, <1>9, <1>10, Held, SystemStep

LEMMA TaskNewKeeps ==
  ASSUME PInv, task_new
  PROVE  PInv'
<1>1. /\ pc = "task_new" /\ pc' = "ready" /\ Touchable(TaskBlocks) /\ cursor' = cursor + TaskBlocks
      /\ ring' = ring \cup {new}
      /\ UNCHANGED <<mem, handles, current_directory, code, stack, running, cr3, new, job>>
  BY DEF task_new, kzalloc, bootVars, cpuVars
<1>2. pse' = pse /\ halted' = halted
  BY DEF task_new, bootVars, cpuVars
<1>3. new # Kernel
  BY <1>1 DEF PInv, CpuInv
<1>4. cursor' \in Nat /\ cursor' >= cursor /\ cursor' <= Entries
  BY <1>1, Held, Within DEF TaskBlocks
<1>5. ~Booting /\ ~Booting' /\ ~OnBootDirectory /\ ~OnBootDirectory'
  BY <1>1, Started DEF Booting, OnBootDirectory, MapsFor
<1>6. Coded(new)' = Coded(new) /\ Stacked(new)' = Stacked(new)
  BY <1>1 DEF Coded, Stacked, MapsFor
<1>7. MoreTypes' /\ JobInv'
  BY <1>1 DEF PInv, MoreTypes, JobInv, MapsFor
<1>8. ring' \subseteq Pids /\ running' \in ring'
      /\ \A p \in ring' : p = Kernel \/ p < new \/ (p = new /\ pc' = "ready")
  BY <1>1 DEF PInv, TypeOK, CpuInv
<1> QED
  BY <1>1, <1>2, <1>3, <1>4, <1>5, <1>6, <1>7, <1>8, SystemStep

LEMMA MapDoneKeeps ==
  ASSUME PInv, MapDone
  PROVE  PInv'
<1>1. /\ pc = "map" /\ pc' = job.then /\ job.phys = job.end
      /\ UNCHANGED <<mem, handles, cursor, current_directory, code, stack, ring, running,
                     cr3, new, job>>
  BY DEF MapDone, tableVars, bootVars, procVars, cpuVars
<1>2. pse' = pse /\ halted' = halted
  BY DEF MapDone, bootVars, cpuVars
<1>3. pc' \in {"high", "cr3", "map_stack", "task_new"}
  BY <1>1 DEF PInv, MoreTypes, JobInv
<1>4. MoreTypes' /\ JobInv'
  BY <1>1, <1>3 DEF PInv, MoreTypes, JobInv, MapsFor
<1>5. CASE OnBootDirectory
  <2>1. pc' \in {"high", "cr3"} /\ job.phys = Entries
    BY <1>1, <1>5 DEF OnBootDirectory, MapsFor, PInv, JobInv
  <2>2. Booting /\ Booting' /\ OnBootDirectory'
    BY <1>5, <2>1, Started DEF Booting, OnBootDirectory
  <2>3. Low' = Low /\ High' = High
    BY <1>1, <2>1 DEF Low, High, MapsFor
  <2>4. cursor' \in Nat /\ cursor' >= cursor
    BY <1>1, Held
  <2>5. KernelInv' /\ ProcessInv' /\ OrderInv' /\ LoadInv'
    BY <1>1, <2>1, <2>2, <2>3, <2>4, NoneBuilt, Steady, LoadKept
  <2>6. TypeOK'
    <3>1. pse' \in BOOLEAN /\ halted' \in BOOLEAN
      BY <1>2 DEF PInv, TypeOK
    <3> QED
      BY <1>1, <2>1, <3>1 DEF PInv, TypeOK
  <2>7. CursorInv'
    <3>1. CASE pc' = "high"
      <4>1. MapsFor("high") /\ Low = Entries /\ Low # 0
        BY <1>1, <2>1, <3>1, Numbers DEF MapsFor, Low
      <4>2. cursor = KH
        BY <4>1 DEF PInv, CursorInv
      <4> QED
        BY <1>1, <2>2, <3>1, <4>2 DEF CursorInv, MapsFor
    <3>2. CASE pc' = "cr3"
      <4>1. MapsFor("cr3") /\ High = Entries /\ High # 0
        BY <1>1, <2>1, <3>2, Numbers DEF MapsFor, High
      <4>2. cursor = KH + 1
        BY <4>1 DEF PInv, CursorInv
      <4>3. cursor > KH
        BY <4>2, Numbers
      <4> QED
        BY <1>1, <2>2, <3>2, <4>3 DEF CursorInv, MapsFor
    <3> QED
      BY <2>1, <3>1, <3>2
  <2>8. CpuInv'
    <3>1. pse' <=> OnBootDirectory' \/ pc' = "pse"
      BY <1>2, <1>5, <2>2 DEF PInv, CpuInv
    <3> QED
      BY <1>1, <1>5, <2>1, <2>2, <3>1 DEF PInv, CpuInv, MapsFor
  <2> QED
    BY <1>4, <2>5, <2>6, <2>7, <2>8 DEF PInv
<1>6. CASE ~OnBootDirectory
  <2>1. MapsFor("map_stack") \/ MapsFor("task_new")
    BY <1>1, <1>6, Started
  <2>2. pc' \in {"map_stack", "task_new"} /\ new # Kernel
    BY <1>1, <2>1 DEF MapsFor, PInv, CpuInv
  <2>3. ~Booting /\ ~Booting' /\ ~OnBootDirectory'
    BY <1>1, <2>1, <2>2, Started DEF Booting, OnBootDirectory, MapsFor
  <2>4. Coded(new)' = Coded(new) /\ Stacked(new)' = Stacked(new)
    <3>1. CASE MapsFor("map_stack")
      <4>1. job.phys = code[new].begin + code[new].len
        BY <1>1, <3>1 DEF PInv, JobInv
      <4>2. job.phys - code[new].begin = code[new].len
        BY <2>2, <4>1, NewLoaded
      <4> QED
        BY <1>1, <3>1, <4>2 DEF Coded, Stacked, MapsFor
    <3>2. CASE MapsFor("task_new")
      <4>1. job.phys = stack[new] + 1
        BY <1>1, <3>2 DEF PInv, JobInv
      <4>2. job.phys - stack[new] = 1
        BY <2>2, <4>1, NewLoaded
      <4> QED
        BY <1>1, <3>2, <4>2 DEF Coded, Stacked, MapsFor
    <3> QED
      BY <2>1, <3>1, <3>2
  <2>5. ring' \subseteq Pids /\ running' \in ring'
        /\ \A p \in ring' : p = Kernel \/ p < new \/ (p = new /\ pc' = "ready")
    BY <1>1 DEF PInv, TypeOK, CpuInv
  <2> QED
    BY <1>1, <1>2, <1>4, <1>6, <2>2, <2>3, <2>4, <2>5, Held, SystemStep
<1> QED
  BY <1>5, <1>6
-----------------------------------------------------------------------------
(* The loop of paging_map_range (paging.c:155-164). *)

LEMMA NextIn ==
  ASSUME NEW v \in Pages
  PROVE  /\ NextPage(v) \in Pages
         /\ v[2] < Last => NextPage(v) = <<v[1], v[2] + 1>>
<1>1. v[1] \in 0..Last /\ v[2] \in 0..Last
  BY Indices DEF Pages
<1>2. v[2] < Last => v[2] + 1 \in 0..Last
  BY <1>1, Numbers
<1>3. v[1] < Last => v[1] + 1 \in 0..Last
  BY <1>1, Numbers
<1> QED
  BY <1>1, <1>2, <1>3, Indices DEF NextPage, Pages

(* The next page, and how much has been mapped. *)
LEMMA Advanced ==
  ASSUME PInv, Mapping, MapAdvance
  PROVE  /\ MoreTypes' /\ JobInv'
         /\ job'.phys = job.phys + 1 /\ job'.handle = job.handle /\ job'.then = job.then
         /\ job.phys \in Nat /\ job.phys < job.end /\ job.end <= Entries /\ job.phys \in Frames
         /\ pc = "map" /\ pc' = "map" /\ running = Kernel
         /\ UNCHANGED <<current_directory, code, stack, ring, running, cr3, new>>
<1>1. /\ job' = [job EXCEPT !.virt = NextPage(job.virt), !.phys = job.phys + 1]
      /\ UNCHANGED <<current_directory, code, stack, ring, running, cr3, pc, new>>
  BY DEF MapAdvance, bootVars, procVars, cpuVars
<1>2. pc = "map" /\ job.phys < job.end /\ running = Kernel
  BY DEF Mapping, SystemRuns
<1>3. job \in [handle : Pids, virt : Pages, phys : 0..Entries, end : 0..Entries,
               flags : SUBSET UserFlags, then : {"boot", "high", "cr3", "map_stack", "task_new"}]
  BY DEF PInv, MoreTypes
<1>4. /\ job'.virt = NextPage(job.virt) /\ job'.phys = job.phys + 1
      /\ job'.handle = job.handle /\ job'.end = job.end /\ job'.flags = job.flags
      /\ job'.then = job.then
  BY <1>1, <1>3
<1>5. job.phys \in Nat /\ job.end \in Nat /\ job.end <= Entries /\ job.phys + 1 \in 0..Entries
      /\ job.phys \in Frames /\ job.phys <= Last
  BY <1>2, <1>3, Numbers, Indices
<1>6. NextPage(job.virt) \in Pages
  BY <1>3, NextIn
<1>7. MoreTypes'
  BY <1>1, <1>3, <1>5, <1>6 DEF PInv, MoreTypes
<1>8. JobInv'
  <2>1. CASE MapsFor("high")
    <3>1. job.handle = Kernel /\ job.flags = KernelFlags /\ job.end = Entries
          /\ job.virt = <<0, job.phys>>
      BY <1>2, <2>1 DEF PInv, JobInv
    <3>2. job.phys + 1 < Entries => job.phys < Last
      BY <1>5, Numbers
    <3>3. job.phys + 1 < Entries => NextPage(job.virt) = <<0, job.phys + 1>>
      BY <1>3, <3>1, <3>2, NextIn
    <3> QED
      BY <1>1, <1>2, <1>4, <2>1, <3>1, <3>3 DEF JobInv, MapsFor
  <2>2. CASE MapsFor("cr3")
    <3>1. job.handle = Kernel /\ job.flags = KernelFlags /\ job.end = Entries
          /\ job.virt = <<KernelIndex, job.phys>>
      BY <1>2, <2>2 DEF PInv, JobInv
    <3>2. job.phys + 1 < Entries => job.phys < Last
      BY <1>5, Numbers
    <3>3. job.phys + 1 < Entries => NextPage(job.virt) = <<KernelIndex, job.phys + 1>>
      BY <1>3, <3>1, <3>2, NextIn
    <3> QED
      BY <1>1, <1>2, <1>4, <2>2, <3>1, <3>3 DEF JobInv, MapsFor
  <2>3. CASE MapsFor("map_stack")
    <3> DEFINE b == code[new].begin
    <3>1. /\ job.handle = new /\ job.flags = UserFlags /\ b <= job.phys
          /\ job.end = b + code[new].len /\ job.virt = <<CodeIndex, job.phys - b>>
      BY <2>3 DEF PInv, JobInv
    <3>2. new # Kernel
      BY <2>3 DEF PInv, CpuInv
    <3>3. b \in Nat /\ job.phys - b < Last /\ (job.phys - b) + 1 = (job.phys + 1) - b
          /\ b <= job.phys + 1 /\ job.phys + 1 <= job.end
      BY <1>2, <1>5, <3>1, <3>2, NewLoaded, Numbers
    <3>4. NextPage(job.virt) = <<CodeIndex, (job.phys + 1) - b>>
      BY <1>3, <3>1, <3>3, NextIn
    <3> QED
      BY <1>1, <1>2, <1>4, <2>3, <3>1, <3>3, <3>4 DEF JobInv, MapsFor
  <2>4. CASE MapsFor("task_new")
    <3> DEFINE b == stack[new]
    <3>1. /\ job.handle = new /\ job.flags = UserFlags /\ b <= job.phys
          /\ job.end = b + 1 /\ job.virt = <<StackIndex, job.phys - b>>
      BY <2>4 DEF PInv, JobInv
    <3>2. new # Kernel
      BY <2>4 DEF PInv, CpuInv
    <3>3. b \in Nat /\ job.phys - b < Last /\ (job.phys - b) + 1 = (job.phys + 1) - b
          /\ b <= job.phys + 1 /\ job.phys + 1 <= job.end
      BY <1>2, <1>5, <3>1, <3>2, NewLoaded, Numbers
    <3>4. NextPage(job.virt) = <<StackIndex, (job.phys + 1) - b>>
      BY <1>3, <3>1, <3>3, NextIn
    <3> QED
      BY <1>1, <1>2, <1>4, <2>4, <3>1, <3>3, <3>4 DEF JobInv, MapsFor
  <2> QED
    BY <1>2, <1>3, <2>1, <2>2, <2>3, <2>4 DEF MapsFor, PInv, JobInv
<1> QED
  BY <1>1, <1>2, <1>4, <1>5, <1>7, <1>8

(* A page of the kernel's directory. *)
LEMMA KernelPageMapped ==
  ASSUME PInv, Mapping, MapAdvance, OnBootDirectory,
         mem' \in Memory, handles' \in [Handles -> Handle],
         \A p \in Handles \ {Kernel} : handles'[p] = handles[p],
         mem'[BootFrame] = mem[BootFrame],
         cursor' \in Nat, cursor' >= cursor, cursor' <= Entries,
         job.then = "high" => cursor' = KH, job.then = "cr3" => cursor' = KH + 1,
         KernelShape(mem', handles'[Kernel], Low', High')
  PROVE  PInv'
<1>1. /\ MoreTypes' /\ JobInv' /\ job'.phys = job.phys + 1
      /\ job'.handle = job.handle /\ job'.then = job.then /\ job.phys \in Nat
      /\ pc = "map" /\ pc' = "map"
      /\ UNCHANGED <<current_directory, code, stack, ring, running, cr3, new>>
  BY Advanced
<1>2. pse' = pse /\ halted' = halted
  BY DEF MapAdvance, bootVars, cpuVars
<1>3. Booting /\ Booting' /\ OnBootDirectory'
  BY <1>1, Started DEF OnBootDirectory, Booting, MapsFor
<1>4. KernelInv'
  BY <1>1 DEF KernelInv
<1>5. \A p \in Pids : p # Kernel => handles'[p] = handles[p]
  BY Indices
<1>6. ProcessInv' /\ OrderInv' /\ LoadInv'
  BY <1>1, <1>3, <1>5, NoneBuilt, LoadKept DEF PInv, ProcessInv, OrderInv
<1>7. TypeOK'
  <2>1. pse' \in BOOLEAN /\ halted' \in BOOLEAN
    BY <1>2 DEF PInv, TypeOK
  <2>2. cursor' \in HeapFrame..Entries
    BY Held, Numbers
  <2>3. job'.handle \in Pids /\ job'.virt \in Pages /\ job'.phys \in 0..Entries
        /\ job'.end \in 0..Entries
    BY <1>1 DEF MoreTypes
  <2> QED
    BY <1>1, <2>1, <2>2, <2>3 DEF PInv, TypeOK, Memory, Handle
<1>8. CursorInv'
  <2>1. MapsFor("high") => Low' # 0
    BY <1>1 DEF Low, MapsFor
  <2>2. MapsFor("cr3") => High' # 0
    BY <1>1 DEF High, MapsFor
  <2>3. MapsFor("high") \/ MapsFor("cr3")
    BY <1>1 DEF OnBootDirectory
  <2> QED
    BY <1>1, <1>3, <2>1, <2>2, <2>3 DEF CursorInv, MapsFor
<1>9. CpuInv'
  <2>1. pse' <=> OnBootDirectory' \/ pc' = "pse"
    BY <1>2, <1>3 DEF PInv, CpuInv
  <2>2. handles'[Boot] = handles[Boot]
    BY Indices
  <2> QED
    BY <1>1, <1>3, <2>1, <2>2 DEF PInv, CpuInv, MapsFor
<1> QED
  BY <1>1, <1>4, <1>6, <1>7, <1>8, <1>9 DEF PInv

(* Writes at frame top and above disturb nothing that lies below. *)
LEMMA BelowStays ==
  ASSUME PInv, ~OnBootDirectory, NEW n, NEW top \in Nat, KH < top,
         \A f \in Frames : f < top => n[f] = mem[f]
  PROVE  /\ KernelShape(n, handles[Kernel], Low, High)
         /\ \A p \in Pids :
              Built(p) /\ ProcessOrder(handles[p], Coded(p), Stacked(p), top) =>
                ProcessShape(n, handles[p], Coded(p), code[p].begin, Stacked(p), stack[p])
<1>1. pc # "boot"
  BY DEF OnBootDirectory
<1>2. KD \in Frames /\ KL \in Frames /\ KH \in Frames
  BY SharedTables
<1>3. KernelShape(n, handles[Kernel], Low, High)
  <2>1. KernelShape(mem, handles[Kernel], Low, High)
    BY <1>1 DEF PInv, KernelInv
  <2>2. Dir(handles[Kernel]) = KD
    BY <1>2, <2>1, PageOf DEF KernelShape, Dir
  <2>3. KD < top /\ KL < top
    BY Numbers
  <2> QED
    BY <1>2, <2>1, <2>2, <2>3, KernelStays
<1>4. ASSUME NEW p \in Pids, Built(p), ProcessOrder(handles[p], Coded(p), Stacked(p), top)
      PROVE  ProcessShape(n, handles[p], Coded(p), code[p].begin, Stacked(p), stack[p])
  <2>1. ProcessShape(mem, handles[p], Coded(p), code[p].begin, Stacked(p), stack[p])
    BY <1>4 DEF PInv, ProcessInv
  <2>2. /\ Dir(handles[p]) \in Frames /\ Table(handles[p], CodeIndex) \in Frames
        /\ Table(handles[p], StackIndex) \in Frames
    BY Held, Indices
  <2>3. n[Dir(handles[p])] = mem[Dir(handles[p])]
    BY <1>4, <2>2 DEF ProcessOrder
  <2>4. Coded(p) > 0 => n[Table(handles[p], CodeIndex)] = mem[Table(handles[p], CodeIndex)]
    BY <1>4, <2>2 DEF ProcessOrder
  <2>5. Stacked(p) > 0 => n[Table(handles[p], StackIndex)] = mem[Table(handles[p], StackIndex)]
    BY <1>4, <2>2 DEF ProcessOrder
  <2> QED
    BY <2>1, <2>3, <2>4, <2>5, ProcessStays
<1> QED
  BY <1>3, <1>4

(* A process that is complete has a table for its code and one for its     *)
(* stack.                                                                  *)
LEMMA Complete ==
  ASSUME PInv, NEW p \in Pids, Built(p), p # new
  PROVE  Coded(p) = code[p].len /\ Coded(p) > 0 /\ Stacked(p) = 1
  BY DEF PInv, LoadInv, Built, Coded, Stacked

(* All frames of an older process lie below a younger one's directory. *)
LEMMA OlderBelow ==
  ASSUME PInv, Built(new), NEW p \in Pids, Built(p), p # new
  PROVE  ProcessOrder(handles[p], Coded(p), Stacked(p), Dir(handles[new]))
<1>1. Coded(p) > 0 /\ Stacked(p) > 0
  BY Complete
<1>2. ProcessOrder(handles[p], Coded(p), Stacked(p), cursor)
  BY DEF PInv, ProcessInv
<1>3. new \in Pids /\ p < new
  BY Indices DEF PInv, TypeOK, Built
<1>4. Table(handles[p], StackIndex) < Dir(handles[new])
  BY <1>3 DEF PInv, OrderInv
<1>5. /\ Dir(handles[p]) \in Nat /\ Table(handles[p], CodeIndex) \in Nat
      /\ Table(handles[p], StackIndex) \in Nat /\ Dir(handles[new]) \in Nat
  BY <1>3, Held, Indices
<1> QED
  BY <1>1, <1>2, <1>4, <1>5 DEF ProcessOrder

(* A page of a process's directory. *)
LEMMA ProcessPageMapped ==
  ASSUME PInv, Mapping, MapAdvance, ~OnBootDirectory,
         mem' \in Memory, handles' \in [Handles -> Handle],
         \A p \in Handles \ {new} : handles'[p] = handles[p],
         Dir(handles'[new]) = Dir(handles[new]),
         \A f \in Frames : f < Dir(handles[new]) => mem'[f] = mem[f],
         cursor' \in Nat, cursor' >= cursor, cursor' <= Entries,
         ProcessShape(mem', handles'[new], Coded(new)', code[new].begin, Stacked(new)', stack[new]),
         ProcessOrder(handles'[new], Coded(new)', Stacked(new)', cursor')
  PROVE  PInv'
<1>1. /\ MoreTypes' /\ JobInv' /\ job'.phys = job.phys + 1
      /\ job'.handle = job.handle /\ job'.then = job.then /\ job.phys \in Nat
      /\ pc = "map" /\ pc' = "map" /\ running = Kernel
      /\ UNCHANGED <<current_directory, code, stack, ring, running, cr3, new>>
  BY Advanced
<1>2. pse' = pse /\ halted' = halted
  BY DEF MapAdvance, bootVars, cpuVars
<1>3. MapsFor("map_stack") \/ MapsFor("task_new")
  BY <1>1, Started
<1>4. ~Booting /\ ~Booting' /\ ~OnBootDirectory' /\ new # Kernel
  <2>1. ~Booting /\ new # Kernel
    BY <1>3, Started DEF PInv, CpuInv
  <2> QED
    BY <1>1, <2>1 DEF OnBootDirectory, Booting, MapsFor
<1>5. new \in Pids /\ Built(new) /\ \A p \in Pids : Built(p)' <=> Built(p)
  BY <1>1, <1>4, Indices DEF PInv, TypeOK, Built
<1>6. \A p \in Pids : p # new => handles'[p] = handles[p]
  BY Indices
<1>7. KH < Dir(handles[new]) /\ Dir(handles[new]) \in Nat
  BY <1>5, Held, Indices DEF PInv, ProcessInv, ProcessOrder
<1>8. KernelInv'
  <2>1. Low' = Low /\ High' = High
    BY <1>1, <1>4 DEF Low, High, MapsFor, OnBootDirectory
  <2>2. handles'[Kernel] = handles[Kernel]
    BY <1>4, <1>6, Indices
  <2> QED
    BY <1>1, <1>7, <2>1, <2>2, BelowStays DEF KernelInv
<1>9. ProcessInv'
  <2> SUFFICES ASSUME NEW p \in Pids
               PROVE  /\ p # Kernel /\ ~Built(p)' => handles'[p] = NoHandle
                      /\ Built(p)' =>
                           /\ ProcessShape(mem', handles'[p], Coded(p)', code'[p].begin,
                                           Stacked(p)', stack'[p])
                           /\ ProcessOrder(handles'[p], Coded(p)', Stacked(p)', cursor')
    BY DEF ProcessInv
  <2>1. CASE p = new
    BY <1>1, <1>5, <2>1
  <2>2. CASE p # new /\ ~Built(p)
    BY <1>5, <1>6, <2>2 DEF PInv, ProcessInv
  <2>3. CASE p # new /\ Built(p)
    <3>1. Coded(p)' = Coded(p) /\ Stacked(p)' = Stacked(p)
      BY <1>1, <2>3 DEF Coded, Stacked
    <3>2. ProcessOrder(handles[p], Coded(p), Stacked(p), Dir(handles[new]))
      BY <1>5, <2>3, OlderBelow
    <3>3. ProcessShape(mem', handles[p], Coded(p), code[p].begin, Stacked(p), stack[p])
      BY <1>7, <2>3, <3>2, BelowStays
    <3>4. ProcessOrder(handles[p], Coded(p), Stacked(p), cursor')
      <4>1. ProcessOrder(handles[p], Coded(p), Stacked(p), cursor)
        BY <2>3 DEF PInv, ProcessInv
      <4>2. /\ Dir(handles[p]) \in Nat /\ Table(handles[p], CodeIndex) \in Nat
            /\ Table(handles[p], StackIndex) \in Nat /\ cursor \in Nat
        BY Held, Indices
      <4> QED
        BY <4>1, <4>2 DEF ProcessOrder
    <3> QED
      BY <1>1, <1>5, <1>6, <2>3, <3>1, <3>3, <3>4
  <2> QED
    BY <2>1, <2>2, <2>3
<1>10. OrderInv'
  <2> SUFFICES ASSUME NEW p \in Pids, NEW q \in Pids, Built(p)', Built(q)', p < q
               PROVE  Table(handles'[p], StackIndex) < Dir(handles'[q])
    BY DEF OrderInv
  <2>1. p # new
    BY <1>1, <1>5, Indices DEF Built
  <2>2. Table(handles[p], StackIndex) < Dir(handles[q])
    BY <1>5 DEF PInv, OrderInv
  <2>3. handles'[p] = handles[p] /\ Dir(handles'[q]) = Dir(handles[q])
    BY <1>6, <2>1
  <2> QED
    BY <2>2, <2>3
<1>11. LoadInv'
  BY <1>1, LoadKept
<1>12. TypeOK'
  <2>1. pse' \in BOOLEAN /\ halted' \in BOOLEAN
    BY <1>2 DEF PInv, TypeOK
  <2>2. cursor' \in HeapFrame..Entries
    BY Held, Numbers
  <2>3. job'.handle \in Pids /\ job'.virt \in Pages /\ job'.phys \in 0..Entries
        /\ job'.end \in 0..Entries
    BY <1>1 DEF MoreTypes
  <2> QED
    BY <1>1, <2>1, <2>2, <2>3 DEF PInv, TypeOK, Memory, Handle
<1>13. CursorInv'
  <2>1. cursor' > KH
    BY Held, Numbers DEF PInv, CursorInv
  <2> QED
    BY <1>1, <1>4, <2>1 DEF CursorInv, OnBootDirectory
<1>14. CpuInv'
  <2>1. pse' <=> OnBootDirectory' \/ pc' = "pse"
    BY <1>1, <1>2, <1>4 DEF PInv, CpuInv
  <2>2. Dir(handles'[running]) = Dir(handles[running])
    BY <1>1, <1>4, <1>6, Indices
  <2> QED
    BY <1>1, <1>4, <2>1, <2>2 DEF PInv, CpuInv, MapsFor
<1> QED
  BY <1>1, <1>8, <1>9, <1>10, <1>11, <1>12, <1>13, <1>14 DEF PInv

LEMMA KernelGrows ==
  ASSUME NEW m, NEW h, NEW n, NEW g, NEW lo, NEW hi, KernelShape(m, h, lo, hi), Dir(h) = KD
  PROVE  /\ \A k : /\ SameBut(m, h, n, g, 0) /\ TableFor(n, g, 0, 0, k, KernelFlags)
                   /\ Table(g, 0) = KL /\ ~(hi > 0)
                   => KernelShape(n, g, k, hi)
         /\ \A k : /\ SameBut(m, h, n, g, KernelIndex)
                   /\ TableFor(n, g, KernelIndex, 0, k, KernelFlags)
                   /\ Table(g, KernelIndex) = KH /\ n[KL] = m[KL]
                   => KernelShape(n, g, lo, k)
<1>1. 0 \in Index /\ KernelIndex \in Index /\ Last \in Index /\ 0 # KernelIndex
      /\ 0 # Last /\ KernelIndex # Last
  BY Indices, Numbers
<1>2. ASSUME NEW k, SameBut(m, h, n, g, 0), TableFor(n, g, 0, 0, k, KernelFlags),
             Table(g, 0) = KL, ~(hi > 0)
      PROVE  KernelShape(n, g, k, hi)
  <2>1. Linked(n, g, Last, KD, KernelFlags)
    BY <1>1, <1>2, Stays DEF KernelShape, SameBut
  <2>2. TableFor(n, g, KernelIndex, 0, hi, KernelFlags)
    BY <1>1, <1>2, Stays DEF KernelShape, SameBut
  <2>3. \A i \in Index \ {0, KernelIndex, Last} : Unlinked(n, g, i)
    BY <1>2, Stays DEF KernelShape, SameBut
  <2> QED
    BY <1>2, <2>1, <2>2, <2>3 DEF KernelShape, SameBut
<1>3. ASSUME NEW k, SameBut(m, h, n, g, KernelIndex),
             TableFor(n, g, KernelIndex, 0, k, KernelFlags),
             Table(g, KernelIndex) = KH, n[KL] = m[KL]
      PROVE  KernelShape(n, g, lo, k)
  <2>1. Linked(n, g, Last, KD, KernelFlags)
    BY <1>1, <1>3, Stays DEF KernelShape, SameBut
  <2>2. TableFor(n, g, 0, 0, lo, KernelFlags) /\ Table(g, 0) = Table(h, 0)
    BY <1>1, <1>3, Stays DEF KernelShape, SameBut
  <2>3. \A i \in Index \ {0, KernelIndex, Last} : Unlinked(n, g, i)
    BY <1>3, Stays DEF KernelShape, SameBut
  <2> QED
    BY <1>3, <2>1, <2>2, <2>3 DEF KernelShape, SameBut
<1> QED
  BY <1>2, <1>3

LEMMA ProcessGrows ==
  ASSUME NEW m, NEW h, NEW n, NEW g, NEW c, NEW b, NEW s, NEW t, ProcessShape(m, h, c, b, s, t)
  PROVE  /\ \A k : /\ SameBut(m, h, n, g, CodeIndex)
                   /\ TableFor(n, g, CodeIndex, b, k, UserFlags) /\ ~(s > 0)
                   => ProcessShape(n, g, k, b, s, t)
         /\ \A k : /\ SameBut(m, h, n, g, StackIndex)
                   /\ TableFor(n, g, StackIndex, t, k, UserFlags)
                   /\ n[Table(h, CodeIndex)] = m[Table(h, CodeIndex)]
                   => ProcessShape(n, g, c, b, k, t)
<1>1. /\ 0 \in Index /\ KernelIndex \in Index /\ Last \in Index /\ CodeIndex \in Index
      /\ StackIndex \in Index /\ CodeIndex # StackIndex
      /\ CodeIndex \notin {0, KernelIndex, Last} /\ StackIndex \notin {0, KernelIndex, Last}
  BY Indices, Numbers
<1>2. ASSUME NEW i \in {CodeIndex, StackIndex}, SameBut(m, h, n, g, i)
      PROVE  /\ g.directory = KernelPage(Dir(g)) /\ Linked(n, g, Last, Dir(g), KernelFlags)
             /\ Linked(n, g, 0, KL, KernelFlags) /\ Linked(n, g, KernelIndex, KH, KernelFlags)
             /\ \A j \in Index \ {0, CodeIndex, StackIndex, KernelIndex, Last} : Unlinked(n, g, j)
  <2>1. g.directory = KernelPage(Dir(g)) /\ Linked(n, g, Last, Dir(g), KernelFlags)
    BY <1>1, <1>2, Stays DEF ProcessShape, SameBut
  <2>2. Linked(n, g, 0, KL, KernelFlags) /\ Linked(n, g, KernelIndex, KH, KernelFlags)
    BY <1>1, <1>2, Stays DEF ProcessShape, SameBut
  <2>3. \A j \in Index \ {0, CodeIndex, StackIndex, KernelIndex, Last} : Unlinked(n, g, j)
    BY <1>2, Stays DEF ProcessShape, SameBut
  <2> QED
    BY <2>1, <2>2, <2>3
<1>3. ASSUME NEW k, SameBut(m, h, n, g, CodeIndex),
             TableFor(n, g, CodeIndex, b, k, UserFlags), ~(s > 0)
      PROVE  ProcessShape(n, g, k, b, s, t)
  <2>1. TableFor(n, g, StackIndex, t, s, UserFlags)
    BY <1>1, <1>3, Stays DEF ProcessShape, SameBut
  <2> QED
    BY <1>2, <1>3, <2>1 DEF ProcessShape
<1>4. ASSUME NEW k, SameBut(m, h, n, g, StackIndex),
             TableFor(n, g, StackIndex, t, k, UserFlags),
             n[Table(h, CodeIndex)] = m[Table(h, CodeIndex)]
      PROVE  ProcessShape(n, g, c, b, k, t)
  <2>1. TableFor(n, g, CodeIndex, b, c, UserFlags)
    BY <1>1, <1>4, Stays DEF ProcessShape, SameBut
  <2> QED
    BY <1>2, <1>4, <2>1 DEF ProcessShape
<1> QED
  BY <1>3, <1>4

(* paging_map_page when the table exists (paging.c:128-141). *)
LEMMA PageWritten ==
  ASSUME PInv, paging_map_page, NEW h, h = handles[job.handle], NEW i \in Index,
         NEW c \in Index, NEW b \in Nat, job.virt = <<i, c>>, job.phys = b + c,
         TableFor(mem, h, i, b, c, job.flags), c > 0 => Table(h, i) # Dir(h)
  PROVE  /\ c > 0 /\ Mapping /\ MapAdvance /\ handles' = handles /\ cursor' = cursor
         /\ mem' \in Memory /\ TableFor(mem', h, i, b, c + 1, job.flags)
         /\ \A f \in Frames \ {Table(h, i)} : mem'[f] = mem[f]
<1>1. /\ Mapping /\ HasTable /\ MapAdvance /\ UNCHANGED <<handles, cursor>>
      /\ mem' = [mem EXCEPT ![At(h.directory_virtual[i])][c] = [frame |-> b + c, flags |-> job.flags]]
  BY DEF paging_map_page, MapEntry
<1>2. c \in Nat /\ h.directory_virtual[i] # NULL
  BY <1>1, Indices DEF HasTable
<1>3. c > 0
  BY <1>2 DEF TableFor, Unlinked
<1>4. mem \in Memory /\ job.handle \in Handles /\ h \in Handle
  <2>1. job.handle \in Handles
    BY Indices DEF PInv, TypeOK
  <2> QED
    BY <2>1, Held
<1>5. At(h.directory_virtual[i]) = Table(h, i)
  <2>1. h.directory_virtual[i] = KernelPage(Table(h, i)) /\ Table(h, i) \in Frames
    BY <1>3, <1>4, HandleFrames DEF TableFor, Linked
  <2> QED
    BY <2>1, KernelSeen
<1>6. b + c \in Frames /\ job.flags \in SUBSET UserFlags
  BY <1>1, Advanced DEF PInv, MoreTypes
<1>7. mem' = Extend(mem, Table(h, i), c, b + c, job.flags)
  BY <1>1, <1>5 DEF Extend
<1>8. /\ mem' \in Memory /\ TableFor(mem', h, i, b, c + 1, job.flags)
      /\ \A f \in Frames \ {Table(h, i)} : mem'[f] = mem[f]
  BY <1>3, <1>4, <1>6, <1>7, Extended
<1> QED
  BY <1>1, <1>3, <1>8

(* ... and when it is created (paging.c:111-126). *)
LEMMA TableCreated ==
  ASSUME PInv, MapPageInNewTable, NEW h, h = handles[job.handle], NEW i \in Index,
         NEW c \in Index, NEW b \in Nat, job.virt = <<i, c>>, job.phys = b + c,
         TableFor(mem, h, i, b, c, job.flags),
         h.directory = KernelPage(Dir(h)), Dir(h) < cursor,
         NEW g, g = handles'[job.handle]
  PROVE  /\ c = 0 /\ Mapping /\ MapAdvance /\ cursor' = cursor + 1 /\ cursor' <= Entries
         /\ mem' \in Memory /\ handles' \in [Handles -> Handle]
         /\ \A p \in Handles \ {job.handle} : handles'[p] = handles[p]
         /\ SameBut(mem, h, mem', g, i) /\ Table(g, i) = cursor
         /\ TableFor(mem', g, i, b, 1, job.flags)
         /\ \A f \in Frames \ {cursor, Dir(h)} : mem'[f] = mem[f]
<1> DEFINE page == KernelPage(cursor)
           table == virtual_to_physical_addr(handles[current_directory], page)
<1>1. /\ Mapping /\ ~HasTable /\ MapAdvance /\ Touchable(1) /\ cursor' = cursor + 1
      /\ handles' = [handles EXCEPT ![job.handle].directory_virtual[i] = page]
      /\ mem' = [mem EXCEPT
           ![At(page)] = [EmptyTable EXCEPT ![c] = [frame |-> b + c, flags |-> job.flags]],
           ![At(h.directory)][i] = [frame |-> table, flags |-> job.flags]]
  BY DEF MapPageInNewTable, MapEntry, kzalloc
<1>2. cursor \in Nat /\ cursor + 1 <= Entries /\ cursor \in Frames
  <2>1. Touchable(1)
    BY <1>1
  <2>2. cursor \in Nat /\ cursor + 1 <= Entries
    BY <2>1, Held, Within
  <2> QED
    BY <2>2, FrameBelow
<1>3. mem \in Memory /\ job.handle \in Handles /\ h \in Handle /\ handles \in [Handles -> Handle]
      /\ Dir(h) \in Frames
  <2>1. job.handle \in Handles
    BY Indices DEF PInv, TypeOK
  <2> QED
    BY <2>1, Held
<1>4. c = 0
  <2> SUFFICES ASSUME c # 0 PROVE FALSE
    OBVIOUS
  <2>1. c > 0
    BY Indices
  <2>2. h.directory_virtual[i] = KernelPage(Table(h, i)) /\ Table(h, i) \in Frames
    BY <1>3, <2>1, HandleFrames DEF TableFor, Linked
  <2> QED
    BY <1>1, <2>2, PageOf DEF HasTable
<1>5. At(page) = cursor /\ At(h.directory) = Dir(h) /\ table = cursor
  <2>1. pc = "map"
    BY <1>1 DEF Mapping
  <2> QED
    BY <1>2, <1>3, <2>1, KernelSeen, Translated
<1>6. b + c = b /\ b \in Frames /\ job.flags \in SUBSET UserFlags
  BY <1>1, <1>4, Advanced DEF PInv, MoreTypes
<1> HIDE DEF table
<1>7. mem' = Begin(mem, cursor, Dir(h), i, b, job.flags)
  BY <1>1, <1>4, <1>5, <1>6 DEF Begin
<1>8. g = Link(h, i, cursor)
  BY <1>1, <1>3 DEF Link
<1>9. cursor # Dir(h)
  BY <1>2
<1>10. NewTable(mem, h, mem', g, i, b, job.flags, cursor)
  BY <1>2, <1>3, <1>6, <1>7, <1>8, <1>9, Begun
<1>11. handles' = [handles EXCEPT ![job.handle] = g]
  BY <1>1, <1>3, <1>8
<1>12. handles' \in [Handles -> Handle] /\ \A p \in Handles \ {job.handle} : handles'[p] = handles[p]
  BY <1>3, <1>10, <1>11 DEF NewTable
<1> QED
  BY <1>1, <1>2, <1>4, <1>10, <1>12 DEF NewTable

(* The kernel's directory while it is filled. *)
LEMMA KernelJob ==
  ASSUME PInv, Mapping, MapAdvance, OnBootDirectory
  PROVE  /\ job.handle = Kernel /\ job.flags = KernelFlags /\ job.phys \in Index /\ job.phys \in Nat
         /\ KD \in Frames /\ KD < cursor /\ BootFrame \in Frames /\ BootFrame < KD
         /\ Dir(handles[Kernel]) = KD /\ handles[Kernel].directory = KernelPage(KD)
         /\ KernelShape(mem, handles[Kernel], Low, High)
         /\ \/ /\ job.then = "high" /\ job.virt = <<0, job.phys>>
               /\ Low = job.phys /\ High = 0 /\ Low' = job.phys + 1 /\ High' = 0
               /\ cursor = IF job.phys = 0 THEN KL ELSE KH
            \/ /\ job.then = "cr3" /\ job.virt = <<KernelIndex, job.phys>> /\ KL \in Frames
               /\ Low = Entries /\ High = job.phys /\ Low' = Entries /\ High' = job.phys + 1
               /\ cursor = IF job.phys = 0 THEN KH ELSE KH + 1
<1>1. /\ job'.phys = job.phys + 1 /\ job'.then = job.then /\ job.phys \in Nat
      /\ job.phys < job.end /\ job.phys \in Frames /\ pc = "map" /\ pc' = "map"
  BY Advanced
<1>2. MapsFor("high") \/ MapsFor("cr3")
  BY <1>1 DEF OnBootDirectory
<1>3. job.handle = Kernel /\ job.flags = KernelFlags /\ job.end = Entries
  BY <1>2 DEF PInv, JobInv
<1>4. job.phys \in Index
  BY <1>1, Indices
<1>5. KernelShape(mem, handles[Kernel], Low, High)
  BY <1>1 DEF PInv, KernelInv
<1>6. CASE MapsFor("high")
  <2>1. /\ job.then = "high" /\ job.virt = <<0, job.phys>>
        /\ Low = job.phys /\ High = 0 /\ Low' = job.phys + 1 /\ High' = 0
    BY <1>1, <1>3, <1>6 DEF PInv, JobInv, Low, High, MapsFor
  <2>2. cursor = IF job.phys = 0 THEN KL ELSE KH
    BY <1>6, <2>1 DEF PInv, CursorInv
  <2>3. KD \in Frames /\ KD < cursor /\ BootFrame < KD
    <3>1. KD < cursor /\ BootFrame < KD /\ KD \in Nat
      BY <2>2, Numbers
    <3>2. KD + 1 <= Entries
      BY <3>1, Held, Numbers
    <3> QED
      BY <3>1, <3>2, FrameBelow
  <2>4. Dir(handles[Kernel]) = KD /\ handles[Kernel].directory = KernelPage(KD)
    BY <1>5, <2>3, PageOf DEF KernelShape, Dir
  <2> QED
    BY <1>1, <1>3, <1>4, <1>5, <2>1, <2>2, <2>3, <2>4, Indices
<1>7. CASE MapsFor("cr3")
  <2>1. /\ job.then = "cr3" /\ job.virt = <<KernelIndex, job.phys>>
        /\ Low = Entries /\ High = job.phys /\ Low' = Entries /\ High' = job.phys + 1
    BY <1>1, <1>3, <1>7 DEF PInv, JobInv, Low, High, MapsFor
  <2>2. cursor = IF job.phys = 0 THEN KH ELSE KH + 1
    BY <1>7, <2>1 DEF PInv, CursorInv
  <2>3. KD \in Frames /\ KL \in Frames /\ KD < cursor /\ BootFrame < KD
    <3>1. KL < cursor /\ KD < cursor /\ BootFrame < KD /\ KD \in Nat /\ KL \in Nat
      BY <2>2, Numbers
    <3>2. KD + 1 <= Entries /\ KL + 1 <= Entries
      BY <3>1, Held, Numbers
    <3> QED
      BY <3>1, <3>2, FrameBelow
  <2>4. Dir(handles[Kernel]) = KD /\ handles[Kernel].directory = KernelPage(KD)
    BY <1>5, <2>3, PageOf DEF KernelShape, Dir
  <2> QED
    BY <1>1, <1>3, <1>4, <1>5, <2>1, <2>2, <2>3, <2>4, Indices
<1> QED
  BY <1>2, <1>6, <1>7

(* A process's directory while it is filled: c pages of code, then the     *)
(* stack.                                                                  *)
LEMMA ProcessJob ==
  ASSUME PInv, Mapping, MapAdvance, ~OnBootDirectory, NEW h, h = handles[new]
  PROVE  /\ job.handle = new /\ job.flags = UserFlags /\ h \in Handle
         /\ Dir(h) \in Nat /\ h.directory = KernelPage(Dir(h)) /\ KH < Dir(h) /\ Dir(h) < cursor
         /\ Table(h, CodeIndex) \in Frames /\ Table(h, CodeIndex) \in Nat
         /\ ProcessShape(mem, h, Coded(new), code[new].begin, Stacked(new), stack[new])
         /\ ProcessOrder(h, Coded(new), Stacked(new), cursor)
         /\ \/ /\ job.then = "map_stack" /\ Coded(new) \in Index /\ Coded(new) \in Nat
               /\ code[new].begin \in Nat /\ job.phys = code[new].begin + Coded(new)
               /\ job.virt = <<CodeIndex, Coded(new)>> /\ Coded(new)' = Coded(new) + 1
               /\ Stacked(new) = 0 /\ Stacked(new)' = 0
            \/ /\ job.then = "task_new" /\ stack[new] \in Nat /\ job.phys = stack[new] + 0
               /\ job.virt = <<StackIndex, 0>> /\ Coded(new) > 0 /\ Coded(new)' = Coded(new)
               /\ Stacked(new) = 0 /\ Stacked(new)' = 1
<1>1. /\ job'.phys = job.phys + 1 /\ job'.then = job.then /\ job.phys \in Nat
      /\ job.phys < job.end /\ job.end <= Entries /\ pc = "map" /\ pc' = "map"
      /\ UNCHANGED <<code, stack, new>>
  BY Advanced
<1>2. MapsFor("map_stack") \/ MapsFor("task_new")
  BY <1>1, Started
<1>3. job.handle = new /\ job.flags = UserFlags /\ new # Kernel
  BY <1>2 DEF PInv, JobInv, CpuInv
<1>4. new \in Pids /\ Built(new)
  BY <1>1, <1>3, Indices DEF PInv, TypeOK, Built
<1>5. /\ ProcessShape(mem, h, Coded(new), code[new].begin, Stacked(new), stack[new])
      /\ ProcessOrder(h, Coded(new), Stacked(new), cursor)
  BY <1>4 DEF PInv, ProcessInv
<1>6. /\ h \in Handle /\ Dir(h) \in Nat /\ Table(h, CodeIndex) \in Frames
      /\ Table(h, CodeIndex) \in Nat
  BY <1>4, Held, Indices
<1>7. h.directory = KernelPage(Dir(h)) /\ KH < Dir(h) /\ Dir(h) < cursor
  BY <1>5 DEF ProcessShape, ProcessOrder
<1>8. CASE MapsFor("map_stack")
  <2> DEFINE b == code[new].begin
  <2>1. b <= job.phys /\ job.end = b + code[new].len /\ job.virt = <<CodeIndex, job.phys - b>>
    BY <1>8 DEF PInv, JobInv
  <2>2. b \in Nat /\ job.phys - b \in Nat /\ job.phys - b < Entries /\ job.phys = b + (job.phys - b)
        /\ (job.phys + 1) - b = (job.phys - b) + 1
    BY <1>1, <1>3, <2>1, NewLoaded, Numbers
  <2>3. job.phys - b \in Index
    BY <2>2, Indices, Numbers
  <2>4. /\ job.then = "map_stack" /\ Coded(new) = job.phys - b
        /\ Coded(new)' = (job.phys - b) + 1 /\ Stacked(new) = 0 /\ Stacked(new)' = 0
    BY <1>1, <1>8, <2>2 DEF Coded, Stacked, MapsFor
  <2> HIDE DEF b
  <2>5. job.phys = b + Coded(new) /\ Coded(new) \in Index /\ Coded(new) \in Nat
        /\ job.virt = <<CodeIndex, Coded(new)>> /\ Coded(new)' = Coded(new) + 1
    BY <2>1, <2>2, <2>3, <2>4
  <2> QED
    BY <1>3, <1>5, <1>6, <1>7, <2>2, <2>4, <2>5 DEF b
<1>9. CASE MapsFor("task_new")
  <2>1. /\ stack[new] <= job.phys /\ job.end = stack[new] + 1
        /\ job.virt = <<StackIndex, job.phys - stack[new]>>
    BY <1>9 DEF PInv, JobInv
  <2>2. stack[new] \in Nat /\ job.phys = stack[new] /\ job.phys - stack[new] = 0
        /\ (job.phys + 1) - stack[new] = 1
    BY <1>1, <1>3, <2>1, NewLoaded
  <2>3. job.phys = stack[new] + 0 /\ job.virt = <<StackIndex, 0>>
    BY <2>1, <2>2
  <2>4. /\ job.then = "task_new" /\ Coded(new) = code[new].len /\ Coded(new)' = Coded(new)
        /\ Stacked(new) = 0 /\ Stacked(new)' = 1
    BY <1>1, <1>9, <2>2 DEF Coded, Stacked, MapsFor
  <2>5. Coded(new) > 0
    BY <1>3, <2>4, NewLoaded
  <2> QED
    BY <1>3, <1>5, <1>6, <1>7, <2>2, <2>3, <2>4, <2>5
<1> QED
  BY <1>2, <1>8, <1>9

LEMMA PagingMapPageKeeps ==
  ASSUME PInv, paging_map_page
  PROVE  PInv'
<1>1. Mapping /\ MapAdvance
  BY DEF paging_map_page
<1>2. ASSUME NEW m \in Memory, NEW n, NEW h, NEW i, NEW x, x # Dir(h), Dir(h) \in Frames,
             \A f \in Frames \ {x} : n[f] = m[f]
      PROVE  SameBut(m, h, n, h, i)
  BY <1>2 DEF SameBut
<1>3. CASE OnBootDirectory
  <2> DEFINE h == handles[Kernel]
             c == job.phys
  <2>1. /\ job.handle = Kernel /\ job.flags = KernelFlags /\ c \in Index /\ c \in Nat
        /\ KD \in Frames /\ BootFrame \in Frames /\ BootFrame < KD
        /\ Dir(h) = KD /\ KernelShape(mem, h, Low, High) /\ mem \in Memory
    BY <1>1, <1>3, KernelJob, Held
  <2>2. KL # KD /\ KH # KD /\ KL # KH /\ BootFrame # KL /\ BootFrame # KH /\ KD # BootFrame
        /\ job.phys = 0 + c /\ 0 \in Nat
    BY <2>1, Numbers
  <2>3. CASE job.then = "high"
    <3>1. /\ job.virt = <<0, c>> /\ Low = c /\ High = 0 /\ Low' = c + 1 /\ High' = 0
          /\ cursor = IF c = 0 THEN KL ELSE KH
      BY <1>1, <1>3, <2>3, KernelJob
    <3>2. TableFor(mem, h, 0, 0, c, job.flags) /\ (c > 0 => Table(h, 0) = KL)
      BY <2>1, <3>1 DEF KernelShape
    <3>3. c > 0 => Table(h, 0) # Dir(h)
      BY <2>1, <2>2, <3>2
    <3> HIDE DEF c
    <3>4. /\ c > 0 /\ handles' = handles /\ cursor' = cursor
          /\ mem' \in Memory /\ TableFor(mem', h, 0, 0, c + 1, job.flags)
          /\ \A f \in Frames \ {Table(h, 0)} : mem'[f] = mem[f]
      BY <2>1, <2>2, <3>1, <3>2, <3>3, Indices, PageWritten
    <3>5. SameBut(mem, h, mem', h, 0)
      BY <1>2, <2>1, <2>2, <3>2, <3>4
    <3>6. KernelShape(mem', h, c + 1, High)
      <4>1. ~(High > 0)
        BY <3>1
      <4> QED
        BY <2>1, <3>2, <3>4, <3>5, <4>1, KernelGrows
    <3>7. mem'[BootFrame] = mem[BootFrame]
      BY <2>1, <2>2, <3>2, <3>4
    <3>8. cursor' \in Nat /\ cursor' >= cursor /\ cursor' <= Entries /\ cursor' = KH
      BY <3>1, <3>4, Held
    <3> QED
      BY <1>1, <1>3, <2>3, <3>1, <3>4, <3>6, <3>7, <3>8, Held, KernelPageMapped
  <2>4. CASE job.then = "cr3"
    <3>1. /\ job.virt = <<KernelIndex, c>> /\ Low = Entries /\ High = c /\ Low' = Entries
          /\ High' = c + 1 /\ KL \in Frames
          /\ cursor = IF c = 0 THEN KH ELSE KH + 1
      BY <1>1, <1>3, <2>4, KernelJob
    <3>2. TableFor(mem, h, KernelIndex, 0, c, job.flags) /\ (c > 0 => Table(h, KernelIndex) = KH)
      BY <2>1, <3>1 DEF KernelShape
    <3>3. c > 0 => Table(h, KernelIndex) # Dir(h)
      BY <2>1, <2>2, <3>2
    <3> HIDE DEF c
    <3>4. /\ c > 0 /\ handles' = handles /\ cursor' = cursor
          /\ mem' \in Memory /\ TableFor(mem', h, KernelIndex, 0, c + 1, job.flags)
          /\ \A f \in Frames \ {Table(h, KernelIndex)} : mem'[f] = mem[f]
      BY <2>1, <2>2, <3>1, <3>2, <3>3, Indices, PageWritten
    <3>5. SameBut(mem, h, mem', h, KernelIndex)
      BY <1>2, <2>1, <2>2, <3>2, <3>4
    <3>6. KernelShape(mem', h, Low, c + 1)
      <4>1. mem'[KL] = mem[KL]
        BY <2>2, <3>1, <3>2, <3>4
      <4> QED
        BY <2>1, <3>2, <3>4, <3>5, <4>1, KernelGrows
    <3>7. mem'[BootFrame] = mem[BootFrame]
      BY <2>1, <2>2, <3>2, <3>4
    <3>8. cursor' \in Nat /\ cursor' >= cursor /\ cursor' <= Entries /\ cursor' = KH + 1
      <4>1. c # 0
        BY <2>1, <3>4
      <4> QED
        BY <3>1, <3>4, <4>1, Held
    <3> QED
      BY <1>1, <1>3, <2>4, <3>1, <3>4, <3>6, <3>7, <3>8, Held, KernelPageMapped
  <2> QED
    BY <1>1, <1>3, <2>3, <2>4, KernelJob
<1>4. CASE ~OnBootDirectory
  <2> DEFINE h == handles[new]
             c == Coded(new)
             b == code[new].begin
  <2>1. /\ job.handle = new /\ job.flags = UserFlags /\ h \in Handle
        /\ Dir(h) \in Nat /\ KH < Dir(h) /\ Dir(h) < cursor
        /\ Table(h, CodeIndex) \in Frames /\ Table(h, CodeIndex) \in Nat
        /\ ProcessShape(mem, h, c, b, Stacked(new), stack[new])
        /\ ProcessOrder(h, c, Stacked(new), cursor)
    BY <1>1, <1>4, ProcessJob
  <2>2. CASE job.then = "map_stack"
    <3>1. /\ c \in Index /\ c \in Nat /\ b \in Nat /\ job.phys = b + c
          /\ job.virt = <<CodeIndex, c>> /\ Coded(new)' = c + 1
          /\ Stacked(new) = 0 /\ Stacked(new)' = 0
      BY <1>1, <1>4, <2>2, ProcessJob
    <3>2. TableFor(mem, h, CodeIndex, b, c, job.flags)
      BY <2>1 DEF ProcessShape
    <3>3. c > 0 => Dir(h) < Table(h, CodeIndex) /\ Table(h, CodeIndex) < cursor
      BY <2>1 DEF ProcessOrder
    <3>4. c > 0 => Table(h, CodeIndex) # Dir(h)
      BY <2>1, <3>3
    <3> HIDE DEF c, b
    <3>5. /\ c > 0 /\ handles' = handles /\ cursor' = cursor
          /\ mem' \in Memory /\ TableFor(mem', h, CodeIndex, b, c + 1, job.flags)
          /\ \A f \in Frames \ {Table(h, CodeIndex)} : mem'[f] = mem[f]
      BY <2>1, <3>1, <3>2, <3>4, Indices, PageWritten
    <3>6. SameBut(mem, h, mem', h, CodeIndex)
      <4>1. mem \in Memory /\ Dir(h) \in Frames
        BY <2>1, Held, HandleFrames
      <4> QED
        BY <1>2, <3>4, <3>5, <4>1
    <3>7. ProcessShape(mem', h, c + 1, b, 0, stack[new])
      <4>1. ~(0 > 0)
        OBVIOUS
      <4> QED
        BY <2>1, <3>1, <3>5, <3>6, <4>1, ProcessGrows
    <3>8. ProcessOrder(h, c + 1, 0, cursor)
      BY <2>1, <3>3, <3>5 DEF ProcessOrder
    <3>9. \A f \in Frames : f < Dir(h) => mem'[f] = mem[f]
      <4>1. \A f \in Frames : f < Dir(h) => f # Table(h, CodeIndex)
        BY <2>1, <3>3, <3>5, Indices
      <4> QED
        BY <3>5, <4>1
    <3>10. cursor' \in Nat /\ cursor' >= cursor /\ cursor' <= Entries
      BY <3>5, Held
    <3> QED
      BY <1>1, <1>4, <3>1, <3>5, <3>7, <3>8, <3>9, <3>10, Held, ProcessPageMapped DEF b, c
  <2>3. CASE job.then = "task_new"
    <3>1. /\ stack[new] \in Nat /\ job.phys = stack[new] + 0 /\ job.virt = <<StackIndex, 0>>
          /\ Stacked(new) = 0
      BY <1>1, <1>4, <2>3, ProcessJob
    <3>2. TableFor(mem, h, StackIndex, stack[new], 0, job.flags) /\ ~(0 > 0)
      BY <2>1, <3>1 DEF ProcessShape
    <3>3. 0 > 0
      BY <2>1, <3>1, <3>2, Indices, PageWritten
    <3> QED
      BY <3>2, <3>3
  <2> QED
    BY <1>1, <1>4, <2>2, <2>3, ProcessJob
<1> QED
  BY <1>3, <1>4

LEMMA MapPageInNewTableKeeps ==
  ASSUME PInv, MapPageInNewTable
  PROVE  PInv'
<1>1. Mapping /\ MapAdvance
  BY DEF MapPageInNewTable
<1>2. CASE OnBootDirectory
  <2> DEFINE h == handles[Kernel]
             g == handles'[Kernel]
             c == job.phys
  <2>1. /\ job.handle = Kernel /\ job.flags = KernelFlags /\ c \in Index /\ c \in Nat
        /\ KD \in Frames /\ KD < cursor /\ BootFrame \in Frames /\ BootFrame < KD
        /\ Dir(h) = KD /\ h.directory = KernelPage(Dir(h))
        /\ KernelShape(mem, h, Low, High)
    BY <1>1, <1>2, KernelJob
  <2>2. KL # KD /\ KH # KD /\ KL # KH /\ BootFrame # KL /\ BootFrame # KH /\ KD # BootFrame
        /\ job.phys = 0 + c /\ 0 \in Nat
    BY <2>1, Numbers
  <2>3. CASE job.then = "high"
    <3>1. /\ job.virt = <<0, c>> /\ Low = c /\ High = 0 /\ Low' = c + 1 /\ High' = 0
          /\ cursor = IF c = 0 THEN KL ELSE KH
      BY <1>1, <1>2, <2>3, KernelJob
    <3>2. TableFor(mem, h, 0, 0, c, job.flags)
      BY <2>1, <3>1 DEF KernelShape
    <3> HIDE DEF c, g
    <3>3. /\ c = 0 /\ cursor' = cursor + 1 /\ cursor' <= Entries
          /\ mem' \in Memory /\ handles' \in [Handles -> Handle]
          /\ \A p \in Handles \ {Kernel} : handles'[p] = handles[p]
          /\ SameBut(mem, h, mem', g, 0) /\ Table(g, 0) = cursor
          /\ TableFor(mem', g, 0, 0, 1, job.flags)
          /\ \A f \in Frames \ {cursor, Dir(h)} : mem'[f] = mem[f]
      <4>1. g = handles'[job.handle]
        BY <2>1 DEF g
      <4> QED
        BY <2>1, <2>2, <3>1, <3>2, <4>1, Indices, TableCreated
    <3>4. cursor = KL /\ cursor' = KH /\ cursor' \in Nat /\ cursor' >= cursor
      BY <3>1, <3>3, Numbers
    <3>5. KernelShape(mem', g, 1, 0)
      <4>1. ~(High > 0)
        BY <3>1
      <4> QED
        BY <2>1, <3>1, <3>3, <3>4, <4>1, KernelGrows
    <3>6. mem'[BootFrame] = mem[BootFrame]
      BY <2>1, <2>2, <3>3, <3>4
    <3>7. KernelShape(mem', g, Low', High')
      BY <3>1, <3>3, <3>5
    <3> QED
      BY <1>1, <1>2, <2>3, <3>3, <3>4, <3>6, <3>7, KernelPageMapped DEF g
  <2>4. CASE job.then = "cr3"
    <3>1. /\ job.virt = <<KernelIndex, c>> /\ Low = Entries /\ High = c /\ Low' = Entries
          /\ High' = c + 1 /\ KL \in Frames
          /\ cursor = IF c = 0 THEN KH ELSE KH + 1
      BY <1>1, <1>2, <2>4, KernelJob
    <3>2. TableFor(mem, h, KernelIndex, 0, c, job.flags)
      BY <2>1, <3>1 DEF KernelShape
    <3> HIDE DEF c, g
    <3>3. /\ c = 0 /\ cursor' = cursor + 1 /\ cursor' <= Entries
          /\ mem' \in Memory /\ handles' \in [Handles -> Handle]
          /\ \A p \in Handles \ {Kernel} : handles'[p] = handles[p]
          /\ SameBut(mem, h, mem', g, KernelIndex) /\ Table(g, KernelIndex) = cursor
          /\ TableFor(mem', g, KernelIndex, 0, 1, job.flags)
          /\ \A f \in Frames \ {cursor, Dir(h)} : mem'[f] = mem[f]
      <4>1. g = handles'[job.handle]
        BY <2>1 DEF g
      <4> QED
        BY <2>1, <2>2, <3>1, <3>2, <4>1, Indices, TableCreated
    <3>4. cursor = KH /\ cursor' = KH + 1 /\ cursor' \in Nat /\ cursor' >= cursor
      BY <3>1, <3>3, Numbers
    <3>5. KernelShape(mem', g, Low, 1)
      <4>1. mem'[KL] = mem[KL]
        BY <2>1, <2>2, <3>1, <3>3, <3>4
      <4> QED
        BY <2>1, <3>1, <3>3, <3>4, <4>1, KernelGrows
    <3>6. mem'[BootFrame] = mem[BootFrame]
      BY <2>1, <2>2, <3>3, <3>4
    <3>7. KernelShape(mem', g, Low', High')
      BY <3>1, <3>3, <3>5
    <3> QED
      BY <1>1, <1>2, <2>4, <3>3, <3>4, <3>6, <3>7, KernelPageMapped DEF g
  <2> QED
    BY <1>1, <1>2, <2>3, <2>4, KernelJob
<1>3. CASE ~OnBootDirectory
  <2> DEFINE h == handles[new]
             g == handles'[new]
             c == Coded(new)
             b == code[new].begin
  <2>1. /\ job.handle = new /\ job.flags = UserFlags /\ h \in Handle
        /\ Dir(h) \in Nat /\ h.directory = KernelPage(Dir(h)) /\ KH < Dir(h) /\ Dir(h) < cursor
        /\ Table(h, CodeIndex) \in Frames /\ Table(h, CodeIndex) \in Nat
        /\ ProcessShape(mem, h, c, b, Stacked(new), stack[new])
        /\ ProcessOrder(h, c, Stacked(new), cursor)
    BY <1>1, <1>3, ProcessJob
  <2>2. cursor \in Nat
    BY Held
  <2>3. ASSUME cursor' = cursor + 1,
               \A f \in Frames \ {cursor, Dir(h)} : mem'[f] = mem[f]
        PROVE  /\ cursor' \in Nat /\ cursor' >= cursor
               /\ \A f \in Frames : f < Dir(h) => mem'[f] = mem[f]
    <3>1. \A f \in Frames : f < Dir(h) => f # Dir(h) /\ f # cursor
      BY <2>1, <2>2, Indices
    <3> QED
      BY <2>2, <2>3, <3>1
  <2>4. CASE job.then = "map_stack"
    <3>1. /\ c \in Index /\ c \in Nat /\ b \in Nat /\ job.phys = b + c
          /\ job.virt = <<CodeIndex, c>> /\ Coded(new)' = c + 1
          /\ Stacked(new) = 0 /\ Stacked(new)' = 0
      BY <1>1, <1>3, <2>4, ProcessJob
    <3>2. TableFor(mem, h, CodeIndex, b, c, job.flags)
      BY <2>1 DEF ProcessShape
    <3> HIDE DEF c, b, g
    <3>3. /\ c = 0 /\ cursor' = cursor + 1 /\ cursor' <= Entries
          /\ mem' \in Memory /\ handles' \in [Handles -> Handle]
          /\ \A p \in Handles \ {new} : handles'[p] = handles[p]
          /\ SameBut(mem, h, mem', g, CodeIndex) /\ Table(g, CodeIndex) = cursor
          /\ TableFor(mem', g, CodeIndex, b, 1, job.flags)
          /\ \A f \in Frames \ {cursor, Dir(h)} : mem'[f] = mem[f]
      <4>1. g = handles'[job.handle]
        BY <2>1 DEF g
      <4> QED
        BY <2>1, <3>1, <3>2, <4>1, Indices, TableCreated
    <3>4. ProcessShape(mem', g, 1, b, 0, stack[new])
      <4>1. ~(0 > 0)
        OBVIOUS
      <4> QED
        BY <2>1, <3>1, <3>3, <4>1, ProcessGrows
    <3>5. Dir(g) = Dir(h)
      BY <3>3 DEF SameBut
    <3>6. ProcessOrder(g, 1, 0, cursor')
      BY <2>1, <2>2, <3>3, <3>5 DEF ProcessOrder
    <3>7. ProcessShape(mem', g, Coded(new)', b, Stacked(new)', stack[new])
          /\ ProcessOrder(g, Coded(new)', Stacked(new)', cursor')
      BY <3>1, <3>3, <3>4, <3>6
    <3> QED
      BY <1>1, <1>3, <2>3, <3>3, <3>5, <3>7, ProcessPageMapped DEF b, g
  <2>5. CASE job.then = "task_new"
    <3>1. /\ stack[new] \in Nat /\ job.phys = stack[new] + 0 /\ job.virt = <<StackIndex, 0>>
          /\ c > 0 /\ Coded(new)' = c /\ Stacked(new) = 0 /\ Stacked(new)' = 1
      BY <1>1, <1>3, <2>5, ProcessJob
    <3>2. TableFor(mem, h, StackIndex, stack[new], 0, job.flags)
      BY <2>1, <3>1 DEF ProcessShape
    <3> HIDE DEF c, b, g
    <3>3. /\ cursor' = cursor + 1 /\ cursor' <= Entries
          /\ mem' \in Memory /\ handles' \in [Handles -> Handle]
          /\ \A p \in Handles \ {new} : handles'[p] = handles[p]
          /\ SameBut(mem, h, mem', g, StackIndex) /\ Table(g, StackIndex) = cursor
          /\ TableFor(mem', g, StackIndex, stack[new], 1, job.flags)
          /\ \A f \in Frames \ {cursor, Dir(h)} : mem'[f] = mem[f]
      <4>1. g = handles'[job.handle]
        BY <2>1 DEF g
      <4> QED
        BY <2>1, <3>1, <3>2, <4>1, Indices, TableCreated
    <3>4. Dir(h) < Table(h, CodeIndex) /\ Table(h, CodeIndex) < cursor
      BY <2>1, <3>1 DEF ProcessOrder
    <3>5. mem'[Table(h, CodeIndex)] = mem[Table(h, CodeIndex)]
      <4>1. Table(h, CodeIndex) # Dir(h) /\ Table(h, CodeIndex) # cursor
        BY <2>1, <2>2, <3>4
      <4> QED
        BY <2>1, <3>3, <4>1
    <3>6. ProcessShape(mem', g, c, b, 1, stack[new])
      BY <2>1, <3>3, <3>5, ProcessGrows
    <3>7. Dir(g) = Dir(h) /\ Table(g, CodeIndex) = Table(h, CodeIndex)
      <4>1. CodeIndex \in Index \ {StackIndex}
        BY Indices, Numbers
      <4> QED
        BY <3>3, <4>1 DEF SameBut, Table
    <3>8. ProcessOrder(g, c, 1, cursor')
      BY <2>1, <2>2, <3>1, <3>3, <3>4, <3>7 DEF ProcessOrder
    <3>9. ProcessShape(mem', g, Coded(new)', b, Stacked(new)', stack[new])
          /\ ProcessOrder(g, Coded(new)', Stacked(new)', cursor')
      BY <3>1, <3>6, <3>8
    <3> QED
      BY <1>1, <1>3, <2>3, <3>3, <3>7, <3>9, ProcessPageMapped DEF b, g
  <2> QED
    BY <1>1, <1>3, <2>4, <2>5, ProcessJob
<1> QED
  BY <1>2, <1>3
-----------------------------------------------------------------------------
(* New directories. *)

LEMMA PagingInitKeeps ==
  ASSUME PInv, paging_init
  PROVE  PInv'
<1> DEFINE temp == [NoHandle EXCEPT !.directory = KernelPage(BootFrame)]
           page == KernelPage(cursor + BitmapBlocks + HandleBlocks)
           self == virtual_to_physical_addr(temp, page)
           dv   == [NoHandle.directory_virtual EXCEPT ![Last] = page]
           h    == [directory |-> page, directory_virtual |-> dv]
           t    == [EmptyTable EXCEPT ![Last] = [frame |-> self, flags |-> KernelFlags]]
<1>1. /\ pc = "boot" /\ pc' = "map" /\ Touchable(BitmapBlocks + HandleBlocks + 1)
      /\ cursor' = cursor + (BitmapBlocks + HandleBlocks + 1) /\ current_directory' = Boot
      /\ handles' = [handles EXCEPT ![Boot] = temp, ![Kernel] = h]
      /\ mem' = [mem EXCEPT ![At(page)] = t]
      /\ job' = [handle |-> Kernel, virt |-> NULL, phys |-> 0, end |-> Entries,
                 flags |-> KernelFlags, then |-> "high"]
      /\ UNCHANGED <<code, stack, ring, running, cr3, new>>
  BY DEF paging_init, kzalloc, paging_map_from_to, procVars, cpuVars
<1>2. pse' = pse /\ halted' = halted
  BY DEF paging_init, cpuVars
<1>3. Booting /\ Booting' /\ OnBootDirectory /\ OnBootDirectory'
  BY <1>1 DEF Booting, OnBootDirectory, MapsFor
<1>4. cursor = HeapFrame /\ cursor + BitmapBlocks + HandleBlocks = KD /\ KD + 1 <= Entries
      /\ cursor' = KL /\ cursor' \in Nat /\ cursor' >= cursor /\ cursor' <= Entries
  <2>1. cursor = HeapFrame
    BY <1>1 DEF PInv, CursorInv
  <2>2. cursor + 4 <= Entries
    BY <1>1, Within DEF BitmapBlocks, HandleBlocks
  <2> QED
    BY <1>1, <2>1, <2>2, Numbers DEF BitmapBlocks, HandleBlocks
<1>5. KD \in Frames /\ KD \in Nat /\ page = KernelPage(KD) /\ page \in Pages /\ page[2] = KD
      /\ page[1] = KernelIndex /\ KD # BootFrame
  BY <1>4, FrameBelow, PageOf, Numbers
<1>6. At(page) = KD
  BY <1>5, KernelSeen
<1>7. self = KD
  <2>1. temp.directory = KernelPage(BootFrame)
    BY DEF NoHandle
  <2>2. DirectoryEntry(temp, KernelIndex) = BootEntry /\ pse
    BY <1>3, <2>1, KernelSeen, Indices DEF DirectoryEntry, PInv, CpuInv
  <2>3. BootEntry.frame = 0 /\ "pse" \in BootEntry.flags
    BY DEF BootEntry
  <2> QED
    BY <1>5, <2>2, <2>3 DEF virtual_to_physical_addr
<1> HIDE DEF page, self
<1>8. NullEntry \in Entry /\ [frame |-> KD, flags |-> KernelFlags] \in Entry /\ NULL \in Pages
      /\ 0 \in Frames
  <2>1. 0 \in Frames
    BY Indices
  <2> QED
    BY <1>5, <2>1, Indices DEF Entry, NullEntry, KernelFlags, UserFlags, Pages
<1>9. /\ t \in [Index -> Entry] /\ t[Last] = [frame |-> KD, flags |-> KernelFlags]
      /\ \A i \in Index \ {Last} : t[i] = NullEntry
  BY <1>7, <1>8, Indices DEF EmptyTable
<1>10. /\ dv \in [Index -> Pages] /\ dv[Last] = page /\ \A i \in Index \ {Last} : dv[i] = NULL
  BY <1>5, <1>8, Indices DEF NoHandle
<1>11. temp \in Handle /\ temp.directory = KernelPage(BootFrame)
  <2>1. KernelPage(BootFrame) \in Pages
    BY Indices, PageOf
  <2> QED
    BY <1>8, <2>1 DEF NoHandle, Handle
<1> HIDE DEF t, dv, temp
<1>12. h \in Handle /\ h.directory = page /\ h.directory_virtual = dv
  BY <1>5, <1>10 DEF Handle
<1> HIDE DEF h
<1>13. /\ mem' \in Memory /\ mem'[KD] = t /\ mem'[BootFrame] = mem[BootFrame]
  BY <1>1, <1>5, <1>6, <1>9, Held, Indices DEF Memory
<1>14. /\ handles' \in [Handles -> Handle] /\ handles'[Boot] = temp /\ handles'[Kernel] = h
       /\ \A p \in Pids : p # Kernel => handles'[p] = handles[p]
  <2>1. Boot # Kernel /\ Boot \in Handles /\ Kernel \in Handles
    BY Indices
  <2> QED
    BY <1>1, <1>11, <1>12, <2>1, Held, Indices
<1>15. KernelInv'
  <2>1. Low' = 0 /\ High' = 0
    BY <1>1 DEF Low, High, MapsFor
  <2>2. Dir(h) = KD
    BY <1>5, <1>12 DEF Dir
  <2>3. Linked(mem', h, Last, KD, KernelFlags)
    BY <1>5, <1>9, <1>10, <1>12, <1>13, <2>2 DEF Linked
  <2>4. \A i \in Index \ {Last} : Unlinked(mem', h, i)
    BY <1>9, <1>10, <1>12, <1>13, <2>2 DEF Unlinked
  <2>5. 0 \in Index \ {Last} /\ KernelIndex \in Index \ {Last} /\ ~(0 > 0)
    BY Indices, Numbers
  <2>6. KernelShape(mem', h, 0, 0)
    BY <1>5, <1>12, <2>3, <2>4, <2>5 DEF KernelShape, TableFor
  <2> QED
    BY <1>1, <1>14, <2>1, <2>6 DEF KernelInv
<1>16. ProcessInv' /\ OrderInv' /\ LoadInv'
  BY <1>1, <1>3, <1>4, <1>14, NoneBuilt, LoadKept DEF PInv, ProcessInv, OrderInv
<1>17. MoreTypes'
  <2>1. 0 \in 0..Entries /\ Entries \in 0..Entries
    BY Numbers
  <2> QED
    BY <1>1, <1>8, <2>1, Indices, FlagFacts DEF PInv, MoreTypes
<1>18. TypeOK'
  <2>1. pse' \in BOOLEAN /\ halted' \in BOOLEAN
    BY <1>2 DEF PInv, TypeOK
  <2>2. cursor' \in HeapFrame..Entries
    BY <1>4, Numbers
  <2>3. job'.handle \in Pids /\ job'.virt \in Pages /\ job'.phys \in 0..Entries
        /\ job'.end \in 0..Entries
    BY <1>17 DEF MoreTypes
  <2> QED
    BY <1>1, <1>13, <1>14, <2>1, <2>2, <2>3, Indices DEF PInv, TypeOK, Memory, Handle
<1>19. JobInv'
  BY <1>1, Indices DEF JobInv, MapsFor
<1>20. CursorInv'
  <2>1. Low' = 0
    BY <1>1 DEF Low, MapsFor
  <2> QED
    BY <1>1, <1>3, <1>4, <2>1 DEF CursorInv, MapsFor
<1>21. CpuInv'
  <2>1. pse' <=> OnBootDirectory' \/ pc' = "pse"
    BY <1>2, <1>3 DEF PInv, CpuInv
  <2> QED
    BY <1>1, <1>3, <1>11, <1>13, <1>14, <2>1 DEF PInv, CpuInv, MapsFor
<1> QED
  BY <1>15, <1>16, <1>17, <1>18, <1>19, <1>20, <1>21 DEF PInv

LEMMA CloneKeeps ==
  ASSUME PInv, paging_clone_directory
  PROVE  PInv'
<1> DEFINE page == KernelPage(cursor + HandleBlocks)
           source == handles[Kernel]
           Used(i) == i < Last /\ DirectoryEntry(source, i) # NullEntry
           d  == cursor + HandleBlocks
           dv == [i \in Index |-> IF i = Last THEN page
                                  ELSE IF Used(i) THEN source.directory_virtual[i] ELSE NULL]
           t  == [i \in Index |-> IF i = Last THEN SelfEntry(page)
                                  ELSE IF Used(i) THEN DirectoryEntry(source, i) ELSE NullEntry]
           g  == [directory |-> page, directory_virtual |-> dv]
<1>1. /\ pc = "clone" /\ pc' = "map_code" /\ Touchable(HandleBlocks + 1)
      /\ cursor' = cursor + (HandleBlocks + 1)
      /\ handles' = [handles EXCEPT ![new] = g] /\ mem' = [mem EXCEPT ![At(page)] = t]
      /\ UNCHANGED <<current_directory, code, stack, ring, running, cr3, new, job>>
  BY DEF paging_clone_directory, kzalloc, bootVars, procVars, cpuVars
<1>2. pse' = pse /\ halted' = halted
  BY DEF paging_clone_directory, bootVars, cpuVars
<1>3. ~Booting /\ ~Booting' /\ ~OnBootDirectory /\ ~OnBootDirectory' /\ new # Kernel
  BY <1>1, Started DEF Booting, OnBootDirectory, MapsFor, PInv, CpuInv
<1>4. cursor \in Nat /\ d = cursor + 2 /\ d \in Nat /\ d + 1 <= Entries /\ cursor' = d + 1
      /\ cursor' \in Nat /\ cursor' >= cursor /\ cursor' <= Entries
  <2>1. cursor + 3 <= Entries /\ cursor \in Nat
    BY <1>1, Within, Held DEF HandleBlocks
  <2> QED
    BY <1>1, <2>1 DEF HandleBlocks
<1>5. d \in Frames /\ page = KernelPage(d) /\ page \in Pages /\ page[2] = d /\ At(page) = d
  BY <1>4, FrameBelow, PageOf, KernelSeen
<1>6. SelfEntry(page) = [frame |-> d, flags |-> KernelFlags]
  BY <1>1, <1>5, Translated DEF SelfEntry
<1>7. cursor > KH /\ KD \in Frames /\ KL \in Frames /\ KH \in Frames
  BY <1>3, SharedTables DEF PInv, CursorInv
<1>8. /\ Dir(source) = KD /\ source.directory = KernelPage(KD)
      /\ Linked(mem, source, 0, KL, KernelFlags) /\ Linked(mem, source, KernelIndex, KH, KernelFlags)
      /\ \A i \in Index \ {0, KernelIndex, Last} : Unlinked(mem, source, i)
  <2>1. KernelShape(mem, source, Low, High)
    BY <1>1 DEF PInv, KernelInv
  <2>2. Low > 0 /\ High > 0
    BY <1>1, Numbers DEF Low, High, MapsFor
  <2> QED
    BY <1>7, <2>1, <2>2, PageOf DEF KernelShape, TableFor, Dir
<1>9. \A i : DirectoryEntry(source, i) = mem[KD][i]
  BY <1>7, <1>8, KernelSeen DEF DirectoryEntry
<1> HIDE DEF source
<1>10. \A i \in Index \ {Last} : Used(i) <=> i \in {0, KernelIndex}
  <2> SUFFICES ASSUME NEW i \in Index, i # Last PROVE Used(i) <=> i \in {0, KernelIndex}
    OBVIOUS
  <2>1. i < Last
    BY Indices, Numbers
  <2>2. CASE i \in {0, KernelIndex}
    <3>1. mem[KD][i].flags = KernelFlags
      BY <1>8, <2>2 DEF Linked
    <3>2. KernelFlags # {}
      BY FlagFacts
    <3> QED
      BY <1>9, <2>1, <2>2, <3>1, <3>2, NoEntry
  <2>3. CASE i \notin {0, KernelIndex}
    BY <1>8, <1>9, <2>3 DEF Unlinked
  <2> QED
    BY <2>2, <2>3
<1>11. 0 \in Index \ {Last} /\ KernelIndex \in Index \ {Last} /\ Last \in Index /\ 0 \in Frames
       /\ NULL \in Pages
  BY Indices, Numbers DEF Pages
<1>12. /\ dv[Last] = page /\ dv[0] = KernelPage(KL) /\ dv[KernelIndex] = KernelPage(KH)
       /\ \A i \in Index \ {0, KernelIndex, Last} : dv[i] = NULL
  BY <1>8, <1>10, <1>11 DEF Linked
<1>13. /\ t[Last] = [frame |-> d, flags |-> KernelFlags]
       /\ t[0] = [frame |-> KL, flags |-> KernelFlags]
       /\ t[KernelIndex] = [frame |-> KH, flags |-> KernelFlags]
       /\ \A i \in Index \ {0, KernelIndex, Last} : t[i] = NullEntry
  <2>1. t[Last] = [frame |-> d, flags |-> KernelFlags]
    BY <1>6, <1>11
  <2>2. mem[KD][0] = [frame |-> KL, flags |-> KernelFlags]
        /\ mem[KD][KernelIndex] = [frame |-> KH, flags |-> KernelFlags]
    BY <1>8 DEF Linked
  <2> QED
    BY <1>9, <1>10, <1>11, <2>1, <2>2
<1>14. dv \in [Index -> Pages] /\ t \in [Index -> Entry]
  <2>1. \A i \in Index : i \in {0, KernelIndex, Last} \/ i \in Index \ {0, KernelIndex, Last}
    OBVIOUS
  <2>2. KernelPage(KL) \in Pages /\ KernelPage(KH) \in Pages
    BY <1>7, PageOf
  <2>3. \A f \in Frames : [frame |-> f, flags |-> KernelFlags] \in Entry
    BY DEF Entry, KernelFlags, UserFlags
  <2>4. NullEntry \in Entry
    BY <1>11 DEF Entry, NullEntry
  <2>5. \A i \in Index : dv[i] \in Pages
    BY <1>5, <1>11, <1>12, <2>1, <2>2
  <2>6. \A i \in Index : t[i] \in Entry
    BY <1>5, <1>7, <1>13, <2>1, <2>3, <2>4
  <2> QED
    BY <2>5, <2>6
<1> HIDE DEF dv, t, page, d
<1>15. g \in Handle /\ g.directory = page /\ g.directory_virtual = dv /\ Dir(g) = d
  BY <1>5, <1>14 DEF Handle, Dir
<1> HIDE DEF g
<1>16. new \in Pids /\ new \in Handles
  BY Indices DEF PInv, TypeOK
<1>17. /\ mem' \in Memory /\ mem'[d] = t /\ \A f \in Frames \ {d} : mem'[f] = mem[f]
       /\ handles' \in [Handles -> Handle] /\ handles'[new] = g
       /\ \A p \in Handles \ {new} : handles'[p] = handles[p]
  <2>1. mem' \in Memory /\ mem'[d] = t /\ \A f \in Frames \ {d} : mem'[f] = mem[f]
    BY <1>1, <1>5, <1>14, Held DEF Memory
  <2>2. /\ handles' \in [Handles -> Handle] /\ handles'[new] = g
        /\ \A p \in Handles \ {new} : handles'[p] = handles[p]
    BY <1>1, <1>15, <1>16, Held
  <2> QED
    BY <2>1, <2>2
<1>18. \A p \in Pids : p # new => handles'[p] = handles[p]
  BY <1>17, Indices
<1>19. \A f \in Frames : f < cursor => mem'[f] = mem[f]
  <2>1. \A f \in Frames : f < cursor => f # d
    BY <1>4, Indices
  <2> QED
    BY <1>17, <2>1
<1>20. \A p \in Pids : /\ p = new => ~Built(p) /\ Built(p)'
                       /\ p # new => (Built(p)' <=> Built(p))
  BY <1>1, <1>3, <1>16, Indices DEF Built
<1>21. KernelInv'
  <2>1. Low' = Low /\ High' = High
    BY <1>1 DEF Low, High, MapsFor
  <2>2. handles'[Kernel] = handles[Kernel]
    BY <1>3, <1>18, Indices
  <2>3. KernelShape(mem', handles[Kernel], Low, High)
    BY <1>3, <1>4, <1>7, <1>19, BelowStays
  <2> QED
    BY <1>1, <2>1, <2>2, <2>3 DEF KernelInv
<1>22. ProcessInv'
  <2> SUFFICES ASSUME NEW p \in Pids
               PROVE  /\ p # Kernel /\ ~Built(p)' => handles'[p] = NoHandle
                      /\ Built(p)' =>
                           /\ ProcessShape(mem', handles'[p], Coded(p)', code'[p].begin,
                                           Stacked(p)', stack'[p])
                           /\ ProcessOrder(handles'[p], Coded(p)', Stacked(p)', cursor')
    BY DEF ProcessInv
  <2>1. CASE p = new
    <3>1. Coded(p)' = 0 /\ Stacked(p)' = 0 /\ ~(0 > 0)
      BY <1>1, <2>1 DEF Coded, Stacked
    <3>2. /\ Linked(mem', g, Last, d, KernelFlags) /\ Linked(mem', g, 0, KL, KernelFlags)
          /\ Linked(mem', g, KernelIndex, KH, KernelFlags)
      BY <1>5, <1>12, <1>13, <1>15, <1>17 DEF Linked
    <3>3. \A i \in Index \ {0, KernelIndex, Last} : Unlinked(mem', g, i)
      BY <1>12, <1>13, <1>15, <1>17 DEF Unlinked
    <3>4. CodeIndex \in Index \ {0, KernelIndex, Last} /\ StackIndex \in Index \ {0, KernelIndex, Last}
      BY Indices, Numbers
    <3>5. ProcessShape(mem', g, 0, code[p].begin, 0, stack[p])
      BY <1>5, <1>15, <3>1, <3>2, <3>3, <3>4 DEF ProcessShape, TableFor
    <3>6. KH < d /\ d < cursor'
      BY <1>4, <1>7, Numbers
    <3>7. ProcessOrder(g, 0, 0, cursor')
      BY <1>15, <3>1, <3>6 DEF ProcessOrder
    <3> QED
      BY <1>1, <1>17, <1>20, <2>1, <3>1, <3>5, <3>7
  <2>2. CASE p # new /\ ~Built(p)
    BY <1>18, <1>20, <2>2 DEF PInv, ProcessInv
  <2>3. CASE p # new /\ Built(p)
    <3>1. Coded(p)' = Coded(p) /\ Stacked(p)' = Stacked(p)
      BY <1>1, <2>3 DEF Coded, Stacked
    <3>2. ProcessOrder(handles[p], Coded(p), Stacked(p), cursor)
      BY <2>3 DEF PInv, ProcessInv
    <3>3. ProcessShape(mem', handles[p], Coded(p), code[p].begin, Stacked(p), stack[p])
      BY <1>3, <1>4, <1>7, <1>19, <2>3, <3>2, BelowStays
    <3>4. ProcessOrder(handles[p], Coded(p), Stacked(p), cursor')
      <4>1. /\ Dir(handles[p]) \in Nat /\ Table(handles[p], CodeIndex) \in Nat
            /\ Table(handles[p], StackIndex) \in Nat
        BY Held, Indices
      <4> QED
        BY <1>4, <3>2, <4>1 DEF ProcessOrder
    <3> QED
      BY <1>1, <1>18, <1>20, <2>3, <3>1, <3>3, <3>4
  <2> QED
    BY <2>1, <2>2, <2>3
<1>23. OrderInv'
  <2> SUFFICES ASSUME NEW p \in Pids, NEW q \in Pids, Built(p)', Built(q)', p < q
               PROVE  Table(handles'[p], StackIndex) < Dir(handles'[q])
    BY DEF OrderInv
  <2>1. p # new /\ Built(p)
    BY <1>1, <1>20, Indices DEF Built
  <2>2. CASE q = new
    <3>1. Stacked(p) > 0
      BY <2>1, Complete
    <3>2. Table(handles[p], StackIndex) < cursor
      BY <2>1, <3>1 DEF PInv, ProcessInv, ProcessOrder
    <3>3. Table(handles[p], StackIndex) \in Nat
      BY Held, Indices
    <3>4. Table(handles[p], StackIndex) < d
      BY <1>4, <3>2, <3>3
    <3> QED
      BY <1>15, <1>17, <1>18, <2>1, <2>2, <3>4
  <2>3. CASE q # new
    BY <1>18, <1>20, <2>1, <2>3 DEF PInv, OrderInv
  <2> QED
    BY <2>2, <2>3
<1>24. LoadInv'
  BY <1>1, <1>4, LoadKept
<1>25. MoreTypes' /\ JobInv'
  BY <1>1 DEF PInv, MoreTypes, JobInv, MapsFor
<1>26. TypeOK'
  <2>1. pse' \in BOOLEAN /\ halted' \in BOOLEAN
    BY <1>2 DEF PInv, TypeOK
  <2>2. cursor' \in HeapFrame..Entries
    BY <1>4, Held, Numbers
  <2> QED
    BY <1>1, <1>17, <2>1, <2>2 DEF PInv, TypeOK, Memory, Handle
<1>27. CursorInv'
  <2>1. cursor' > KH
    BY <1>4, <1>7, Numbers
  <2> QED
    BY <1>1, <2>1 DEF CursorInv, MapsFor
<1>28. CpuInv'
  <2>1. pse' <=> OnBootDirectory' \/ pc' = "pse"
    BY <1>1, <1>2, <1>3 DEF PInv, CpuInv
  <2>2. running # new /\ running \in Pids
    <3>1. running \in Pids /\ (running = Kernel \/ Built(running))
      BY RunningBuilt
    <3> QED
      BY <1>3, <1>20, <3>1
  <2> QED
    BY <1>1, <1>3, <1>18, <2>1, <2>2 DEF PInv, CpuInv, MapsFor
<1> QED
  BY <1>21, <1>22, <1>23, <1>24, <1>25, <1>26, <1>27, <1>28 DEF PInv
-----------------------------------------------------------------------------
LEMMA PInvNext == PInv /\ [Next]_vars => PInv'
<1> SUFFICES ASSUME PInv, [Next]_vars PROVE PInv'
  OBVIOUS
<1>1. CASE paging_init
  BY <1>1, PagingInitKeeps
<1>2. CASE MapHigh
  BY <1>2, MapHighKeeps
<1>3. CASE LoadCr3
  BY <1>3, LoadCr3Keeps
<1>4. CASE PseOff
  BY <1>4, PseOffKeeps
<1>5. CASE SetDirectory
  BY <1>5, SetDirectoryKeeps
<1>6. CASE paging_map_page
  BY <1>6, PagingMapPageKeeps
<1>7. CASE MapPageInNewTable
  BY <1>7, MapPageInNewTableKeeps
<1>8. CASE MapDone
  BY <1>8, MapDoneKeeps
<1>9. CASE \E p \in Pids, n \in CodeSizes : process_load(p, n)
  BY <1>9, ProcessLoadKeeps
<1>10. CASE paging_clone_directory
  BY <1>10, CloneKeeps
<1>11. CASE MapCode
  BY <1>11, MapCodeKeeps
<1>12. CASE MapStack
  BY <1>12, MapStackKeeps
<1>13. CASE task_new
  BY <1>13, TaskNewKeeps
<1>14. CASE \E p \in Pids : schedule(p)
  BY <1>14, ScheduleKeeps
<1>15. CASE \E n \in CodeSizes : PageFault(n)
  <2>1. UNCHANGED <<tableVars, bootVars, procVars, cr3, pc, new, job, running>>
    BY <1>15 DEF PageFault
  <2>2. halted' \in BOOLEAN
    BY <1>15 DEF PageFault
  <2> QED
    BY <2>1, <2>2, HaltKeeps
<1>16. CASE UNCHANGED vars
  <2>1. UNCHANGED <<tableVars, bootVars, procVars, cr3, pc, new, job, running>>
    BY <1>16 DEF vars, cpuVars
  <2>2. halted' = halted
    BY <1>16 DEF vars, cpuVars
  <2>3. halted' \in BOOLEAN
    BY <2>2 DEF PInv, TypeOK
  <2> QED
    BY <2>1, <2>3, HaltKeeps
<1> QED
  BY <1>1, <1>2, <1>3, <1>4, <1>5, <1>6, <1>7, <1>8, <1>9, <1>10, <1>11, <1>12, <1>13,
     <1>14, <1>15, <1>16 DEF Next

LEMMA PInvAlways == Spec => []PInv
  BY PInvInit, PInvNext, PTL DEF Spec

(* Directories and tables are well formed, and the loop of                 *)
(* paging_map_range stays on pages (paging.c:155-164).                     *)
THEOREM TypeCorrect == Spec => []TypeOK
<1>1. PInv => TypeOK
  BY DEF PInv
<1> QED
  BY <1>1, PInvAlways, PTL

(* The kernel's memory stays where its pointers say and out of the         *)
(* programs' reach, whatever directory is in force (paging.c:253-269,      *)
(* task.c:279).                                                            *)
THEOREM KernelMapped == Spec => []KernelAlwaysMapped
<1>1. PInv => KernelAlwaysMapped
  BY KernelSeen DEF KernelAlwaysMapped
<1> QED
  BY <1>1, PInvAlways, PTL
-----------------------------------------------------------------------------
(* The kernel's own walk and its arrays of pointers. *)

LEMMA KernelDirectory ==
  ASSUME PInv, pc # "boot"
  PROVE  KD \in Frames
<1>1. cursor = KL \/ cursor = KH \/ cursor = KH + 1 \/ cursor > KH
  BY DEF PInv, CursorInv, OnBootDirectory
<1>2. KD + 1 <= Entries
  BY <1>1, Held, Numbers
<1> QED
  BY <1>2, FrameBelow, Numbers

(* The array of physical addresses of handle h agrees with that of         *)
(* pointers at index i.                                                    *)
Agrees(h, i) ==
  IF h.directory_virtual[i] = NULL THEN DirectoryEntry(h, i) = NullEntry
  ELSE DirectoryEntry(h, i).frame = At(h.directory_virtual[i])

LEMMA LinkedAgrees ==
  ASSUME PInv, NEW h, h.directory = KernelPage(Dir(h)), Dir(h) \in Frames, NEW i \in Index
  PROVE  /\ \A f \in Frames : \A flags : Linked(mem, h, i, f, flags) => Agrees(h, i)
         /\ Unlinked(mem, h, i) => Agrees(h, i)
         /\ \A b, n, flags :
              TableFor(mem, h, i, b, n, flags) /\ Table(h, i) \in Frames => Agrees(h, i)
<1>1. DirectoryEntry(h, i) = mem[Dir(h)][i]
  BY KernelSeen DEF DirectoryEntry
<1>2. \A f \in Frames : \A flags : Linked(mem, h, i, f, flags) => Agrees(h, i)
  <2> SUFFICES ASSUME NEW f \in Frames, NEW flags, Linked(mem, h, i, f, flags)
               PROVE  Agrees(h, i)
    OBVIOUS
  <2>1. h.directory_virtual[i] # NULL /\ At(h.directory_virtual[i]) = f
    BY PageOf, KernelSeen DEF Linked
  <2> QED
    BY <1>1, <2>1 DEF Agrees, Linked
<1>3. Unlinked(mem, h, i) => Agrees(h, i)
  BY <1>1 DEF Agrees, Unlinked
<1> QED
  BY <1>2, <1>3 DEF TableFor

(* virtual_to_physical_addr (paging.c:18-36) gives the frame the MMU uses, *)
(* and the two arrays of every handle agree.                               *)
THEOREM TranslationCorrect == Spec => []TranslationExact
<1>1. PInv => TranslationExact
  <2> SUFFICES ASSUME PInv PROVE TranslationExact
    OBVIOUS
  <2>1. ASSUME ~pse, pc # "kfree", NEW f \in Frames
        PROVE  virtual_to_physical_addr(handles[current_directory], KernelPage(f)) = f
    <3>1. ~OnBootDirectory /\ pc # "pse"
      BY <2>1 DEF PInv, CpuInv
    <3>2. pc # "boot"
      BY <3>1 DEF OnBootDirectory
    <3> QED
      BY <2>1, <3>1, <3>2, Translated
  <2>2. ASSUME NEW p \in Pids, handles[p] # NoHandle, NEW i \in Index
        PROVE  Agrees(handles[p], i)
    <3> DEFINE h == handles[p]
    <3>1. Dir(h) \in Frames /\ \A j \in Index : Table(h, j) \in Frames
      BY Held, Indices
    <3>2. CASE p = Kernel
      <4>1. pc # "boot"
        BY <2>2, <3>2 DEF PInv, KernelInv
      <4>2. KD \in Frames /\ KernelShape(mem, h, Low, High)
        BY <3>2, <4>1, KernelDirectory DEF PInv, KernelInv
      <4>3. Dir(h) = KD /\ h.directory = KernelPage(Dir(h))
        BY <4>2, PageOf DEF KernelShape, Dir
      <4>4. /\ \A f \in Frames : \A flags : Linked(mem, h, i, f, flags) => Agrees(h, i)
            /\ Unlinked(mem, h, i) => Agrees(h, i)
            /\ \A b, n, flags : TableFor(mem, h, i, b, n, flags) => Agrees(h, i)
        BY <3>1, <4>3, LinkedAgrees
      <4> HIDE DEF h
      <4>5. i = 0 => Agrees(h, i)
        BY <4>2, <4>4 DEF KernelShape
      <4>6. i = KernelIndex => Agrees(h, i)
        BY <4>2, <4>4 DEF KernelShape
      <4>7. i = Last => Agrees(h, i)
        BY <4>2, <4>4 DEF KernelShape
      <4>8. i \notin {0, KernelIndex, Last} => Agrees(h, i)
        BY <4>2, <4>4 DEF KernelShape
      <4> QED
        BY <4>5, <4>6, <4>7, <4>8 DEF h
    <3>3. CASE p # Kernel
      <4>1. Built(p)
        BY <2>2, <3>3 DEF PInv, ProcessInv
      <4>2. ~OnBootDirectory
        <5>1. new # Kernel
          BY <4>1, Indices DEF Built, PInv, TypeOK
        <5> QED
          BY <5>1, Started DEF PInv, CpuInv
      <4>3. KL \in Frames /\ KH \in Frames
        BY <4>2, SharedTables
      <4>4. ProcessShape(mem, h, Coded(p), code[p].begin, Stacked(p), stack[p])
        BY <4>1 DEF PInv, ProcessInv
      <4>5. h.directory = KernelPage(Dir(h))
        BY <4>4 DEF ProcessShape
      <4>6. /\ \A f \in Frames : \A flags : Linked(mem, h, i, f, flags) => Agrees(h, i)
            /\ Unlinked(mem, h, i) => Agrees(h, i)
            /\ \A b, n, flags : TableFor(mem, h, i, b, n, flags) => Agrees(h, i)
        BY <3>1, <4>5, LinkedAgrees
      <4> HIDE DEF h
      <4>7. i = CodeIndex => Agrees(h, i)
        BY <4>4, <4>6 DEF ProcessShape
      <4>8. i = StackIndex => Agrees(h, i)
        BY <4>4, <4>6 DEF ProcessShape
      <4>9. i \in {0, KernelIndex} => Agrees(h, i)
        BY <4>3, <4>4, <4>6 DEF ProcessShape
      <4>10. i = Last => Agrees(h, i)
        BY <3>1, <4>4, <4>6 DEF ProcessShape
      <4>11. i \notin {0, CodeIndex, StackIndex, KernelIndex, Last} => Agrees(h, i)
        BY <4>4, <4>6 DEF ProcessShape
      <4> QED
        BY <4>7, <4>8, <4>9, <4>10, <4>11 DEF h
    <3> QED
      BY <3>2, <3>3
  <2> QED
    BY <2>1, <2>2 DEF TranslationExact, Agrees
<1> QED
  BY <1>1, PInvAlways, PTL
-----------------------------------------------------------------------------
(* What a program reaches. *)

(* Nothing through an entry that is not for programs. *)
LEMMA NotForPrograms ==
  ASSUME NEW d, NEW v, "user" \notin mem[d][v[1]].flags
  PROVE  MMU(d, v).user = FALSE
<1> DEFINE pde == mem[d][v[1]]
           pte == mem[pde.frame][v[2]]
<1>1. \/ MMU(d, v) = [frame |-> Panic, user |-> FALSE]
      \/ MMU(d, v) = [frame |-> pde.frame + v[2], user |-> "user" \in pde.flags]
      \/ MMU(d, v) = [frame |-> pte.frame, user |-> "user" \in pde.flags /\ "user" \in pte.flags]
  BY DEF MMU, Unmapped
<1>2. ("user" \in pde.flags) = FALSE
      /\ ("user" \in pde.flags /\ "user" \in pte.flags) = FALSE
  OBVIOUS
<1> HIDE DEF pde, pte
<1>3. CASE MMU(d, v) = [frame |-> pde.frame + v[2], user |-> "user" \in pde.flags]
  <2>1. MMU(d, v) = [frame |-> pde.frame + v[2], user |-> FALSE]
    BY <1>2, <1>3
  <2> QED
    BY <2>1
<1>4. CASE MMU(d, v) = [frame |-> pte.frame,
                        user |-> "user" \in pde.flags /\ "user" \in pte.flags]
  <2>1. MMU(d, v) = [frame |-> pte.frame, user |-> FALSE]
    BY <1>2, <1>4
  <2> QED
    BY <2>1
<1>5. CASE MMU(d, v) = [frame |-> Panic, user |-> FALSE]
  BY <1>5
<1> QED
  BY <1>1, <1>3, <1>4, <1>5

(* The code and the stack of the task that runs, when it is a program. *)
LEMMA ProgramView ==
  ASSUME PInv, running # Kernel, NEW v \in Pages
  PROVE  LET b == code[running].begin
             n == code[running].len
         IN  /\ v[1] = CodeIndex /\ v[2] < n =>
                  MMU(cr3, v) = [frame |-> b + v[2], user |-> TRUE]
             /\ v[1] = StackIndex /\ v[2] = 0 =>
                  MMU(cr3, v) = [frame |-> stack[running], user |-> TRUE]
             /\ ~(v[1] = CodeIndex /\ v[2] < n) /\ ~(v[1] = StackIndex /\ v[2] = 0) =>
                  MMU(cr3, v).user = FALSE
<1> DEFINE p == running
           h == handles[p]
           b == code[p].begin
           n == code[p].len
<1>1. p \in Pids /\ Built(p) /\ ~OnBootDirectory /\ cr3 = Dir(h)
  <2>1. p \in Pids /\ Built(p)
    BY RunningBuilt
  <2>2. ~OnBootDirectory
    BY Started DEF PInv, CpuInv
  <2> QED
    BY <2>1, <2>2 DEF PInv, CpuInv
<1>2. Coded(p) = n /\ Stacked(p) = 1 /\ n > 0
  <2>1. n > 0
    BY <1>1 DEF PInv, LoadInv, Built
  <2>2. CASE p # new
    BY <2>1, <2>2 DEF Coded, Stacked
  <2>3. CASE p = new
    <3>1. pc = "ready"
      <4>1. new \in Nat
        BY Indices DEF PInv, TypeOK
      <4>2. p < new \/ pc = "ready"
        BY DEF PInv, CpuInv
      <4> QED
        BY <2>3, <4>1, <4>2
    <3> QED
      BY <2>1, <2>3, <3>1 DEF Coded, Stacked, MapsFor
  <2> QED
    BY <2>2, <2>3
<1>3. ProcessShape(mem, h, n, b, 1, stack[p])
  BY <1>1, <1>2 DEF PInv, ProcessInv
<1>4. v[1] \in Index /\ v[2] \in Index /\ v[2] \in Nat /\ stack[p] \in Nat
  <2>1. v[1] \in Index /\ v[2] \in Index
    BY DEF Pages
  <2>2. stack[p] \in Frames
    BY <1>1 DEF PInv, MoreTypes
  <2> QED
    BY <2>1, <2>2, Indices
<1>5. CodeIndex # StackIndex
  BY Numbers
<1>6. CASE v[1] = CodeIndex
  <2> DEFINE x == Table(h, CodeIndex)
  <2>1. mem[cr3][v[1]] = [frame |-> x, flags |-> UserFlags] /\ Maps(mem[x], b, n, UserFlags)
    BY <1>1, <1>2, <1>3, <1>6 DEF ProcessShape, TableFor, Linked
  <2> HIDE DEF x
  <2>2. CASE v[2] < n
    <3>1. mem[x][v[2]] = [frame |-> b + v[2], flags |-> UserFlags]
      BY <1>4, <2>1, <2>2 DEF Maps
    <3>2. MMU(cr3, v) = [frame |-> b + v[2], user |-> "user" \in UserFlags /\ "user" \in UserFlags]
      BY <2>1, <3>1, FlagFacts, WalkTable
    <3>3. ("user" \in UserFlags /\ "user" \in UserFlags) = TRUE
      BY FlagFacts
    <3> QED
      BY <1>5, <1>6, <2>2, <3>2, <3>3
  <2>3. CASE ~(v[2] < n)
    <3>1. mem[x][v[2]] = [frame |-> 0, flags |-> {}]
      BY <1>4, <2>1, <2>3, NoEntry DEF Maps
    <3>2. MMU(cr3, v) = Unmapped
      BY <2>1, <3>1, FlagFacts, WalkTable
    <3>3. MMU(cr3, v).user = FALSE
      BY <3>2 DEF Unmapped
    <3> QED
      BY <1>5, <1>6, <2>3, <3>3
  <2> QED
    BY <2>2, <2>3
<1>7. CASE v[1] = StackIndex
  <2> DEFINE x == Table(h, StackIndex)
  <2>1. 1 > 0
    OBVIOUS
  <2>2. mem[cr3][v[1]] = [frame |-> x, flags |-> UserFlags] /\ Maps(mem[x], stack[p], 1, UserFlags)
    BY <1>1, <1>3, <1>7, <2>1 DEF ProcessShape, TableFor, Linked
  <2> HIDE DEF x
  <2>3. CASE v[2] = 0
    <3>1. mem[x][v[2]] = [frame |-> stack[p], flags |-> UserFlags]
      <4>1. v[2] < 1 /\ stack[p] + v[2] = stack[p]
        BY <1>4, <2>3
      <4> QED
        BY <1>4, <2>2, <4>1 DEF Maps
    <3>2. MMU(cr3, v) = [frame |-> stack[p], user |-> "user" \in UserFlags /\ "user" \in UserFlags]
      BY <2>2, <3>1, FlagFacts, WalkTable
    <3>3. ("user" \in UserFlags /\ "user" \in UserFlags) = TRUE
      BY FlagFacts
    <3> QED
      BY <1>5, <1>7, <2>3, <3>2, <3>3
  <2>4. CASE v[2] # 0
    <3>1. mem[x][v[2]] = [frame |-> 0, flags |-> {}]
      <4>1. ~(v[2] < 1)
        BY <1>4, <2>4
      <4> QED
        BY <1>4, <2>2, <4>1, NoEntry DEF Maps
    <3>2. MMU(cr3, v) = Unmapped
      BY <2>2, <3>1, FlagFacts, WalkTable
    <3>3. MMU(cr3, v).user = FALSE
      BY <3>2 DEF Unmapped
    <3> QED
      BY <1>5, <1>7, <2>4, <3>3
  <2> QED
    BY <2>3, <2>4
<1>8. CASE v[1] \notin {CodeIndex, StackIndex}
  <2>1. mem[cr3][v[1]].flags \in {KernelFlags, {}}
    <3>1. CASE v[1] \in {0, KernelIndex, Last}
      BY <1>1, <1>3, <3>1 DEF ProcessShape, Linked
    <3>2. CASE v[1] \notin {0, KernelIndex, Last}
      BY <1>1, <1>3, <1>4, <1>8, <3>2, NoEntry DEF ProcessShape, Unlinked
    <3> QED
      BY <3>1, <3>2
  <2>2. MMU(cr3, v).user = FALSE
    BY <2>1, FlagFacts, NotForPrograms
  <2> QED
    BY <1>8, <2>2
<1> QED
  BY <1>6, <1>7, <1>8

(* The kernel's own directory, and the one it starts with. *)
LEMMA KernelView ==
  ASSUME PInv, running = Kernel, NEW v \in Pages
  PROVE  MMU(cr3, v).user = FALSE
<1>1. v[1] \in Index
  BY DEF Pages
<1>2. CASE OnBootDirectory
  <2>1. mem[cr3][v[1]] \in {BootEntry, NullEntry}
    BY <1>1, <1>2 DEF PInv, CpuInv
  <2>2. "user" \notin BootEntry.flags /\ "user" \notin NullEntry.flags
    BY DEF BootEntry, NullEntry, KernelFlags
  <2> QED
    BY <2>1, <2>2, NotForPrograms
<1>3. CASE ~OnBootDirectory
  <2>1. pc # "boot" /\ Low > 0 /\ High > 0
    BY <1>3, Numbers DEF OnBootDirectory, Low, High
  <2>2. KernelShape(mem, handles[Kernel], Low, High)
    BY <2>1 DEF PInv, KernelInv
  <2>3. cr3 = Dir(handles[Kernel])
    BY <1>3 DEF PInv, CpuInv
  <2>4. mem[cr3][v[1]].flags \in {KernelFlags, {}}
    <3>1. CASE v[1] \in {0, KernelIndex, Last}
      BY <2>1, <2>2, <2>3, <3>1 DEF KernelShape, TableFor, Linked
    <3>2. CASE v[1] \notin {0, KernelIndex, Last}
      BY <1>1, <2>2, <2>3, <3>2, NoEntry DEF KernelShape, Unlinked
    <3> QED
      BY <3>1, <3>2
  <2> QED
    BY <2>4, FlagFacts, NotForPrograms
<1> QED
  BY <1>2, <1>3

(* A program runs in its own address space and reaches its code and stack  *)
(* and nothing else, also while the next one is being built (task.c:279,   *)
(* paging.c:188-218, process.c:116-150).                                   *)
THEOREM ProgramsKeptApart == Spec => []ProgramsApart
<1>1. PInv => RunsOwnDirectory
  <2> SUFFICES ASSUME PInv, ~Booting PROVE KernelPage(cr3) = handles[running].directory
    BY DEF RunsOwnDirectory
  <2>1. ~OnBootDirectory
    BY Started
  <2> QED
    BY <2>1, RunningBuilt, Shared DEF PInv, CpuInv
<1>2. PInv => Isolation
  <2> SUFFICES ASSUME PInv PROVE Isolation
    OBVIOUS
  <2>1. CASE running = Kernel
    BY <2>1, KernelView DEF Isolation, UserView
  <2>2. CASE running # Kernel
    <3> DEFINE b == code[running].begin
               n == code[running].len
    <3>1. n \in Nat /\ n <= Entries /\ b \in Nat
      <4>1. running \in Pids /\ Built(running)
        BY <2>2, RunningBuilt
      <4>2. /\ b \in Frames /\ n \in Nat /\ stack[running] \in Frames
            /\ b + n <= stack[running]
        BY <4>1 DEF PInv, MoreTypes, LoadInv, Built
      <4>3. b \in Nat /\ stack[running] \in Nat /\ stack[running] <= Last
        BY <4>2, Indices
      <4> QED
        BY <4>2, <4>3, Numbers
    <3>2. ASSUME NEW z \in UserView(cr3) PROVE z \in MappedTo(running)
      <4>1. PICK v \in Pages : MMU(cr3, v).user /\ z = <<v, MMU(cr3, v).frame>>
        BY DEF UserView
      <4>2. \/ v[1] = CodeIndex /\ v[2] < n /\ z = <<v, b + v[2]>>
            \/ v[1] = StackIndex /\ v[2] = 0 /\ z = <<v, stack[running]>>
        <5>1. CASE v[1] = CodeIndex /\ v[2] < n
          <6>1. MMU(cr3, v) = [frame |-> b + v[2], user |-> TRUE]
            BY <2>2, <5>1, ProgramView
          <6> QED
            BY <4>1, <5>1, <6>1
        <5>2. CASE v[1] = StackIndex /\ v[2] = 0
          <6>1. MMU(cr3, v) = [frame |-> stack[running], user |-> TRUE]
            BY <2>2, <5>2, ProgramView
          <6> QED
            BY <4>1, <5>2, <6>1
        <5>3. CASE ~(v[1] = CodeIndex /\ v[2] < n) /\ ~(v[1] = StackIndex /\ v[2] = 0)
          <6>1. MMU(cr3, v).user = FALSE
            BY <2>2, <5>3, ProgramView
          <6> QED
            BY <4>1, <6>1
        <5> QED
          BY <5>1, <5>2, <5>3
      <4>3. v = <<v[1], v[2]>> /\ v[2] \in Nat
        BY Indices DEF Pages
      <4>4. CASE v[1] = CodeIndex /\ v[2] < n /\ z = <<v, b + v[2]>>
        <5>1. v[2] \in 0..(n - 1)
          BY <3>1, <4>3, <4>4
        <5>2. z = <<<<CodeIndex, v[2]>>, b + v[2]>>
          BY <4>3, <4>4
        <5> QED
          BY <5>1, <5>2 DEF MappedTo
      <4>5. CASE v[1] = StackIndex /\ v[2] = 0 /\ z = <<v, stack[running]>>
        <5>1. z = <<<<StackIndex, 0>>, stack[running]>>
          BY <4>3, <4>5
        <5> QED
          BY <5>1 DEF MappedTo
      <4> QED
        BY <4>2, <4>4, <4>5
    <3>3. ASSUME NEW z \in MappedTo(running) PROVE z \in UserView(cr3)
      <4>1. CASE z = <<<<StackIndex, 0>>, stack[running]>>
        <5> DEFINE v == <<StackIndex, 0>>
        <5>1. v \in Pages /\ v[1] = StackIndex /\ v[2] = 0
          BY Indices DEF Pages
        <5> HIDE DEF v
        <5>2. MMU(cr3, v) = [frame |-> stack[running], user |-> TRUE]
          BY <2>2, <5>1, ProgramView
        <5>3. MMU(cr3, v).user /\ MMU(cr3, v).frame = stack[running]
          BY <5>2
        <5>4. z = <<v, MMU(cr3, v).frame>>
          BY <4>1, <5>3 DEF v
        <5> QED
          BY <5>1, <5>3, <5>4 DEF UserView
      <4>2. CASE \E k \in 0..(n - 1) : z = <<<<CodeIndex, k>>, b + k>>
        <5>1. PICK k \in 0..(n - 1) : z = <<<<CodeIndex, k>>, b + k>>
          BY <4>2
        <5> DEFINE v == <<CodeIndex, k>>
        <5>2. k \in Nat /\ k < n /\ k \in Index
          <6>1. k \in Nat /\ k < n
            BY <3>1
          <6>2. k + 1 <= Entries
            BY <3>1, <6>1, Numbers
          <6> QED
            BY <6>1, <6>2, FrameBelow, Indices
        <5>3. v \in Pages /\ v[1] = CodeIndex /\ v[2] = k
          BY <5>2, Indices DEF Pages
        <5>4. z = <<v, b + k>>
          BY <5>1
        <5> HIDE DEF v
        <5>5. MMU(cr3, v) = [frame |-> b + k, user |-> TRUE]
          BY <2>2, <5>2, <5>3, ProgramView
        <5>6. MMU(cr3, v).user /\ MMU(cr3, v).frame = b + k
          BY <5>5
        <5> QED
          BY <5>3, <5>4, <5>6 DEF UserView
      <4> QED
        BY <3>3, <4>1, <4>2 DEF MappedTo
    <3>4. UserView(cr3) = MappedTo(running)
      BY <3>2, <3>3
    <3> QED
      BY <2>2, <3>4 DEF Isolation
  <2> QED
    BY <2>1, <2>2
<1>3. PInv => ProgramsApart
  BY <1>1, <1>2 DEF ProgramsApart
<1> QED
  BY <1>3, PInvAlways, PTL
-----------------------------------------------------------------------------
(* The tables all directories share. *)

(* Once the kernel runs on its own directory it stays there. *)
LEMMA StaysStarted ==
  ASSUME PInv, ~Booting, Next
  PROVE  ~OnBootDirectory'
<1>1. ~OnBootDirectory /\ pc \in {"ready", "clone", "map", "map_code", "map_stack", "task_new"}
  BY Started DEF Booting, PInv, TypeOK
<1>2. CASE paging_init \/ MapHigh \/ LoadCr3 \/ PseOff \/ SetDirectory
  BY <1>1, <1>2 DEF paging_init, MapHigh, LoadCr3, PseOff, SetDirectory
<1>3. CASE paging_map_page \/ MapPageInNewTable
  <2>1. Mapping /\ MapAdvance
    BY <1>3 DEF paging_map_page, MapPageInNewTable
  <2>2. pc = "map" /\ pc' = "map" /\ job'.then = job.then
    BY <2>1, Advanced
  <2> QED
    BY <1>1, <2>2 DEF OnBootDirectory, MapsFor
<1>4. CASE MapDone
  <2>1. MapsFor("map_stack") \/ MapsFor("task_new")
    BY <1>1, <1>4, Started DEF MapDone
  <2>2. pc' = job.then
    BY <1>4 DEF MapDone
  <2> QED
    BY <2>1, <2>2 DEF OnBootDirectory, MapsFor
<1>5. CASE \E p \in Pids, n \in CodeSizes : process_load(p, n)
  BY <1>5 DEF process_load, OnBootDirectory, MapsFor
<1>6. CASE paging_clone_directory \/ task_new
  BY <1>6 DEF paging_clone_directory, task_new, OnBootDirectory, MapsFor
<1>7. CASE MapCode \/ MapStack
  BY <1>7 DEF MapCode, MapStack, paging_map_from_to, OnBootDirectory, MapsFor
<1>8. CASE \E p \in Pids : schedule(p)
  BY <1>1, <1>8 DEF schedule, OnBootDirectory, MapsFor
<1>9. CASE \E n \in CodeSizes : PageFault(n)
  BY <1>1, <1>9 DEF PageFault, OnBootDirectory, MapsFor
<1> QED
  BY <1>2, <1>3, <1>4, <1>5, <1>6, <1>7, <1>8, <1>9 DEF Next

(* The kernel's directory and tables when they are complete. *)
KernelFilled ==
  /\ mem[KD] = [i \in Index |->
                  IF i = Last THEN [frame |-> KD, flags |-> KernelFlags]
                  ELSE IF i = 0 THEN [frame |-> KL, flags |-> KernelFlags]
                  ELSE IF i = KernelIndex THEN [frame |-> KH, flags |-> KernelFlags]
                  ELSE NullEntry]
  /\ \A f \in {KL, KH} : mem[f] = [i \in Index |-> [frame |-> i, flags |-> KernelFlags]]
  /\ KernelFrames \subseteq {KD, KL, KH}

LEMMA KernelContents ==
  ASSUME PInv, ~OnBootDirectory
  PROVE  KernelFilled
<1> DEFINE h == handles[Kernel]
<1>1. pc # "boot" /\ Low > 0 /\ High > 0
  BY Numbers DEF OnBootDirectory, Low, High
<1>2. KernelShape(mem, h, Low, High)
  BY <1>1 DEF PInv, KernelInv
<1>3. /\ KD \in Frames /\ KL \in Frames /\ KH \in Frames /\ mem \in Memory
      /\ Maps(mem[KL], 0, Entries, KernelFlags) /\ Maps(mem[KH], 0, Entries, KernelFlags)
  BY SharedTables, Held
<1>4. Dir(h) = KD
  BY <1>2, <1>3, PageOf DEF KernelShape, Dir
<1>5. /\ Linked(mem, h, Last, KD, KernelFlags) /\ Linked(mem, h, 0, KL, KernelFlags)
      /\ Linked(mem, h, KernelIndex, KH, KernelFlags)
      /\ \A i \in Index \ {0, KernelIndex, Last} : Unlinked(mem, h, i)
  BY <1>1, <1>2 DEF KernelShape, TableFor
<1> HIDE DEF h
<1>6. mem[KD] = [i \in Index |->
                   IF i = Last THEN [frame |-> KD, flags |-> KernelFlags]
                   ELSE IF i = 0 THEN [frame |-> KL, flags |-> KernelFlags]
                   ELSE IF i = KernelIndex THEN [frame |-> KH, flags |-> KernelFlags]
                   ELSE NullEntry]
  <2>1. mem[KD] \in [Index -> Entry]
    BY <1>3 DEF Memory
  <2>2. \A i \in Index : mem[KD][i] =
          IF i = Last THEN [frame |-> KD, flags |-> KernelFlags]
          ELSE IF i = 0 THEN [frame |-> KL, flags |-> KernelFlags]
          ELSE IF i = KernelIndex THEN [frame |-> KH, flags |-> KernelFlags]
          ELSE NullEntry
    BY <1>4, <1>5 DEF Linked, Unlinked
  <2> QED
    BY <2>1, <2>2
<1>7. \A f \in {KL, KH} : mem[f] = [i \in Index |-> [frame |-> i, flags |-> KernelFlags]]
  <2> SUFFICES ASSUME NEW f \in {KL, KH}
               PROVE  mem[f] = [i \in Index |-> [frame |-> i, flags |-> KernelFlags]]
    OBVIOUS
  <2>1. mem[f] \in [Index -> Entry] /\ Maps(mem[f], 0, Entries, KernelFlags)
    BY <1>3 DEF Memory
  <2>2. \A i \in Index : mem[f][i] = [frame |-> i, flags |-> KernelFlags]
    <3> SUFFICES ASSUME NEW i \in Index
                 PROVE  mem[f][i] = [frame |-> i, flags |-> KernelFlags]
      OBVIOUS
    <3>1. i < Entries /\ 0 + i = i
      BY Indices, Numbers
    <3> QED
      BY <2>1, <3>1 DEF Maps
  <2> QED
    BY <2>1, <2>2
<1>8. KernelFrames \subseteq {KD, KL, KH}
  <2>1. At(KernelPage(KD)) = KD /\ At(KernelPage(KL)) = KL /\ At(KernelPage(KH)) = KH
    BY <1>3, KernelSeen
  <2>2. \A i \in Index : h.directory_virtual[i] # NULL => At(h.directory_virtual[i]) \in {KD, KL, KH}
    BY <1>5, <2>1 DEF Linked, Unlinked
  <2> QED
    BY <2>2 DEF KernelFrames, h
<1> QED
  BY <1>6, <1>7, <1>8 DEF KernelFilled

(* The kernel's directory and the tables it shares with all others         *)
(* (paging.c:199-204) are never written once tasks run.                    *)
THEOREM TablesFrozen == Spec => KernelTablesFrozen
<1> DEFINE Filled == ~OnBootDirectory => KernelFilled
<1>1. PInv => Filled
  BY KernelContents
<1>2. PInv /\ Filled /\ Filled' /\ [Next]_vars
        => [~Booting => \A f \in KernelFrames : mem'[f] = mem[f]]_vars
  <2> SUFFICES ASSUME PInv, Filled, Filled', Next, ~Booting, NEW f \in KernelFrames
               PROVE  mem'[f] = mem[f]
    OBVIOUS
  <2>1. ~OnBootDirectory /\ ~OnBootDirectory'
    BY Started, StaysStarted
  <2>2. KernelFilled /\ KernelFilled'
    BY <2>1
  <2>3. f \in {KD, KL, KH}
    BY <2>2 DEF KernelFilled
  <2> QED
    BY <2>2, <2>3 DEF KernelFilled
<1> QED
  BY <1>1, <1>2, PInvAlways, PTL DEF Spec, KernelTablesFrozen
=============================================================================
