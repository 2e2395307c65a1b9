-------------------------------- MODULE Heap --------------------------------
(***************************************************************************)
(* The kernel heap of src/src/memory/heap.c and kheap.c: a table with one  *)
(* byte per 4 KiB block, a next-fit search that resumes after the block    *)
(* allocated last, and a free that walks the table from the block it is    *)
(* given.  The search loop of find_first_block is one action per           *)
(* iteration; every other operation is one action, because interrupt       *)
(* handlers never allocate and the kernel has a single CPU.                *)
(*                                                                         *)
(* The table ends where the heap itself begins (kheap_init rounds the      *)
(* table's end up to base_addr, and 4096 entries fill their page exactly), *)
(* so entries[TableLen] and beyond are the first bytes of heap block 0.    *)
(* Reading there yields any byte, writing there is lost to the table.      *)
(* `spilled' remembers that such a byte had consequences: that a run was   *)
(* handed out which is not inside the heap, or that a free cleared bytes   *)
(* past the table.                                                         *)
(***************************************************************************)
EXTENDS Integers, FiniteSets

CONSTANTS
  TableLen,    \* kheap_table.len, KERNEL_HEAP_SIZE / KERNEL_HEAP_BLOCK_SIZE
  BlockSize,   \* KERNEL_HEAP_BLOCK_SIZE
  Sizes,       \* the sizes in bytes that callers ask for
  SizeMod,     \* 2^w of size_t, the width of in_use
  MaxSpill     \* bound: entries past the table that are ever reached

ASSUME HeapAssumption ==
  /\ TableLen \in Nat /\ TableLen > 1
  /\ BlockSize \in Nat \ {0}
  /\ Sizes \subseteq Nat
  /\ SizeMod \in Nat /\ SizeMod > TableLen
  /\ MaxSpill \in Nat \ {0}

VARIABLES
  entries,               \* heap_table.entries, as sets of flag bits
  in_use,                \* heap_table.in_use
  last_allocated_block,  \* heap.last_allocated_block
  pc,                    \* "idle", or "search" inside find_first_block
  n_blocks, i, found_block, remaining_blocks,  \* its locals
  owned,      \* ghost: owned[b] blocks were handed out at b, 0 if none are
  requested,  \* ghost: blocks asked for so far, saturating at TableLen
  spilled     \* ghost: see above

locals == <<n_blocks, i, found_block, remaining_blocks>>
vars == <<entries, in_use, last_allocated_block, pc, locals, owned,
          requested, spilled>>

Blocks    == 0..(TableLen - 1)
Addresses == 0..(TableLen + MaxSpill)   \* block indices a pointer may name
Flags     == {"TAKEN", "HAS_NEXT", "IS_FIRST"}
FREE      == {}                         \* HEAP_MEMORY_BLOCK_FREE
NotFound  == -1

(* The values the C expression heap_entries[b] can have. *)
Reads(b) == IF b < TableLen THEN {entries[b]} ELSE SUBSET Flags
-----------------------------------------------------------------------------
(* kheap_init and heap_create: an all-free table, the cursor at block 0. *)
Init ==
  /\ entries = [b \in Blocks |-> FREE]
  /\ in_use = 0
  /\ last_allocated_block = 0
  /\ pc = "idle"
  /\ n_blocks = 0 /\ i = 0 /\ found_block = NotFound /\ remaining_blocks = 0
  /\ owned = [b \in Addresses |-> 0]
  /\ requested = 0
  /\ spilled = FALSE

size_to_nblocks(size) ==
  size \div BlockSize + (IF size % BlockSize # 0 THEN 1 ELSE 0)

BUG_SearchFromLast == last_allocated_block
BUG_NoWrap(k) == k + 1

(* The two index expressions of the for statement of find_first_block. *)
FirstIndex == last_allocated_block + 1
NextIndex(k) == (k + 1) % TableLen

(* heap_malloc up to the loop of find_first_block.  A request for no block *)
(* returns NULL at once.  MaxSpill keeps the cursor, which can run past    *)
(* the table, within bounds.                                               *)
heap_malloc(size) ==
  LET n == size_to_nblocks(size) IN
  /\ pc = "idle" /\ n > 0
  /\ last_allocated_block < TableLen + MaxSpill
  /\ pc' = "search"
  /\ n_blocks' = n /\ remaining_blocks' = n
  /\ found_block' = NotFound
  /\ i' = FirstIndex
  /\ requested' = IF requested + n < TableLen THEN requested + n ELSE TableLen
  /\ UNCHANGED <<entries, in_use, last_allocated_block, owned, spilled>>

SearchOver == i = last_allocated_block \/ remaining_blocks = 0

BUG_NoDecrement ==
  /\ found_block' = IF found_block = NotFound THEN i ELSE found_block
  /\ remaining_blocks' = remaining_blocks
  /\ last_allocated_block' = i

(* A taken block restarts the run and resets the cursor to block 0 ... *)
BlockTaken ==
  /\ found_block' = NotFound /\ remaining_blocks' = n_blocks
  /\ last_allocated_block' = 0

(* ... a free one extends it and moves the cursor there. *)
BlockFree ==
  /\ found_block' = IF found_block = NotFound THEN i ELSE found_block
  /\ remaining_blocks' = remaining_blocks - 1
  /\ last_allocated_block' = i

(* One iteration of the loop of find_first_block. *)
find_first_block ==
  /\ pc = "search" /\ ~SearchOver
  /\ \E byte \in Reads(i) : \/ "TAKEN" \in byte /\ BlockTaken
                            \/ "TAKEN" \notin byte /\ BlockFree
  /\ i' = NextIndex(i)
  /\ UNCHANGED <<entries, in_use, pc, n_blocks, owned, requested, spilled>>

(* find_first_block gives up with -ENOMEM: heap_malloc returns NULL. *)
MallocFails ==
  /\ pc = "search" /\ SearchOver /\ remaining_blocks # 0
  /\ pc' = "idle"
  /\ UNCHANGED <<entries, in_use, last_allocated_block, locals, owned,
                 requested, spilled>>

(* The entry heap_reserve_blocks leaves in block b of the run it reserves. *)
Reserved(b) ==
  {"TAKEN"} \cup (IF b = found_block THEN {"IS_FIRST"} ELSE {})
            \cup (IF b = found_block + n_blocks - 1 THEN {} ELSE {"HAS_NEXT"})

BUG_ReserveShort == found_block + n_blocks - 1

EndBlock == found_block + n_blocks

heap_reserve_blocks ==
  entries' = [b \in Blocks |-> IF found_block <= b /\ b < EndBlock
                               THEN Reserved(b) ELSE entries[b]]

(* heap_malloc_blocks once the search has succeeded. *)
heap_malloc_blocks ==
  /\ pc = "search" /\ remaining_blocks = 0
  /\ heap_reserve_blocks
  /\ in_use' = (in_use + n_blocks) % SizeMod
  /\ owned' = [owned EXCEPT ![found_block] = n_blocks]
  /\ spilled' = (spilled \/ found_block + n_blocks > TableLen)
  /\ pc' = "idle"
  /\ UNCHANGED <<last_allocated_block, locals, requested>>
-----------------------------------------------------------------------------
BUG_WalkPastFirst(b) ==
  {c \in Blocks : b <= c /\ \A k \in (b + 1)..c : entries[k] # FREE}

(* The blocks heap_free clears: b, and every following one up to the first *)
(* that is free or starts another region.                                  *)
Walk(b) ==
  {c \in Blocks : /\ b <= c
                  /\ \A k \in (b + 1)..c : /\ entries[k] # FREE
                                           /\ "IS_FIRST" \notin entries[k]}

(* in_use after k decrements. *)
InUseLess(k) == (in_use - k) % SizeMod

(* heap_free(ptr) for the block b of ptr when its entry is marked first.   *)
(* A walk that reaches the table's end goes on over the bytes of block 0,  *)
(* clearing `spill' of them, each counted in in_use.                       *)
heap_free(b) ==
  /\ pc = "idle"
  /\ b < TableLen \/ owned[b] > 0
  /\ \E byte \in Reads(b) : "IS_FIRST" \in byte
  /\ \E spill \in 0..MaxSpill :
       /\ spill > 0 => b >= TableLen \/ TableLen - 1 \in Walk(b)
       /\ entries' = [c \in Blocks |-> IF c \in Walk(b) THEN FREE
                                                        ELSE entries[c]]
       /\ in_use' = InUseLess(Cardinality(Walk(b)) + spill)
       /\ spilled' = (spilled \/ b >= TableLen \/ spill > 0)
  /\ owned' = [owned EXCEPT ![b] = 0]
  /\ UNCHANGED <<last_allocated_block, pc, locals, requested>>

(* heap_free returns early when the entry is not marked first: the table   *)
(* is unchanged.  A second free of the same pointer usually ends here.     *)
FreeIgnored(b) ==
  /\ pc = "idle"
  /\ b < TableLen \/ owned[b] > 0
  /\ \E byte \in Reads(b) : "IS_FIRST" \notin byte
  /\ UNCHANGED vars

Search == find_first_block \/ MallocFails \/ heap_malloc_blocks

Next ==
  \/ \E size \in Sizes : heap_malloc(size)
  \/ Search
  \/ \E b \in Addresses : heap_free(b) \/ FreeIgnored(b)

Spec == Init /\ [][Next]_vars

(* The loop runs with nothing to wait for: the CPU keeps executing it. *)
FairSpec == Spec /\ WF_vars(Search)
-----------------------------------------------------------------------------
(* Properties. *)

Region(b) == b..(b + owned[b] - 1)

Taken == {b \in Blocks : "TAKEN" \in entries[b]}   \* count_used_blocks' set

(* Every variable keeps its C type, and the cursor and the index stay      *)
(* within MaxSpill entries of the table (find_first_block, heap.c:63-77).  *)
TypeOK ==
  /\ entries \in [Blocks -> SUBSET Flags]
  /\ in_use \in 0..(SizeMod - 1)
  /\ last_allocated_block \in Addresses
  /\ pc \in {"idle", "search"}
  /\ n_blocks \in Nat
  /\ i \in Addresses
  /\ found_block \in Addresses \cup {NotFound}
  /\ remaining_blocks \in 0..n_blocks
  /\ owned \in [Addresses -> Nat]
  /\ requested \in 0..TableLen
  /\ spilled \in BOOLEAN

(* Two live allocations never share a block, and each lies in the heap,    *)
(* however the search wraps around, restarts and skips (heap.c:63-77), as  *)
(* long as nothing spilled past the table.                                 *)
RegionsDisjoint ==
  ~spilled => \A a \in Addresses :
                /\ Region(a) \subseteq Blocks
                /\ \A b \in Addresses \ {a} : Region(a) \cap Region(b) = {}

(* The table describes exactly the live allocations: a block is non-free   *)
(* iff some caller holds it, and IS_FIRST marks the start of each region   *)
(* and nothing else.  heap_free relies on this to find where a region      *)
(* ends, since no length is stored anywhere (heap.c:154-160).              *)
TableMatchesOwners ==
  ~spilled => \A b \in Blocks :
                /\ entries[b] # FREE <=> \E a \in Addresses : b \in Region(a)
                /\ "TAKEN" \in entries[b] <=> entries[b] # FREE
                /\ "IS_FIRST" \in entries[b] <=> owned[b] > 0

(* kheap_used (kheap.c:91-94), which reads the counter in_use, agrees with *)
(* kheap_count_used_blocks (heap.c:163-173), which counts the table.       *)
InUseExact == ~spilled => in_use = Cardinality(Taken)

(* Live allocations are disjoint, and the table and the counter describe   *)
(* exactly them, after any order of allocations and frees of different     *)
(* sizes, as long as nothing spilled past the table (heap.c:86-161).       *)
TableExact == RegionsDisjoint /\ TableMatchesOwners /\ InUseExact

(* Until the last block of the table is asked for, whatever is freed       *)
(* meanwhile, the heap is a bump allocator: nothing spills, no search      *)
(* gives up with -ENOMEM, the cursor stands on the last block handed out,  *)
(* and no block above it was ever touched (heap.c:63-77).  One block       *)
(* further, heap_free of the region at the table's end already walks past  *)
(* it (heap.c:156).                                                        *)
BumpRegime ==
  requested < TableLen - 1 =>
    /\ ~spilled
    /\ pc = "idle" => last_allocated_block = requested
    /\ pc = "search" /\ SearchOver => remaining_blocks = 0
    /\ \A b \in Blocks : b > last_allocated_block => entries[b] = FREE

(* In that regime every search ends (the loop condition of heap.c:63). *)
SearchEndsInBumpRegime ==
  (pc = "search" /\ requested < TableLen - 1) ~> (pc = "idle")

(* The heap implements the abstract allocator: what a request returns was  *)
(* free, what a free gives back is that region and nothing else            *)
(* (heap.c:113-126, 140-161).                                              *)
Alloc == INSTANCE Allocator WITH broken <- spilled

AllocatorSpec == Alloc!Spec
=============================================================================
