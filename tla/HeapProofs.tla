----------------------------- MODULE HeapProofs -----------------------------
(***************************************************************************)
(* The heap's invariants for every table length, block size and set of     *)
(* request sizes.  The search is the hard part: SearchInv says which       *)
(* blocks the half-finished run of find_first_block stands for, wrapped    *)
(* around or not.                                                          *)
(***************************************************************************)
EXTENDS Heap, FiniteSetTheorems, TLAPS

(* The index expression of the loop is a remainder: it stays in the table, *)
(* and below the end it is the successor (heap.c:63).                      *)
LEMMA NextIndexInTable ==
  ASSUME NEW k \in Nat
  PROVE  /\ NextIndex(k) \in Blocks
         /\ k + 1 < TableLen => NextIndex(k) = k + 1
<1>1. TableLen \in Nat /\ TableLen > 1
  BY HeapAssumption
<1>2. (k + 1) % TableLen \in 0..(TableLen - 1)
  BY <1>1
<1>3. k + 1 < TableLen => (k + 1) % TableLen = k + 1
  BY <1>1
<1> QED
  BY <1>2, <1>3 DEF NextIndex, Blocks

(* A size of size_t below its modulus is kept. *)
LEMMA ModSmall ==
  ASSUME NEW k \in Nat, k < SizeMod
  PROVE  k % SizeMod = k
BY HeapAssumption

(* The number of blocks a size needs is a natural number (heap.c:52). *)
LEMMA NblocksNat ==
  ASSUME NEW size \in Sizes
  PROVE  size_to_nblocks(size) \in Nat
<1>1. size \in Nat /\ BlockSize \in Nat \ {0}
  BY HeapAssumption
<1>2. size \div BlockSize \in Nat
  BY <1>1
<1> QED
  BY <1>1, <1>2 DEF size_to_nblocks
-----------------------------------------------------------------------------
(* What the locals of find_first_block mean while it runs: the blocks from *)
(* found_block on that have been counted are free as far as they are in    *)
(* the table, and the index stands right after them until it wraps         *)
(* (heap.c:60-77).                                                         *)
Counted == n_blocks - remaining_blocks

SearchInv ==
  pc = "search" =>
    /\ n_blocks > 0
    /\ found_block = NotFound => remaining_blocks = n_blocks
    /\ found_block # NotFound =>
         /\ Counted > 0
         /\ \A j \in Blocks : found_block <= j /\ j < found_block + Counted
                                => "TAKEN" \notin entries[j]
         /\ found_block + Counted < TableLen => i = found_block + Counted

TypeInv == TypeOK /\ SearchInv

(* Init establishes the types and the meaning of the locals. *)
LEMMA TypeInvInit == Init => TypeInv
<1> SUFFICES ASSUME Init PROVE TypeInv
  OBVIOUS
<1> USE HeapAssumption
<1>1. TypeOK
  <2>1. entries \in [Blocks -> SUBSET Flags]
    BY DEF Init, FREE
  <2>2. owned \in [Addresses -> Nat]
    BY DEF Init
  <2>3. spilled \in BOOLEAN
    BY DEF Init
  <2> QED
    BY <2>1, <2>2, <2>3 DEF Init, TypeOK, Addresses, NotFound
<1>2. SearchInv
  BY DEF Init, SearchInv
<1> QED
  BY <1>1, <1>2 DEF TypeInv

(* A free never leaves the search's types (heap.c:140-161). *)
LEMMA FreeType ==
  ASSUME TypeInv, NEW b \in Addresses, heap_free(b)
  PROVE  TypeInv'
<1> USE HeapAssumption
<1>1. Walk(b) \subseteq Blocks /\ IsFiniteSet(Blocks)
  BY FS_Interval DEF Walk, Blocks
<1>2. Cardinality(Walk(b)) \in Nat
  BY <1>1, FS_Subset, FS_CardinalityType
<1>3. ASSUME NEW spill \in 0..MaxSpill
      PROVE  InUseLess(Cardinality(Walk(b)) + spill) \in 0..(SizeMod - 1)
  <2>1. in_use - (Cardinality(Walk(b)) + spill) \in Int
    BY <1>2 DEF TypeInv, TypeOK
  <2> QED
    BY <2>1 DEF InUseLess
<1>4. in_use' \in 0..(SizeMod - 1)
  BY <1>3 DEF heap_free
<1>5. entries' \in [Blocks -> SUBSET Flags]
  BY DEF heap_free, TypeInv, TypeOK, FREE
<1>6. owned' \in [Addresses -> Nat] /\ spilled' \in BOOLEAN
  BY DEF heap_free, TypeInv, TypeOK
<1>7. TypeOK'
  BY <1>4, <1>5, <1>6 DEF heap_free, TypeInv, TypeOK, locals, Addresses
<1>8. SearchInv'
  BY DEF heap_free, SearchInv, locals
<1> QED
  BY <1>7, <1>8 DEF TypeInv

(* One iteration keeps the meaning of the locals (heap.c:63-77). *)
LEMMA SearchStepType ==
  ASSUME TypeInv, find_first_block
  PROVE  TypeInv'
<1> USE HeapAssumption
<1>1. i \in Nat /\ i' = NextIndex(i) /\ i' \in Blocks /\ i' \in Addresses
  BY NextIndexInTable DEF find_first_block, TypeInv, TypeOK, Addresses, Blocks
<1>2. remaining_blocks # 0 /\ remaining_blocks \in 1..n_blocks /\ n_blocks \in Nat
  BY DEF find_first_block, SearchOver, TypeInv, TypeOK
<1>3. PICK byte \in Reads(i) : \/ "TAKEN" \in byte /\ BlockTaken
                               \/ "TAKEN" \notin byte /\ BlockFree
  BY DEF find_first_block
<1>4. CASE BlockTaken
  <2>1. TypeOK'
    BY <1>1, <1>2, <1>4
       DEF BlockTaken, find_first_block, TypeInv, TypeOK, Addresses, NotFound
  <2>2. SearchInv'
    BY <1>4, <1>2 DEF BlockTaken, find_first_block, TypeInv, SearchInv, NotFound
  <2> QED
    BY <2>1, <2>2 DEF TypeInv
<1>5. CASE "TAKEN" \notin byte /\ BlockFree
  <2>1. TypeOK'
    BY <1>1, <1>2, <1>5
       DEF BlockFree, find_first_block, TypeInv, TypeOK, NotFound
  <2>2. i < TableLen => "TAKEN" \notin entries[i]
    BY <1>3, <1>5 DEF Reads
  <2>3. i + 1 < TableLen => i' = i + 1
    BY <1>1, NextIndexInTable
  <2>4. pc = "search" /\ pc' = "search" /\ entries' = entries /\ n_blocks' = n_blocks
    BY DEF find_first_block
  <2>5. Counted' = Counted + 1 /\ Counted \in Nat
    BY <1>2, <1>5, <2>4 DEF Counted, BlockFree
  <2>6. CASE found_block = NotFound
    <3>1. found_block' = i /\ Counted = 0
      BY <2>6, <1>5, <2>4, <1>2 DEF BlockFree, SearchInv, TypeInv, Counted
    <3>2. \A j \in Blocks : found_block' <= j /\ j < found_block' + Counted'
                              => "TAKEN" \notin entries'[j]
      BY <3>1, <2>5, <2>2, <2>4, <1>1 DEF Blocks
    <3> QED
      BY <3>1, <3>2, <2>1, <2>3, <2>4, <2>5, <1>1
         DEF TypeInv, SearchInv, NotFound
  <2>7. CASE found_block # NotFound
    <3>1. found_block' = found_block /\ found_block \in Nat
      BY <2>7, <1>5 DEF BlockFree, TypeInv, TypeOK, Addresses
    <3>2. /\ \A j \in Blocks : found_block <= j /\ j < found_block + Counted
                                 => "TAKEN" \notin entries[j]
          /\ found_block + Counted < TableLen => i = found_block + Counted
      BY <2>7, <2>4 DEF TypeInv, SearchInv
    <3>3. \A j \in Blocks : found_block' <= j /\ j < found_block' + Counted'
                              => "TAKEN" \notin entries'[j]
      BY <3>1, <3>2, <2>5, <2>2, <2>4, <1>1 DEF Blocks
    <3>4. found_block' + Counted' < TableLen => i' = found_block' + Counted'
      BY <3>1, <3>2, <2>5, <2>3
    <3> QED
      BY <3>1, <3>3, <3>4, <2>1, <2>4, <2>5, <2>7
         DEF TypeInv, SearchInv, NotFound
  <2> QED
    BY <2>6, <2>7
<1> QED
  BY <1>3, <1>4, <1>5

(* Every step keeps the types and the meaning of the locals. *)
LEMMA TypeInvNext == TypeInv /\ [Next]_vars => TypeInv'
<1> SUFFICES ASSUME TypeInv, [Next]_vars PROVE TypeInv'
  OBVIOUS
<1> USE HeapAssumption
<1>1. ASSUME NEW size \in Sizes, heap_malloc(size) PROVE TypeInv'
  <2>1. size_to_nblocks(size) \in Nat
    BY NblocksNat
  <2>2. TypeOK'
    BY <1>1, <2>1 DEF heap_malloc, TypeInv, TypeOK, FirstIndex, Addresses
  <2>3. SearchInv'
    BY <1>1, <2>1 DEF heap_malloc, SearchInv
  <2> QED
    BY <2>2, <2>3 DEF TypeInv
<1>2. CASE find_first_block
  BY <1>2, SearchStepType
<1>3. CASE MallocFails
  BY <1>3 DEF MallocFails, TypeInv, TypeOK, SearchInv, locals
<1>4. CASE heap_malloc_blocks
  <2>1. found_block \in Addresses /\ n_blocks \in Nat
    BY <1>4 DEF heap_malloc_blocks, TypeInv, TypeOK, SearchInv, Addresses
  <2>2. in_use' \in 0..(SizeMod - 1)
    BY <1>4, <2>1 DEF heap_malloc_blocks, TypeInv, TypeOK
  <2>3. entries' \in [Blocks -> SUBSET Flags]
    <3>1. \A b \in Blocks : Reserved(b) \in SUBSET Flags
      BY DEF Reserved, Flags
    <3> QED
      BY <1>4, <3>1 DEF heap_malloc_blocks, heap_reserve_blocks, TypeInv, TypeOK
  <2>4. owned' \in [Addresses -> Nat]
    BY <1>4, <2>1 DEF heap_malloc_blocks, TypeInv, TypeOK
  <2>5. TypeOK'
    BY <1>4, <2>2, <2>3, <2>4 DEF heap_malloc_blocks, TypeInv, TypeOK, locals
  <2>6. SearchInv'
    BY <1>4 DEF heap_malloc_blocks, SearchInv
  <2> QED
    BY <2>5, <2>6 DEF TypeInv
<1>5. ASSUME NEW b \in Addresses, heap_free(b) PROVE TypeInv'
  BY <1>5, FreeType
<1>6. ASSUME UNCHANGED vars PROVE TypeInv'
  BY <1>6 DEF vars, locals, TypeInv, TypeOK, SearchInv, Counted
<1> QED
  BY <1>1, <1>2, <1>3, <1>4, <1>5, <1>6 DEF Next, Search, FreeIgnored

(* Type correctness of the heap for every constant. *)
THEOREM TypeCorrect == Spec => []TypeOK
<1>1. TypeInv => TypeOK
  BY DEF TypeInv
<1> QED
  BY <1>1, TypeInvInit, TypeInvNext, PTL DEF Spec
-----------------------------------------------------------------------------
(* The table agrees with the callers as long as nothing spilled. *)
Agree == RegionsDisjoint /\ TableMatchesOwners

IInv == TypeInv /\ Agree /\ InUseExact

(* heap_free has no length to go by, yet clears exactly the region that    *)
(* starts at b: the next non-free block after it would have to lie inside  *)
(* another region that starts before it, and would overlap (heap.c:156).   *)
LEMMA WalkIsRegion ==
  ASSUME TypeOK, Agree, ~spilled, NEW b \in Blocks, owned[b] > 0
  PROVE  Walk(b) = Region(b)
<1> USE HeapAssumption
<1>1. /\ \A a \in Addresses : Region(a) \subseteq Blocks
      /\ \A a, c \in Addresses : a # c => Region(a) \cap Region(c) = {}
      /\ \A k \in Blocks : /\ entries[k] # FREE <=> \E a \in Addresses : k \in Region(a)
                           /\ "IS_FIRST" \in entries[k] <=> owned[k] > 0
  BY DEF Agree, RegionsDisjoint, TableMatchesOwners
<1>2. Blocks \subseteq Addresses /\ Addresses \subseteq Nat
  BY DEF Blocks, Addresses
<1>3. \A a \in Addresses : owned[a] \in Nat
  BY DEF TypeOK
<1>4. ASSUME NEW c \in Region(b) PROVE c \in Walk(b)
  <2>1. c \in Blocks
    BY <1>1, <1>2
  <2>2. b <= c /\ b \in Nat /\ c < b + owned[b] /\ owned[b] \in Nat
    BY <1>2, <1>3 DEF Region
  <2>3. ASSUME NEW k \in (b + 1)..c
        PROVE  entries[k] # FREE /\ "IS_FIRST" \notin entries[k]
    <3>1. k \in Region(b) /\ k \in Blocks /\ k # b
      BY <2>1, <2>2 DEF Region, Blocks
    <3>2. ASSUME owned[k] > 0 PROVE FALSE
      <4>1. k \in Region(k)
        BY <3>1, <3>2, <1>2, <1>3 DEF Region
      <4> QED
        BY <4>1, <3>1, <1>1, <1>2
    <3> QED
      BY <3>1, <3>2, <1>1, <1>2
  <2> QED
    BY <2>1, <2>2, <2>3 DEF Walk
<1>5. ASSUME NEW c \in Walk(b) PROVE c \in Region(b)
  <2>1. c \in Blocks /\ b <= c
    BY DEF Walk
  <2> SUFFICES ASSUME c >= b + owned[b] PROVE FALSE
    BY <2>1, <1>2, <1>3 DEF Region, Blocks
  <2> DEFINE k == b + owned[b]
  <2>2. k \in (b + 1)..c /\ k \in Blocks
    BY <2>1, <1>2, <1>3 DEF Blocks
  <2>3. entries[k] # FREE /\ "IS_FIRST" \notin entries[k]
    BY <2>2 DEF Walk
  <2>4. PICK a \in Addresses : k \in Region(a)
    BY <2>2, <2>3, <1>1
  <2>5. a # k
    BY <2>2, <2>3, <2>4, <1>1, <1>3 DEF Region
  <2>6. k - 1 \in Region(a) /\ k - 1 \in Region(b)
    BY <2>4, <2>5, <2>2, <1>2, <1>3 DEF Region
  <2>7. a # b
    BY <2>4, <1>2, <1>3 DEF Region
  <2> QED
    BY <2>6, <2>7, <1>1, <1>2
<1> QED
  BY <1>4, <1>5

(* The run that the search found is free, and nobody holds any of it       *)
(* (heap.c:113-121).                                                       *)
LEMMA RunFound ==
  ASSUME TypeInv, Agree, ~spilled, pc = "search", remaining_blocks = 0,
         found_block + n_blocks <= TableLen
  PROVE  /\ found_block \in Blocks /\ n_blocks \in 1..TableLen
         /\ found_block..(EndBlock - 1) \subseteq Blocks
         /\ \A j \in found_block..(EndBlock - 1) : entries[j] = FREE
         /\ \A a \in Addresses : Region(a) \cap (found_block..(EndBlock - 1)) = {}
         /\ owned[found_block] = 0
<1> USE HeapAssumption
<1>1. found_block \in Nat /\ n_blocks \in Nat \ {0} /\ Counted = n_blocks
  BY DEF TypeInv, TypeOK, SearchInv, Counted, Addresses, NotFound
<1>2. found_block \in Blocks /\ n_blocks \in 1..TableLen
  BY <1>1 DEF Blocks
<1>3. found_block..(EndBlock - 1) \subseteq Blocks
  BY <1>1 DEF EndBlock, Blocks
<1>4. \A j \in found_block..(EndBlock - 1) : entries[j] = FREE
  BY <1>1, <1>3 DEF TypeInv, SearchInv, EndBlock, Agree, TableMatchesOwners, NotFound
<1>5. \A a \in Addresses : Region(a) \cap (found_block..(EndBlock - 1)) = {}
  BY <1>3, <1>4 DEF Agree, TableMatchesOwners
<1>6. owned[found_block] = 0
  <2>1. found_block \in found_block..(EndBlock - 1)
    BY <1>1 DEF EndBlock
  <2>2. "IS_FIRST" \notin entries[found_block]
    BY <2>1, <1>4 DEF FREE
  <2>3. owned[found_block] \in Nat
    BY <1>2 DEF TypeInv, TypeOK, Addresses, Blocks
  <2> QED
    BY <1>2, <2>2, <2>3 DEF Agree, TableMatchesOwners
<1> QED
  BY <1>2, <1>3, <1>4, <1>5, <1>6

(* A successful request keeps the table and the owners in agreement, and   *)
(* the counter exact (heap.c:121-123).                                     *)
LEMMA MallocAgrees ==
  ASSUME IInv, heap_malloc_blocks
  PROVE  (Agree /\ InUseExact)'
<1> USE HeapAssumption
<1>0. CASE spilled'
  BY <1>0 DEF Agree, RegionsDisjoint, TableMatchesOwners, InUseExact
<1> SUFFICES ASSUME ~spilled' PROVE (Agree /\ InUseExact)'
  BY <1>0
<1> DEFINE R == found_block..(EndBlock - 1)
<1>1. ~spilled /\ found_block + n_blocks <= TableLen
  <2>1. found_block \in Int /\ n_blocks \in Int
    BY DEF IInv, TypeInv, TypeOK, Addresses, NotFound
  <2>2. ~(spilled \/ found_block + n_blocks > TableLen)
    BY Zenon DEF heap_malloc_blocks
  <2> QED
    BY <2>1, <2>2
<1>2. /\ found_block \in Blocks /\ n_blocks \in 1..TableLen
      /\ R \subseteq Blocks
      /\ \A j \in R : entries[j] = FREE
      /\ \A a \in Addresses : Region(a) \cap R = {}
      /\ owned[found_block] = 0
  BY <1>1, RunFound DEF IInv, heap_malloc_blocks
<1>3. found_block \in Addresses /\ Blocks \subseteq Addresses /\ Addresses \subseteq Nat
  BY <1>2 DEF Blocks, Addresses
<1>4. \A a \in Addresses : owned'[a] = IF a = found_block THEN n_blocks ELSE owned[a]
  BY <1>3 DEF heap_malloc_blocks, IInv, TypeInv, TypeOK
<1>5. \A a \in Addresses : Region(a)' = IF a = found_block THEN R ELSE Region(a)
  <2> SUFFICES ASSUME NEW a \in Addresses
               PROVE  Region(a)' = IF a = found_block THEN R ELSE Region(a)
    OBVIOUS
  <2>1. Region(a)' = a..(a + owned'[a] - 1) /\ Region(a) = a..(a + owned[a] - 1)
    BY DEF Region
  <2>2. R = found_block..(found_block + n_blocks - 1)
    BY <1>2 DEF EndBlock, Blocks
  <2> QED
    BY <2>1, <2>2, <1>4
<1>6. \A b \in Blocks : entries'[b] = IF b \in R THEN Reserved(b) ELSE entries[b]
  BY <1>2 DEF heap_malloc_blocks, heap_reserve_blocks, EndBlock, Blocks
<1>7. RegionsDisjoint'
  <2>1. \A a \in Addresses :
          /\ Region(a) \subseteq Blocks
          /\ \A c \in Addresses \ {a} : Region(a) \cap Region(c) = {}
    BY <1>1 DEF IInv, Agree, RegionsDisjoint
  <2>2. ASSUME NEW a \in Addresses, NEW c \in Addresses \ {a}
        PROVE  Region(a)' \subseteq Blocks /\ Region(a)' \cap Region(c)' = {}
    <3> HIDE DEF R
    <3> QED
      BY <2>1, <1>2, <1>5
  <2>3. ASSUME NEW a \in Addresses PROVE Region(a)' \subseteq Blocks
    BY <2>1, <1>2, <1>3, <1>5
  <2> QED
    BY <2>2, <2>3 DEF RegionsDisjoint
<1>8. TableMatchesOwners'
  <2> SUFFICES ASSUME NEW b \in Blocks
               PROVE  /\ entries'[b] # FREE <=> \E a \in Addresses : b \in Region(a)'
                      /\ "TAKEN" \in entries'[b] <=> entries'[b] # FREE
                      /\ "IS_FIRST" \in entries'[b] <=> owned'[b] > 0
    BY DEF TableMatchesOwners
  <2>1. /\ entries[b] # FREE <=> \E a \in Addresses : b \in Region(a)
        /\ "TAKEN" \in entries[b] <=> entries[b] # FREE
        /\ "IS_FIRST" \in entries[b] <=> owned[b] > 0
    BY <1>1 DEF IInv, Agree, TableMatchesOwners
  <2>2. CASE b \in R
    <3>1. entries'[b] = Reserved(b) /\ "TAKEN" \in Reserved(b) /\ Reserved(b) # FREE
      BY <2>2, <1>6 DEF Reserved, FREE
    <3>2. \E a \in Addresses : b \in Region(a)'
      BY <2>2, <1>3, <1>5
    <3>3. entries[b] = FREE /\ owned[b] \in Nat
      BY <2>2, <1>2, <1>3 DEF IInv, TypeInv, TypeOK
    <3>4. "IS_FIRST" \in Reserved(b) <=> b = found_block
      BY DEF Reserved
    <3>5. owned'[b] > 0 <=> b = found_block
      BY <1>4, <1>3, <1>2, <3>3, <2>1 DEF FREE
    <3> QED
      BY <3>1, <3>2, <3>4, <3>5, <1>3
  <2>3. CASE b \notin R
    <3>1. entries'[b] = entries[b] /\ b # found_block /\ b \in Addresses
      BY <2>3, <1>6, <1>2, <1>3 DEF EndBlock
    <3>2. owned'[b] = owned[b]
      BY <3>1, <1>4
    <3>3. (\E a \in Addresses : b \in Region(a)') <=> (\E a \in Addresses : b \in Region(a))
      <4>1. Region(found_block) = {}
        BY <1>2, <1>3 DEF Region
      <4> QED
        BY <4>1, <2>3, <1>3, <1>5
    <3> QED
      BY <2>1, <3>1, <3>2, <3>3
  <2> QED
    BY <2>2, <2>3
<1>9. InUseExact'
  <2>1. Taken' = Taken \cup R /\ Taken \cap R = {} /\ Taken' \subseteq Blocks
    BY <1>2, <1>6 DEF Taken, Reserved, FREE
  <2>2. IsFiniteSet(Blocks) /\ Cardinality(Blocks) = TableLen
    BY FS_Interval DEF Blocks
  <2>3. IsFiniteSet(R) /\ Cardinality(R) = n_blocks
    BY FS_Interval, <1>2 DEF EndBlock, Blocks
  <2>4. IsFiniteSet(Taken) /\ IsFiniteSet(Taken') /\ Cardinality(Taken') <= TableLen
    BY <2>1, <2>2, FS_Subset DEF Taken
  <2>5. Cardinality(Taken \cap R) = 0
    BY <2>1, FS_EmptySet
  <2>6. /\ Cardinality(Taken') = Cardinality(Taken) + n_blocks
        /\ Cardinality(Taken') \in Nat /\ Cardinality(Taken) \in Nat
    <3>1. Cardinality(Taken \cup R)
            = Cardinality(Taken) + Cardinality(R) - Cardinality(Taken \cap R)
      BY <2>3, <2>4, FS_Union
    <3>2. Cardinality(Taken') \in Nat /\ Cardinality(Taken) \in Nat
      BY <2>4, FS_CardinalityType
    <3> QED
      BY <3>1, <3>2, <2>1, <2>3, <2>5, <1>2
  <2>7. in_use = Cardinality(Taken)
    BY <1>1 DEF IInv, InUseExact
  <2>8. in_use' = Cardinality(Taken') % SizeMod
    BY <2>6, <2>7 DEF heap_malloc_blocks
  <2>9. Cardinality(Taken') < SizeMod
    BY <2>4, <2>6
  <2> QED
    BY <2>6, <2>8, <2>9, ModSmall DEF InUseExact
<1> QED
  BY <1>7, <1>8, <1>9 DEF Agree

(* When nothing spills, a free acts on one live region inside the heap. *)
LEMMA FreeInside ==
  ASSUME IInv, NEW b \in Addresses, heap_free(b), ~spilled'
  PROVE  /\ ~spilled /\ b \in Blocks /\ owned[b] > 0
         /\ Walk(b) = Region(b)
         /\ in_use' = InUseLess(Cardinality(Walk(b)))
<1> USE HeapAssumption
<1>1. PICK spill \in 0..MaxSpill :
        /\ in_use' = InUseLess(Cardinality(Walk(b)) + spill)
        /\ spilled' = (spilled \/ b >= TableLen \/ spill > 0)
  BY DEF heap_free
<1>2. ~spilled /\ b < TableLen /\ spill = 0
  <2>1. ~(spilled \/ b >= TableLen \/ spill > 0)
    BY <1>1, Zenon
  <2> QED
    BY <2>1 DEF Addresses
<1>3. b \in Blocks
  BY <1>2 DEF Addresses, Blocks
<1>4. "IS_FIRST" \in entries[b]
  BY <1>2 DEF heap_free, Reads
<1>5. owned[b] > 0
  BY <1>2, <1>3, <1>4 DEF IInv, Agree, TableMatchesOwners
<1>6. Walk(b) = Region(b)
  BY <1>2, <1>3, <1>5, WalkIsRegion DEF IInv, TypeInv
<1>7. Cardinality(Walk(b)) + 0 = Cardinality(Walk(b))
  <2>1. Walk(b) \subseteq Blocks /\ IsFiniteSet(Blocks)
    BY FS_Interval DEF Walk, Blocks
  <2>2. Cardinality(Walk(b)) \in Nat
    BY <2>1, FS_Subset, FS_CardinalityType
  <2> QED
    BY <2>2
<1> QED
  BY <1>1, <1>2, <1>3, <1>5, <1>6, <1>7

(* A free keeps the table and the owners in agreement, and the counter     *)
(* exact (heap.c:149-160).                                                 *)
LEMMA FreeAgrees ==
  ASSUME IInv, NEW b \in Addresses, heap_free(b)
  PROVE  (Agree /\ InUseExact)'
<1> USE HeapAssumption
<1>0. CASE spilled'
  BY <1>0 DEF Agree, RegionsDisjoint, TableMatchesOwners, InUseExact
<1> SUFFICES ASSUME ~spilled' PROVE (Agree /\ InUseExact)'
  BY <1>0
<1>1. /\ ~spilled /\ b \in Blocks /\ owned[b] > 0
      /\ Walk(b) = Region(b)
      /\ in_use' = InUseLess(Cardinality(Walk(b)))
  BY FreeInside
<1>2. Blocks \subseteq Addresses /\ Addresses \subseteq Nat
  BY DEF Blocks, Addresses
<1>3. \A a \in Addresses : owned'[a] = IF a = b THEN 0 ELSE owned[a]
  BY DEF heap_free, IInv, TypeInv, TypeOK
<1>4. \A a \in Addresses : Region(a)' = IF a = b THEN {} ELSE Region(a)
  BY <1>2, <1>3 DEF Region
<1>5. \A c \in Blocks : entries'[c] = IF c \in Region(b) THEN FREE ELSE entries[c]
  BY <1>1 DEF heap_free
<1>6. RegionsDisjoint'
  BY <1>1, <1>4 DEF IInv, Agree, RegionsDisjoint
<1>7. /\ \A a \in Addresses : a # b => Region(a) \cap Region(b) = {}
      /\ \A c \in Blocks : /\ entries[c] # FREE <=> \E a \in Addresses : c \in Region(a)
                           /\ "TAKEN" \in entries[c] <=> entries[c] # FREE
                           /\ "IS_FIRST" \in entries[c] <=> owned[c] > 0
  BY <1>1 DEF IInv, Agree, RegionsDisjoint, TableMatchesOwners
<1>8. TableMatchesOwners'
  <2> SUFFICES ASSUME NEW c \in Blocks
               PROVE  /\ entries'[c] # FREE <=> \E a \in Addresses : c \in Region(a)'
                      /\ "TAKEN" \in entries'[c] <=> entries'[c] # FREE
                      /\ "IS_FIRST" \in entries'[c] <=> owned'[c] > 0
    BY DEF TableMatchesOwners
  <2>1. CASE c \in Region(b)
    <3>1. entries'[c] = FREE /\ ~ \E a \in Addresses : c \in Region(a)'
      BY <2>1, <1>4, <1>5, <1>7
    <3>2. owned'[c] = 0
      <4>1. CASE c = b
        BY <4>1, <1>3
      <4>2. CASE c # b
        <5>1. c \notin Region(c) /\ owned[c] \in Nat /\ c \in Nat
          BY <4>2, <2>1, <1>7, <1>2 DEF IInv, TypeInv, TypeOK
        <5>2. owned[c] = 0
          BY <5>1 DEF Region
        <5> QED
          BY <5>2, <4>2, <1>2, <1>3
      <4> QED
        BY <4>1, <4>2
    <3> QED
      BY <3>1, <3>2 DEF FREE
  <2>2. CASE c \notin Region(b)
    <3>1. entries'[c] = entries[c]
      BY <2>2, <1>5
    <3>2. c # b
      BY <2>2, <1>1, <1>2 DEF Region, IInv, TypeInv, TypeOK
    <3>3. owned'[c] = owned[c]
      BY <3>2, <1>3, <1>2
    <3> QED
      BY <2>2, <3>1, <3>3, <1>4, <1>7
  <2> QED
    BY <2>1, <2>2
<1>9. InUseExact'
  <2>1. Region(b) \subseteq Taken /\ Taken' = Taken \ Region(b) /\ Taken \subseteq Blocks
    <3>1. Region(b) \subseteq Blocks
      BY <1>1 DEF IInv, Agree, RegionsDisjoint
    <3> QED
      BY <3>1, <1>5, <1>7 DEF Taken, FREE
  <2>2. IsFiniteSet(Blocks) /\ Cardinality(Blocks) = TableLen
    BY FS_Interval DEF Blocks
  <2>3. IsFiniteSet(Taken) /\ Cardinality(Taken) \in Nat /\ Cardinality(Taken) <= TableLen
    BY <2>1, <2>2, FS_Subset, FS_CardinalityType
  <2>4. Taken \cap Region(b) = Region(b)
    BY <2>1
  <2>5. Cardinality(Taken') = Cardinality(Taken) - Cardinality(Region(b))
    BY <2>1, <2>3, <2>4, FS_Difference
  <2>6. /\ Cardinality(Region(b)) \in Nat /\ Cardinality(Region(b)) <= Cardinality(Taken)
    BY <2>1, <2>3, FS_Subset, FS_CardinalityType
  <2>7. in_use' = (Cardinality(Taken')) % SizeMod
    BY <1>1, <2>5 DEF InUseLess, IInv, InUseExact
  <2>8. Cardinality(Taken') \in Nat /\ Cardinality(Taken') < SizeMod
    BY <2>3, <2>5, <2>6
  <2> QED
    BY <2>7, <2>8, ModSmall DEF InUseExact
<1> QED
  BY <1>6, <1>8, <1>9 DEF Agree

(* Init establishes the inductive invariant. *)
LEMMA IInvInit == Init => IInv
<1> SUFFICES ASSUME Init PROVE IInv
  OBVIOUS
<1> USE HeapAssumption
<1>1. TypeInv
  BY TypeInvInit
<1>2. \A a \in Addresses : owned[a] = 0 /\ Region(a) = {} /\ a \in Nat
  BY DEF Init, Region, Addresses
<1>3. Agree
  BY <1>2 DEF Agree, RegionsDisjoint, TableMatchesOwners, Init, FREE, Blocks, Addresses
<1>4. Taken = {}
  BY DEF Init, Taken, FREE
<1>5. InUseExact
  BY <1>4, FS_EmptySet DEF InUseExact, Init
<1> QED
  BY <1>1, <1>3, <1>5 DEF IInv

(* Every step keeps it; only heap_malloc_blocks and heap_free change the   *)
(* table, the owners or the counter.                                       *)
LEMMA IInvNext == IInv /\ [Next]_vars => IInv'
<1> SUFFICES ASSUME IInv, [Next]_vars PROVE IInv'
  OBVIOUS
<1>1. TypeInv'
  BY TypeInvNext DEF IInv
<1>2. ASSUME UNCHANGED <<entries, in_use, owned, spilled>>
      PROVE  (Agree /\ InUseExact)'
  BY <1>2 DEF IInv, Agree, RegionsDisjoint, TableMatchesOwners, InUseExact, Taken, Region
<1>3. CASE heap_malloc_blocks
  BY <1>1, <1>3, MallocAgrees DEF IInv
<1>4. ASSUME NEW b \in Addresses, heap_free(b) PROVE IInv'
  BY <1>1, <1>4, FreeAgrees DEF IInv
<1>5. ASSUME NEW size \in Sizes, heap_malloc(size) PROVE IInv'
  BY <1>1, <1>2, <1>5 DEF heap_malloc, IInv
<1>6. CASE find_first_block \/ MallocFails \/ UNCHANGED vars
  BY <1>1, <1>2, <1>6 DEF find_first_block, MallocFails, vars, IInv
<1> QED
  BY <1>3, <1>4, <1>5, <1>6 DEF Next, Search, FreeIgnored

(* The heap's safety for every constant: live allocations are disjoint and *)
(* inside the heap, the table describes exactly them, and the counter      *)
(* agrees with the table, until something spills past the table.           *)
THEOREM HeapSafe == Spec => []TableExact
<1>1. IInv => TableExact
  BY DEF IInv, Agree, TableExact
<1> QED
  BY <1>1, IInvInit, IInvNext, PTL DEF Spec
-----------------------------------------------------------------------------
(* In the bump regime the search never meets a taken block, so cursor,     *)
(* index and run move in step.                                             *)
BumpSearch ==
  requested < TableLen - 1 /\ pc = "search" =>
    /\ i = last_allocated_block + 1
    /\ requested = last_allocated_block + remaining_blocks
    /\ found_block # NotFound => found_block + Counted = i

BumpInv == IInv /\ BumpRegime /\ BumpSearch

(* A free in the bump regime cannot reach the table's end, since the last  *)
(* block was never handed out (heap.c:156).                                *)
LEMMA BumpFree ==
  ASSUME BumpInv, NEW b \in Addresses, heap_free(b)
  PROVE  (BumpRegime /\ BumpSearch)'
<1> USE HeapAssumption
<1>1. pc = "idle" /\ UNCHANGED <<pc, requested, last_allocated_block>>
  BY DEF heap_free
<1>2. BumpSearch'
  BY <1>1 DEF BumpSearch
<1> SUFFICES ASSUME requested < TableLen - 1 PROVE BumpRegime'
  BY <1>1, <1>2 DEF BumpRegime
<1>3. /\ ~spilled
      /\ last_allocated_block = requested
      /\ \A c \in Blocks : c > last_allocated_block => entries[c] = FREE
  BY <1>1 DEF BumpInv, BumpRegime
<1>4. TableLen - 1 \in Blocks /\ TableLen - 1 > last_allocated_block
  BY <1>3 DEF Blocks, BumpInv, IInv, TypeInv, TypeOK, Addresses
<1>5. entries[TableLen - 1] = FREE
  BY <1>3, <1>4
<1>6. b \in Blocks
  <2>1. b \in Nat /\ (b < TableLen \/ owned[b] > 0) /\ owned[b] \in Nat
    BY DEF heap_free, Addresses, BumpInv, IInv, TypeInv, TypeOK
  <2>2. Region(b) \subseteq Blocks
    BY <1>3 DEF BumpInv, IInv, Agree, RegionsDisjoint
  <2>3. owned[b] > 0 => b \in Region(b)
    BY <2>1 DEF Region
  <2> QED
    BY <2>1, <2>2, <2>3 DEF Blocks
<1>7. "IS_FIRST" \in entries[b]
  BY <1>6 DEF heap_free, Reads, Blocks
<1>8. b # TableLen - 1
  BY <1>7, <1>5 DEF FREE
<1>9. TableLen - 1 \notin Walk(b)
  <2>1. TableLen - 1 \in (b + 1)..(TableLen - 1)
    BY <1>6, <1>8 DEF Blocks
  <2> QED
    BY <2>1, <1>5 DEF Walk
<1>10. ~spilled'
  <2>1. PICK spill \in 0..MaxSpill :
          /\ spill > 0 => b >= TableLen \/ TableLen - 1 \in Walk(b)
          /\ spilled' = (spilled \/ b >= TableLen \/ spill > 0)
    BY DEF heap_free
  <2>2. ~(b >= TableLen) /\ ~(spill > 0)
    BY <2>1, <1>6, <1>9 DEF Blocks
  <2> QED
    BY <2>1, <2>2, <1>3, Zenon
<1>11. \A c \in Blocks : c > last_allocated_block => entries'[c] = FREE
  BY <1>3 DEF heap_free
<1> QED
  BY <1>1, <1>3, <1>10, <1>11 DEF BumpRegime

(* In the bump regime the block under the index is free: the iteration     *)
(* takes the second branch and the cursor moves with the index             *)
(* (heap.c:71-76).                                                         *)
LEMMA BumpStep ==
  ASSUME BumpInv, find_first_block
  PROVE  (BumpRegime /\ BumpSearch)'
<1> USE HeapAssumption
<1>1. pc = "search" /\ UNCHANGED <<pc, requested, entries, n_blocks, spilled>>
  BY DEF find_first_block
<1> SUFFICES ASSUME requested < TableLen - 1 PROVE (BumpRegime /\ BumpSearch)'
  BY <1>1 DEF BumpRegime, BumpSearch
<1>2. /\ ~spilled
      /\ \A b \in Blocks : b > last_allocated_block => entries[b] = FREE
      /\ i = last_allocated_block + 1
      /\ requested = last_allocated_block + remaining_blocks
      /\ found_block # NotFound => found_block + Counted = i
  BY <1>1 DEF BumpInv, BumpRegime, BumpSearch
<1>3. /\ remaining_blocks \in 1..n_blocks /\ n_blocks \in Nat
      /\ last_allocated_block \in Nat /\ i \in Nat /\ requested \in Nat
      /\ found_block \in Nat \cup {NotFound}
      /\ found_block = NotFound => remaining_blocks = n_blocks
  BY <1>1 DEF find_first_block, SearchOver, BumpInv, IInv, TypeInv, TypeOK,
              Addresses, SearchInv
<1>4. i < TableLen - 1 /\ i \in Blocks
  BY <1>2, <1>3 DEF Blocks
<1>5. entries[i] = FREE
  BY <1>2, <1>3, <1>4
<1>6. BlockFree /\ i' = i + 1
  <2>1. \A byte \in Reads(i) : "TAKEN" \notin byte
    BY <1>3, <1>4, <1>5 DEF Reads, FREE
  <2>2. BlockFree
    BY <2>1 DEF find_first_block
  <2>3. i' = i + 1
    BY <1>3, <1>4, NextIndexInTable DEF find_first_block
  <2> QED
    BY <2>2, <2>3
<1>7. /\ last_allocated_block' = i
      /\ remaining_blocks' = remaining_blocks - 1
      /\ found_block' = IF found_block = NotFound THEN i ELSE found_block
      /\ Counted' = Counted + 1
      /\ found_block = NotFound => Counted = 0
  BY <1>1, <1>3, <1>6 DEF BlockFree, Counted
<1>8. BumpSearch'
  BY <1>1, <1>2, <1>3, <1>6, <1>7 DEF BumpSearch, NotFound, Counted
<1>9. SearchOver' => remaining_blocks' = 0
  BY <1>3, <1>6, <1>7 DEF SearchOver
<1> QED
  BY <1>1, <1>2, <1>3, <1>7, <1>8, <1>9 DEF BumpRegime, Blocks

(* Handing out the run keeps the regime: it ends at the cursor             *)
(* (heap.c:121-125).                                                       *)
LEMMA BumpReserve ==
  ASSUME BumpInv, heap_malloc_blocks
  PROVE  (BumpRegime /\ BumpSearch)'
<1> USE HeapAssumption
<1>1. /\ pc = "search" /\ remaining_blocks = 0 /\ pc' = "idle"
      /\ UNCHANGED <<requested, last_allocated_block>>
  BY DEF heap_malloc_blocks
<1>2. BumpSearch'
  BY <1>1 DEF BumpSearch
<1> SUFFICES ASSUME requested < TableLen - 1 PROVE BumpRegime'
  BY <1>1, <1>2 DEF BumpRegime
<1>3. /\ ~spilled
      /\ \A b \in Blocks : b > last_allocated_block => entries[b] = FREE
      /\ requested = last_allocated_block + remaining_blocks
      /\ found_block # NotFound => found_block + Counted = last_allocated_block + 1
  BY <1>1 DEF BumpInv, BumpRegime, BumpSearch
<1>4. /\ found_block \in Nat /\ n_blocks \in Nat /\ Counted = n_blocks
      /\ found_block # NotFound
      /\ requested \in Nat /\ last_allocated_block \in Nat
  BY <1>1 DEF BumpInv, IInv, TypeInv, TypeOK, SearchInv, Addresses, Counted, NotFound
<1>5. EndBlock = last_allocated_block + 1 /\ last_allocated_block = requested
  BY <1>1, <1>3, <1>4 DEF EndBlock
<1>6. ~spilled'
  <2>1. ~(found_block + n_blocks > TableLen)
    BY <1>4, <1>5 DEF EndBlock
  <2> QED
    BY <2>1, <1>3, Zenon DEF heap_malloc_blocks
<1>7. \A b \in Blocks : b > last_allocated_block => entries'[b] = FREE
  BY <1>3, <1>4, <1>5 DEF heap_malloc_blocks, heap_reserve_blocks, Blocks
<1> QED
  BY <1>1, <1>5, <1>6, <1>7 DEF BumpRegime

(* Every step keeps the bump regime. *)
LEMMA BumpNext == BumpInv /\ [Next]_vars => BumpInv'
<1> SUFFICES ASSUME BumpInv, [Next]_vars PROVE (BumpRegime /\ BumpSearch)'
  BY IInvNext DEF BumpInv
<1> USE HeapAssumption
<1>1. ASSUME NEW size \in Sizes, heap_malloc(size) PROVE (BumpRegime /\ BumpSearch)'
  <2> DEFINE n == size_to_nblocks(size)
  <2>1. n \in Nat
    BY NblocksNat
  <2>2. /\ pc = "idle" /\ pc' = "search" /\ n > 0
        /\ n_blocks' = n /\ remaining_blocks' = n /\ found_block' = NotFound
        /\ i' = last_allocated_block + 1
        /\ requested' = IF requested + n < TableLen THEN requested + n ELSE TableLen
        /\ UNCHANGED <<entries, last_allocated_block, spilled>>
    BY <1>1 DEF heap_malloc, FirstIndex
  <2>3. last_allocated_block \in Nat /\ requested \in Nat
    BY DEF BumpInv, IInv, TypeInv, TypeOK, Addresses
  <2> HIDE DEF n
  <2>4. requested' < TableLen - 1 => requested < TableLen - 1 /\ requested' = requested + n
    BY <2>1, <2>2, <2>3
  <2>5. ~SearchOver'
    BY <2>1, <2>2, <2>3 DEF SearchOver
  <2>6. BumpRegime'
    BY <2>2, <2>4, <2>5 DEF BumpInv, BumpRegime
  <2>7. BumpSearch'
    BY <2>1, <2>2, <2>3, <2>4 DEF BumpInv, BumpRegime, BumpSearch
  <2> QED
    BY <2>6, <2>7
<1>2. CASE find_first_block
  BY <1>2, BumpStep
<1>3. CASE MallocFails
  BY <1>3 DEF MallocFails, BumpInv, BumpRegime, BumpSearch, locals
<1>4. CASE heap_malloc_blocks
  BY <1>4, BumpReserve
<1>5. ASSUME NEW b \in Addresses, heap_free(b) PROVE (BumpRegime /\ BumpSearch)'
  BY <1>5, BumpFree
<1>6. ASSUME UNCHANGED vars PROVE (BumpRegime /\ BumpSearch)'
  BY <1>6 DEF vars, locals, BumpInv, BumpRegime, BumpSearch, SearchOver, Counted
<1> QED
  BY <1>1, <1>2, <1>3, <1>4, <1>5, <1>6 DEF Next, Search, FreeIgnored

(* Until the last block is asked for, the heap never spills, never fails a *)
(* request and never hands a block out twice, whatever is freed meanwhile. *)
THEOREM BumpUntilLastBlock == Spec => []BumpRegime
<1>1. Init => BumpInv
  <2> SUFFICES ASSUME Init PROVE BumpRegime /\ BumpSearch
    BY IInvInit DEF BumpInv
  <2> QED
    BY DEF Init, BumpRegime, BumpSearch
<1>2. BumpInv => BumpRegime
  BY DEF BumpInv
<1> QED
  BY <1>1, <1>2, BumpNext, PTL DEF Spec
-----------------------------------------------------------------------------
(* Every step of the heap is a step of the abstract allocator, a stutter   *)
(* of it, or spills.                                                       *)
LEMMA StepRefines ==
  IInv /\ [Next]_vars => [Alloc!Next]_(Alloc!vars)
<1> SUFFICES ASSUME IInv, [Next]_vars PROVE [Alloc!Next]_(Alloc!vars)
  OBVIOUS
<1>0. CASE spilled'
  BY <1>0 DEF Alloc!Next
<1>1. ASSUME UNCHANGED <<owned, spilled>> PROVE UNCHANGED Alloc!vars
  BY <1>1 DEF Alloc!vars
<1>2. CASE ~spilled' /\ heap_malloc_blocks
  <2>1. ~spilled /\ ~(found_block + n_blocks > TableLen)
    BY <1>2, Zenon DEF heap_malloc_blocks
  <2>2. found_block \in Int /\ n_blocks \in Int /\ TableLen \in Nat
    BY HeapAssumption DEF IInv, TypeInv, TypeOK, Addresses, NotFound
  <2>3. found_block + n_blocks <= TableLen
    BY <2>1, <2>2
  <2>4. /\ found_block \in Blocks /\ n_blocks \in 1..TableLen
        /\ found_block..(EndBlock - 1) \subseteq Blocks
        /\ \A a \in Addresses : Region(a) \cap (found_block..(EndBlock - 1)) = {}
    <3>1. TypeInv /\ Agree /\ pc = "search" /\ remaining_blocks = 0
      BY <1>2 DEF IInv, heap_malloc_blocks
    <3> QED
      BY <3>1, <2>1, <2>3, RunFound
  <2>5. Alloc!Alloc(found_block, n_blocks)
    <3>1. found_block..(found_block + n_blocks - 1) = found_block..(EndBlock - 1)
      BY <2>2 DEF EndBlock
    <3>2. Blocks = Alloc!Blocks /\ \A a \in Addresses : Region(a) = Alloc!Run(a)
      BY DEF Blocks, Alloc!Blocks, Region, Alloc!Run
    <3>3. owned' = [owned EXCEPT ![found_block] = n_blocks] /\ spilled' = FALSE
      BY <1>2, Zenon DEF heap_malloc_blocks
    <3> QED
      BY <2>4, <3>1, <3>2, <3>3, Zenon DEF Alloc!Alloc
  <2>6. found_block \in Addresses
    BY <2>4, HeapAssumption DEF Blocks, Addresses
  <2> QED
    BY <2>1, <2>4, <2>5, <2>6 DEF Alloc!Next
<1>3. ASSUME NEW b \in Addresses, heap_free(b), ~spilled' PROVE Alloc!Next
  <2>1. ~spilled /\ owned[b] > 0
    BY <1>3, FreeInside
  <2>2. Alloc!Free(b)
    BY <1>3, <2>1, Zenon DEF Alloc!Free, heap_free
  <2> QED
    BY <2>1, <2>2 DEF Alloc!Next
<1>4. ASSUME NEW size \in Sizes, heap_malloc(size) PROVE UNCHANGED Alloc!vars
  BY <1>1, <1>4 DEF heap_malloc
<1>5. CASE find_first_block \/ MallocFails \/ UNCHANGED vars
  BY <1>1, <1>5 DEF find_first_block, MallocFails, vars
<1> QED
  BY <1>0, <1>2, <1>3, <1>4, <1>5 DEF Next, Search, FreeIgnored

(* The heap implements the abstract allocator for every constant. *)
THEOREM HeapImplementsAllocator == Spec => AllocatorSpec
<1>1. Init => Alloc!Init
  BY DEF Init, Alloc!Init
<1> QED
  BY <1>1, IInvInit, IInvNext, StepRefines, PTL DEF Spec, AllocatorSpec, Alloc!Spec
=============================================================================
