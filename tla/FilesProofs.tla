---------------------------- MODULE FilesProofs ----------------------------
(***************************************************************************)
(* The file table and the objects behind it, for any size of the table and *)
(* any number of FILE objects.                                             *)
(***************************************************************************)
EXTENDS Files, TLAPS

Stored(a) == \E i \in Slots : table[i] = a

Opening == {"descriptor", "disk", "open", "table", "fopen_out"}

(* The objects of an fopen under way are the only ones that no slot holds. *)
FlightInv ==
  /\ pc \in Opening => descriptor \in Addresses /\ ~Stored(descriptor)
  /\ pc = "descriptor" => descriptor \notin live \cup priv /\ descriptor \in path
  /\ pc \in {"disk", "open", "table", "fopen_out"} =>
       descriptor \in live /\ descriptor \in path
  /\ pc = "table" => descriptor \in priv
  /\ \A a \in live \cup path \cup priv :
       Stored(a) \/ (a = descriptor /\ pc \in Opening)

(* While process_load_binary holds a stream, a slot holds it too. *)
LoadInv ==
  /\ pc \in {"fstat", "kzalloc", "fread"} => descriptor \in Addresses /\ Stored(descriptor)
  /\ pc = "fclose" => descriptor = NULL \/ (descriptor \in Addresses /\ Stored(descriptor))
  /\ memory => pc \in {"fread", "fclose", "fclose_again"}
  /\ memory => pc = "fclose_again" \/ descriptor # NULL

FInv == TypeOK /\ TableSound /\ FlightInv /\ LoadInv

(* Init establishes the invariant. *)
LEMMA FInvInit == Init => FInv
<1> SUFFICES ASSUME Init PROVE FInv
  OBVIOUS
<1>1. TypeOK
  BY FilesAssumption DEF Init, TypeOK, Slots, Pcs
<1>2. TableSound /\ FlightInv /\ LoadInv
  BY DEF Init, TableSound, FlightInv, LoadInv, Opening
<1> QED
  BY <1>1, <1>2 DEF FInv

(* The steps of fopen that do not touch the table (file.c:54-98). *)
LEMMA FopenKeeps ==
  ASSUME FInv,
         (\E b \in BOOLEAN : fopen(b)) \/ NoDescriptor \/ NewDescriptor
           \/ disk_get \/ fs_open \/ TooManyFiles \/ FopenFails
  PROVE  FInv'
<1> USE FilesAssumption
<1>1. table' = table /\ \A a : Stored(a)' <=> Stored(a)
  BY DEF fopen, NoDescriptor, NewDescriptor, disk_get, fs_open, TooManyFiles,
         FopenFails, Stored
<1>2. \A i \in Slots : table[i] # NULL => table[i] \in Addresses /\ Stored(table[i])
  BY DEF FInv, TypeOK, Stored
<1>3. \A a \in Addresses : Stored(a) => fileno[a] \in Slots
  BY DEF FInv, TypeOK, TableSound, Stored
<1>4. CASE \E b \in BOOLEAN : fopen(b)
  <2> PICK b \in BOOLEAN : fopen(b)
    BY <1>4
  <2>1. TypeOK'
    BY DEF fopen, FInv, TypeOK, Pcs
  <2>2. TableSound'
    BY <1>1 DEF fopen, FInv, TableSound
  <2>3. \A a \in Addresses \ live : ~Stored(a)
    BY DEF FInv, TableSound, Stored
  <2>4. \A a \in live \cup path \cup priv : Stored(a)
    BY DEF fopen, FInv, FlightInv, Opening
  <2>5. FlightInv'
    <3>1. CASE descriptor' = NULL
      <4>1. UNCHANGED <<live, path, priv>> /\ pc' \in {"fclose", "idle"}
        BY <3>1 DEF fopen
      <4> QED
        BY <1>1, <2>4, <4>1 DEF FlightInv, Opening
    <3>2. CASE descriptor' # NULL
      <4>1. /\ descriptor' \in Addresses \ live /\ path' = path \cup {descriptor'}
            /\ UNCHANGED <<live, priv>> /\ pc' = "descriptor"
        BY <3>2 DEF fopen
      <4>2. descriptor' \notin priv
        BY <2>3, <2>4, <4>1
      <4> QED
        BY <1>1, <2>3, <2>4, <4>1, <4>2 DEF FlightInv, Opening
    <3> QED
      BY <3>1, <3>2
  <2>6. LoadInv'
    BY <1>1 DEF fopen, FInv, LoadInv
  <2> QED
    BY <2>1, <2>2, <2>5, <2>6 DEF FInv
<1>5. CASE NoDescriptor
  <2>1. TypeOK'
    BY <1>5 DEF NoDescriptor, FopenReturns, FInv, TypeOK, Pcs
  <2>2. TableSound'
    BY <1>1, <1>2, <1>5 DEF NoDescriptor, FInv, TableSound, FlightInv, Opening
  <2>3. FlightInv'
    <3>1. /\ pc' \in {"idle", "fclose"} /\ path' = path \ {descriptor}
          /\ UNCHANGED <<live, priv>> /\ descriptor \notin live
      BY <1>5 DEF NoDescriptor, FopenReturns, FInv, FlightInv
    <3>2. descriptor \notin priv
      BY <1>5 DEF NoDescriptor, FInv, FlightInv
    <3>3. \A a \in (live \cup path \cup priv)' : Stored(a)
      BY <3>1, <3>2 DEF FInv, FlightInv
    <3> QED
      BY <1>1, <3>1, <3>3 DEF FlightInv, Opening
  <2>4. LoadInv'
    BY <1>1, <1>5 DEF NoDescriptor, FopenReturns, FInv, LoadInv
  <2> QED
    BY <2>1, <2>2, <2>3, <2>4 DEF FInv
<1>6. CASE NewDescriptor
  <2>1. descriptor \in Addresses /\ ~Stored(descriptor)
    BY <1>6 DEF NewDescriptor, FInv, FlightInv, Opening
  <2>2. TypeOK'
    BY <1>6, <2>1 DEF NewDescriptor, FInv, TypeOK, Pcs, Slots
  <2>3. TableSound'
    BY <1>1, <1>2, <1>6, <2>1 DEF NewDescriptor, FInv, TypeOK, TableSound
  <2>4. FlightInv'
    BY <1>1, <1>6 DEF NewDescriptor, FInv, FlightInv, Opening, TypeOK
  <2>5. LoadInv'
    BY <1>1, <1>6 DEF NewDescriptor, FInv, LoadInv
  <2> QED
    BY <2>2, <2>3, <2>4, <2>5 DEF FInv
<1>7. CASE disk_get \/ fs_open \/ TooManyFiles
  <2>1. TypeOK'
    BY <1>7 DEF disk_get, fs_open, TooManyFiles, heap, FInv, TypeOK, Pcs, FlightInv, Opening
  <2>2. TableSound'
    BY <1>1, <1>7 DEF disk_get, fs_open, TooManyFiles, heap, FInv, TableSound
  <2>3. FlightInv'
    BY <1>1, <1>7 DEF disk_get, fs_open, TooManyFiles, heap, FInv, FlightInv, Opening
  <2>4. LoadInv'
    BY <1>1, <1>7 DEF disk_get, fs_open, TooManyFiles, FInv, LoadInv
  <2> QED
    BY <2>1, <2>2, <2>3, <2>4 DEF FInv
<1>8. CASE FopenFails
  <2>1. descriptor \in Addresses /\ ~Stored(descriptor)
    BY <1>8 DEF FopenFails, FInv, FlightInv, Opening
  <2>2. TypeOK'
    BY <1>8, <2>1 DEF FopenFails, FopenReturns, PrivClosed, FInv, TypeOK, Pcs
  <2>3. TableSound'
    BY <1>1, <1>2, <1>8, <2>1 DEF FopenFails, PrivClosed, FInv, TypeOK, TableSound
  <2>4. FlightInv'
    BY <1>1, <1>8 DEF FopenFails, FopenReturns, PrivClosed, FInv, FlightInv, Opening
  <2>5. LoadInv'
    BY <1>1, <1>8 DEF FopenFails, FopenReturns, FInv, LoadInv
  <2> QED
    BY <2>2, <2>3, <2>4, <2>5 DEF FInv
<1> QED
  BY <1>4, <1>5, <1>6, <1>7, <1>8

(* Entering the table (file_table.c:29-41). *)
LEMMA OpenFileKeeps ==
  ASSUME FInv, file_table_open_file
  PROVE  FInv'
<1> USE FilesAssumption
<1>1. PICK i \in Slots : /\ table[i] = NULL
                         /\ table' = [table EXCEPT ![i] = descriptor]
                         /\ fileno' = [fileno EXCEPT ![descriptor] = i]
  BY DEF file_table_open_file, FreeSlots
<1>2. /\ pc = "table" /\ UNCHANGED <<live, path, priv, memory, loading, wild>>
      /\ FopenReturns(descriptor)
  BY DEF file_table_open_file, heap
<1>3. /\ descriptor \in Addresses /\ ~Stored(descriptor) /\ descriptor # NULL
      /\ descriptor \in live \cap path \cap priv
  BY <1>2 DEF FInv, FlightInv, Opening
<1>4. table \in [Slots -> Addresses \cup {NULL}] /\ fileno \in [Addresses -> Slots \cup {-1}]
  BY DEF FInv, TypeOK
<1>5. TypeOK'
  BY <1>1, <1>2, <1>3, <1>4 DEF FInv, TypeOK, FopenReturns, Pcs
<1>6. TableSound'
  <2> SUFFICES ASSUME NEW k \in Slots, table'[k] # NULL
               PROVE  /\ fileno'[table'[k]] = k
                      /\ table'[k] \in live \cap path \cap priv
    BY <1>2 DEF TableSound
  <2>1. CASE k = i
    BY <2>1, <1>1, <1>3, <1>4
  <2>2. CASE k # i
    <3>1. table'[k] = table[k] /\ table[k] \in Addresses /\ table[k] # descriptor
      BY <2>2, <1>1, <1>3, <1>4 DEF Stored
    <3> QED
      BY <3>1, <1>1, <1>4 DEF FInv, TableSound
  <2> QED
    BY <2>1, <2>2
<1>7. \A a \in Addresses : Stored(a)' <=> Stored(a) \/ a = descriptor
  BY <1>1, <1>4 DEF Stored
<1>8. FlightInv'
  <2>1. pc' \in {"idle", "fstat"} /\ descriptor' = descriptor
    BY <1>2, <1>3 DEF FopenReturns
  <2>2. \A a \in live \cup path \cup priv : Stored(a)'
    BY <1>2, <1>7 DEF FInv, FlightInv, TypeOK
  <2> QED
    BY <1>2, <2>1, <2>2 DEF FlightInv, Opening
<1>9. LoadInv'
  BY <1>2, <1>3, <1>7 DEF FInv, LoadInv, FopenReturns
<1> QED
  BY <1>5, <1>6, <1>8, <1>9 DEF FInv

(* fclose frees what belongs to the slot it clears, and nothing else       *)
(* (file.c:119-144).                                                       *)
LEMMA CloseKeeps ==
  ASSUME FInv, NEW s \in Addresses, Stored(s), pc \notin Opening, CloseSlot(s)
  PROVE  /\ TableSound'
         /\ table' \in [Slots -> Addresses \cup {NULL}]
         /\ fileno' \in [Addresses -> Slots \cup {-1}]
         /\ live' \subseteq Addresses /\ path' \subseteq Addresses /\ priv' \subseteq Addresses
         /\ \A a \in (live \cup path \cup priv)' : Stored(a)'
<1> USE FilesAssumption
<1>1. table \in [Slots -> Addresses \cup {NULL}] /\ fileno \in [Addresses -> Slots \cup {-1}]
  BY DEF FInv, TypeOK
<1>2. PICK i \in Slots : fileno[s] = i /\ table[i] = s
  BY <1>1 DEF FInv, TableSound, Stored
<1>3. /\ table' = [table EXCEPT ![i] = NULL]
      /\ path' = path \ {s} /\ priv' = priv \ {s} /\ live' = live \ {s}
      /\ fileno' = [fileno EXCEPT ![s] = -1]
  BY <1>2 DEF CloseSlot, SlotCleared
<1>4. TableSound'
  <2> SUFFICES ASSUME NEW k \in Slots, table'[k] # NULL
               PROVE  /\ fileno'[table'[k]] = k
                      /\ table'[k] \in (live \cap path \cap priv)'
    BY DEF TableSound
  <2>1. k # i /\ table'[k] = table[k] /\ table[k] \in Addresses
    BY <1>1, <1>3
  <2>2. fileno[table[k]] = k /\ table[k] \in live \cap path \cap priv
    BY <2>1 DEF FInv, TableSound
  <2>3. table[k] # s
    BY <1>2, <2>1, <2>2
  <2> QED
    BY <1>1, <1>3, <2>1, <2>2, <2>3
<1>5. \A a \in (live \cup path \cup priv)' : Stored(a)'
  <2> SUFFICES ASSUME NEW a \in live \cup path \cup priv, a # s
               PROVE  \E k \in Slots : table'[k] = a
    BY <1>3 DEF Stored
  <2>1. PICK k \in Slots : table[k] = a
    BY DEF FInv, FlightInv, Stored
  <2> QED
    BY <2>1, <1>1, <1>2, <1>3
<1>6. /\ table' \in [Slots -> Addresses \cup {NULL}]
      /\ fileno' \in [Addresses -> Slots \cup {-1}]
      /\ live' \subseteq Addresses /\ path' \subseteq Addresses /\ priv' \subseteq Addresses
  BY <1>1, <1>3 DEF FInv, TypeOK
<1> QED
  BY <1>4, <1>5, <1>6

(* The callers of fclose, and the rest of process_load_binary. *)
LEMMA LoadKeeps ==
  ASSUME FInv,
         (\E s \in Addresses : fclose(s)) \/ fstat \/ kzalloc \/ fread
           \/ LoadCloses \/ LoadClosesAgain
  PROVE  FInv'
<1> USE FilesAssumption
<1>1. CASE \E s \in Addresses : fclose(s)
  <2> PICK s \in Addresses : fclose(s)
    BY <1>1
  <2>1. Stored(s) /\ pc = "idle" /\ CloseSlot(s)
        /\ UNCHANGED <<pc, descriptor, loading, failed, memory, wild>>
    BY DEF fclose, Stored
  <2>2. /\ TableSound'
        /\ table' \in [Slots -> Addresses \cup {NULL}]
        /\ fileno' \in [Addresses -> Slots \cup {-1}]
        /\ live' \subseteq Addresses /\ path' \subseteq Addresses /\ priv' \subseteq Addresses
        /\ \A a \in (live \cup path \cup priv)' : Stored(a)'
    BY <2>1, CloseKeeps DEF Opening
  <2>3. TypeOK'
    BY <2>1, <2>2 DEF FInv, TypeOK
  <2>4. FlightInv' /\ LoadInv'
    BY <2>1, <2>2 DEF FInv, FlightInv, LoadInv, Opening
  <2> QED
    BY <2>2, <2>3, <2>4 DEF FInv
<1>2. CASE fstat \/ kzalloc \/ fread \/ LoadClosesAgain \/ (LoadCloses /\ descriptor = NULL)
  <2>1. /\ UNCHANGED <<table, fileno, live, path, priv, descriptor, loading>>
        /\ pc \notin Opening /\ pc' \notin Opening /\ pc' \in Pcs
        /\ failed' \in BOOLEAN /\ memory' \in BOOLEAN /\ wild' \in BOOLEAN
    BY <1>2 DEF fstat, kzalloc, fread, LoadClosesAgain, LoadCloses, heap, Opening,
                Pcs, MemoryFreed, FInv, TypeOK
  <2>2. \A a : Stored(a)' <=> Stored(a)
    BY <2>1 DEF Stored
  <2>3. TypeOK'
    BY <2>1 DEF FInv, TypeOK
  <2>4. TableSound'
    BY <2>1 DEF FInv, TableSound
  <2>5. FlightInv'
    BY <2>1, <2>2 DEF FInv, FlightInv, Opening
  <2>6. LoadInv'
    BY <1>2, <2>1, <2>2 DEF fstat, kzalloc, fread, LoadClosesAgain, LoadCloses,
                            MemoryFreed, FInv, LoadInv
  <2> QED
    BY <2>3, <2>4, <2>5, <2>6 DEF FInv
<1>3. CASE LoadCloses /\ descriptor # NULL
  <2>1. /\ pc = "fclose" /\ CloseSlot(descriptor)
        /\ pc' = IF failed THEN "fclose_again" ELSE "idle"
        /\ memory' = (memory /\ failed)
        /\ UNCHANGED <<descriptor, loading, failed, wild>>
    BY <1>3 DEF LoadCloses
  <2>2. Stored(descriptor) /\ descriptor \in Addresses
    BY <1>3, <2>1 DEF FInv, LoadInv
  <2>3. /\ TableSound'
        /\ table' \in [Slots -> Addresses \cup {NULL}]
        /\ fileno' \in [Addresses -> Slots \cup {-1}]
        /\ live' \subseteq Addresses /\ path' \subseteq Addresses /\ priv' \subseteq Addresses
        /\ \A a \in (live \cup path \cup priv)' : Stored(a)'
    BY <2>1, <2>2, CloseKeeps DEF Opening
  <2>4. TypeOK'
    BY <2>1, <2>3 DEF FInv, TypeOK, Pcs
  <2>5. FlightInv'
    BY <2>1, <2>3 DEF FlightInv, Opening
  <2>6. LoadInv'
    BY <2>1 DEF FInv, TypeOK, LoadInv
  <2> QED
    BY <2>3, <2>4, <2>5, <2>6 DEF FInv
<1> QED
  BY <1>1, <1>2, <1>3

(* The inductive invariant of the file table. *)
LEMMA FInvHolds == Spec => []FInv
<1>1. FInv /\ [Next]_vars => FInv'
  <2> SUFFICES ASSUME FInv, [Next]_vars PROVE FInv'
    OBVIOUS
  <2>1. CASE Next
    BY <2>1, FopenKeeps, OpenFileKeeps, LoadKeeps DEF Next
  <2>2. CASE UNCHANGED vars
    BY <2>2 DEF vars, heap, FInv, TypeOK, TableSound, FlightInv, LoadInv, Stored
  <2> QED
    BY <2>1, <2>2
<1> QED
  BY <1>1, FInvInit, PTL DEF Spec
-----------------------------------------------------------------------------
(* Every variable keeps its type, whatever fails. *)
THEOREM TypeCorrect == Spec => []TypeOK
<1>1. FInv => TypeOK
  BY DEF FInv
<1> QED
  BY <1>1, FInvHolds, PTL

(* The table never points to a freed or half-freed FILE, and between calls *)
(* no object of a failed fopen is left (file.c:71-144).                    *)
THEOREM TableHoldsWhatIsAllocated == Spec => []FilesSound
<1>1. FInv => FilesSound
  BY DEF FInv, FlightInv, Opening, FilesSound, NothingLeaks, Stored
<1> QED
  BY <1>1, FInvHolds, PTL

(* process_load_binary reads from the stream it opened, and its buffer is  *)
(* not left behind (process.c:62-114).                                     *)
THEOREM LoaderSafe == Spec => []LoaderSound
<1>1. FInv => StreamIsItself
  BY FilesAssumption DEF FInv, LoadInv, TypeOK, TableSound, StreamIsItself, Stored
<1>2. FInv => BufferFreed
  BY DEF FInv, LoadInv, BufferFreed
<1>3. FInv => LoaderSound
  BY <1>1, <1>2 DEF LoaderSound
<1> QED
  BY <1>3, FInvHolds, PTL
=============================================================================
