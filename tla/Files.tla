------------------------------- MODULE Files -------------------------------
(***************************************************************************)
(* Open files: fopen, fclose, fread and fstat of fs/file.c over the table  *)
(* of fs/file_table.c, and process_load_binary (kernel/task/process.c),    *)
(* their one caller in the kernel.                                         *)
(*                                                                         *)
(* fopen allocates three objects one after the other, the parsed path, the *)
(* struct FILE and the filesystem's descriptor, and takes a slot of the    *)
(* table; each of these steps can fail and is an action.  An object is an  *)
(* address: it is live or free, a freed address may be handed out again,   *)
(* and a freed FILE reads as 0xFF bytes (heap_free fills it), so its       *)
(* fileno is -1.  What a file contains is the business of Fat16.           *)
(***************************************************************************)
EXTENDS Integers

CONSTANTS
  MaxOpenFiles,  \* MAX_OPEN_FILES
  Addresses      \* addresses of struct FILE objects

NULL == "NULL"

ASSUME FilesAssumption ==
  /\ MaxOpenFiles \in Nat \ {0}
  /\ NULL \notin Addresses

VARIABLES
  table,        \* file_table.table
  fileno,       \* FILE.fileno, of live and of freed objects
  live,         \* the struct FILE objects that are allocated
  path, priv,   \* the FILEs whose path, whose private_data is allocated
  pc,           \* where fopen, or its caller, is
  descriptor,   \* fopen's local, then process_load_binary's fd
  loading,      \* process_load_binary is the caller
  failed,       \* res # 0 in process_load_binary
  memory,       \* process_load_binary holds the buffer it allocated
  wild          \* a dereference outside any object had an effect

heap == <<live, path, priv>>
vars == <<table, fileno, heap, pc, descriptor, loading, failed, memory, wild>>

Slots == 0..(MaxOpenFiles - 1)
Pcs   == {"idle", "descriptor", "disk", "open", "table", "fopen_out",
          "fstat", "kzalloc", "fread", "fclose", "fclose_again"}

(* file_table_init *)
Init ==
  /\ table = [i \in Slots |-> NULL]
  /\ fileno = [a \in Addresses |-> -1]
  /\ live = {} /\ path = {} /\ priv = {}
  /\ pc = "idle" /\ descriptor = NULL
  /\ loading = FALSE /\ failed = FALSE /\ memory = FALSE /\ wild = FALSE

(* Where a call of fopen that yields d returns to. *)
FopenReturns(d) ==
  /\ descriptor' = d
  /\ pc' = IF ~loading THEN "idle" ELSE IF d = NULL THEN "fclose" ELSE "fstat"
  /\ failed' = (loading /\ d = NULL)
-----------------------------------------------------------------------------
(* fopen. *)

(* fopen starts; for an invalid mode or path it returns NULL with nothing  *)
(* allocated.  The path is the one of the FILE that comes next; which of   *)
(* the free addresses that will be is decided here.                        *)
fopen(by_loader) ==
  /\ pc = "idle" /\ ~wild
  /\ loading' = by_loader
  /\ \/ /\ \E a \in Addresses \ live : descriptor' = a /\ path' = path \cup {a}
        /\ pc' = "descriptor" /\ UNCHANGED failed
     \/ /\ pc' = IF by_loader THEN "fclose" ELSE "idle"
        /\ descriptor' = NULL /\ failed' = by_loader
        /\ UNCHANGED path
  /\ UNCHANGED <<table, fileno, live, priv, memory, wild>>

(* pathparse_path_free(path) and NULL, when kzalloc gave no descriptor. *)
NoDescriptor ==
  /\ pc = "descriptor"
  /\ path' = path \ {descriptor}
  /\ FopenReturns(NULL)
  /\ UNCHANGED <<table, fileno, live, priv, loading, memory, wild>>

NewDescriptor ==
  /\ pc = "descriptor"
  /\ live' = live \cup {descriptor}
  /\ fileno' = [fileno EXCEPT ![descriptor] = 0]     \* kzalloc
  /\ pc' = "disk"
  /\ UNCHANGED <<table, path, priv, descriptor, loading, failed, memory, wild>>

(* Only drive 0 exists, and it may have no filesystem. *)
disk_get ==
  /\ pc = "disk"
  /\ pc' \in {"open", "fopen_out"}
  /\ UNCHANGED <<table, fileno, heap, descriptor, loading, failed, memory,
                 wild>>

(* fs_operations->open: the descriptor of fat16_open, or NULL. *)
fs_open ==
  /\ pc = "open"
  /\ \/ priv' = priv \cup {descriptor} /\ pc' = "table"
     \/ priv' = priv /\ pc' = "fopen_out"
  /\ UNCHANGED <<table, fileno, live, path, descriptor, loading, failed, memory, wild>>

BUG_OneMore == {i \in 0..MaxOpenFiles : i = MaxOpenFiles \/ table[i] = NULL}

(* The slots file_table_find_free_slot chooses from; it takes the first. *)
FreeSlots == {i \in Slots : table[i] = NULL}

BUG_FilenoUnset ==
  /\ pc = "table"
  /\ \E i \in FreeSlots :
       /\ \A k \in FreeSlots : i <= k
       /\ table' = [table EXCEPT ![i] = descriptor]
  /\ FopenReturns(descriptor)
  /\ UNCHANGED <<fileno, heap, loading, memory, wild>>

(* file_table_open_file when there is a free slot. *)
file_table_open_file ==
  /\ pc = "table"
  /\ \E i \in FreeSlots :
       /\ \A k \in FreeSlots : i <= k
       /\ table' = [table EXCEPT ![i] = descriptor]
       /\ fileno' = [fileno EXCEPT ![descriptor] = i]
  /\ FopenReturns(descriptor)
  /\ UNCHANGED <<heap, loading, memory, wild>>

(* -EMFILE *)
TooManyFiles ==
  /\ pc = "table" /\ FreeSlots = {}
  /\ pc' = "fopen_out"
  /\ UNCHANGED <<table, fileno, heap, descriptor, loading, failed, memory,
                 wild>>

BUG_KeepPrivate == priv

(* private_data is closed if fopen got that far. *)
PrivClosed == priv \ {descriptor}

(* fopen's error exit: everything allocated so far is freed. *)
FopenFails ==
  /\ pc = "fopen_out"
  /\ path' = path \ {descriptor}
  /\ priv' = PrivClosed
  /\ live' = live \ {descriptor}
  /\ fileno' = [fileno EXCEPT ![descriptor] = -1]
  /\ FopenReturns(NULL)
  /\ UNCHANGED <<table, loading, memory, wild>>
-----------------------------------------------------------------------------
(* fclose. *)

(* file_table_close_file *)
SlotCleared(d) == [table EXCEPT ![fileno[d]] = NULL]

(* fclose of a stream that is open: the FILE in the stream's slot is       *)
(* closed and its three objects are freed.                                 *)
CloseSlot(stream) ==
  LET d == table[fileno[stream]] IN
  /\ table' = SlotCleared(d)
  /\ path' = path \ {d} /\ priv' = priv \ {d} /\ live' = live \ {d}
  /\ fileno' = [fileno EXCEPT ![d] = -1]

(* fclose(stream), called with a stream that fopen returned and nobody     *)
(* closed since.                                                           *)
fclose(stream) ==
  /\ pc = "idle" /\ ~wild
  /\ \E i \in Slots : table[i] = stream
  /\ CloseSlot(stream)
  /\ UNCHANGED <<pc, descriptor, loading, failed, memory, wild>>
-----------------------------------------------------------------------------
(* process_load_binary after fopen. *)

fstat ==
  /\ pc = "fstat"
  /\ pc' = "kzalloc"
  /\ UNCHANGED <<table, fileno, heap, descriptor, loading, failed, memory,
                 wild>>

(* No memory, or a file of size 0. *)
kzalloc ==
  /\ pc = "kzalloc"
  /\ \/ pc' = "fread" /\ memory' = TRUE /\ UNCHANGED failed
     \/ pc' = "fclose" /\ failed' = TRUE /\ UNCHANGED memory
  /\ UNCHANGED <<table, fileno, heap, descriptor, loading, wild>>

(* All bytes, or fewer. *)
fread ==
  /\ pc = "fread"
  /\ pc' = "fclose"
  /\ failed' \in BOOLEAN
  /\ UNCHANGED <<table, fileno, heap, descriptor, loading, memory, wild>>

(* The fclose at `out', whatever fd is.  With fd NULL it reads fileno and  *)
(* a pointer from low memory; nothing happens if that pointer is zero.  A  *)
(* binary that was read is the caller's from here on.                      *)
LoadCloses ==
  /\ pc = "fclose"
  /\ IF descriptor = NULL
     THEN /\ wild' \in BOOLEAN
          /\ pc' = "idle"
          /\ UNCHANGED <<table, fileno, heap, memory>>
     ELSE /\ CloseSlot(descriptor)
          /\ pc' = IF failed THEN "fclose_again" ELSE "idle"
          /\ memory' = (memory /\ failed)
          /\ UNCHANGED wild
  /\ UNCHANGED <<descriptor, loading, failed>>

(* *memory after the error path. *)
MemoryFreed == FALSE

(* The second fclose of the error path: fd is free, its fileno -1, and     *)
(* table[-1] is whatever lies before the table: nothing happens if that is *)
(* zero.  Then the buffer is freed.                                        *)
LoadClosesAgain ==
  /\ pc = "fclose_again"
  /\ wild' \in BOOLEAN
  /\ memory' = MemoryFreed
  /\ pc' = "idle"
  /\ UNCHANGED <<table, fileno, heap, descriptor, loading, failed>>

Next ==
  \/ \E by_loader \in BOOLEAN : fopen(by_loader)
  \/ NoDescriptor \/ NewDescriptor \/ disk_get \/ fs_open
  \/ file_table_open_file \/ TooManyFiles \/ FopenFails
  \/ \E stream \in Addresses : fclose(stream)
  \/ fstat \/ kzalloc \/ fread \/ LoadCloses \/ LoadClosesAgain

Spec == Init /\ [][Next]_vars
-----------------------------------------------------------------------------
(* Properties. *)

(* Every variable keeps its type; the fileno of a FILE is a slot or -1     *)
(* (file_table.c:18-53).                                                   *)
TypeOK ==
  /\ table \in [Slots -> Addresses \cup {NULL}]
  /\ fileno \in [Addresses -> Slots \cup {-1}]
  /\ live \subseteq Addresses /\ path \subseteq Addresses /\ priv \subseteq Addresses
  /\ pc \in Pcs
  /\ descriptor \in Addresses \cup {NULL}
  /\ loading \in BOOLEAN /\ failed \in BOOLEAN
  /\ memory \in BOOLEAN /\ wild \in BOOLEAN

(* A slot of the table never points to a freed FILE or to one whose path   *)
(* or descriptor is gone, and its FILE names that slot, so no FILE is in   *)
(* two slots (file_table.c:29-53, file.c:119-144).                         *)
TableSound ==
  \A i \in Slots :
    table[i] # NULL => /\ fileno[table[i]] = i
                       /\ table[i] \in live \cap path \cap priv

(* Between two calls every object that fopen allocated belongs to a file   *)
(* that is open, and so is freed by its fclose, wherever an fopen before   *)
(* failed (file.c:71-114).                                                 *)
NothingLeaks ==
  pc = "idle" => \A a \in live \cup path \cup priv : \E i \in Slots : table[i] = a

(* The table of open files holds whole files and everything that fopen     *)
(* left allocated, also after fopens that failed half way or found the     *)
(* table full (file.c:54-144, file_table.c:18-53).                         *)
FilesSound == TableSound /\ NothingLeaks

(* fread and fstat look the FILE up again by the stream's fileno           *)
(* (file.c:148, 170): while process_load_binary uses its stream, what they *)
(* find is that stream.                                                    *)
StreamIsItself ==
  pc \in {"fstat", "kzalloc", "fread"} =>
    /\ descriptor # NULL
    /\ fileno[descriptor] \in Slots
    /\ table[fileno[descriptor]] = descriptor

(* process_load_binary gives up its buffer exactly when it reports an      *)
(* error (process.c:100-111).                                              *)
BufferFreed == pc = "idle" => ~memory

(* process_load_binary reads from the stream it opened, and keeps its      *)
(* buffer on no error path (process.c:67-114).                             *)
LoaderSound == StreamIsItself /\ BufferFreed

(* process_load_binary tests its stream, "if (fd)", before it closes it    *)
(* (process.c:101-103): no fclose of it goes through NULL or a freed FILE. *)
ClosesOpenStream == ~wild
=============================================================================
