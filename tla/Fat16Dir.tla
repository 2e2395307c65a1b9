------------------------------ MODULE Fat16Dir ------------------------------
(***************************************************************************)
(* Finding a file by its path: fat16_open, traverse_path and               *)
(* fat16_find_entry_in_dir of fs/fat16.c.  One action reads one directory  *)
(* entry, opens one folder or ends the call.                               *)
(*                                                                         *)
(* A directory is the sequence of its entries: that reading it through its *)
(* clusters yields them in order is what Fat16 checks.  The root directory *)
(* is read by other rules, and they are modelled here: its end is decided  *)
(* by __fat16_adjust_cursors_root_dir, and its cursor does not wrap at the *)
(* end of a cluster.                                                       *)
(***************************************************************************)
EXTENDS Integers, Sequences

CONSTANTS
  EntrySize,   \* sizeof(struct fat_entry_t)
  DataSectors,    \* the values of data_sector to be looked at
  ClusterSizes,   \* the values of bytes_per_cluster to be looked at
  Dirs, ROOT,  \* the directories of the volume
  Names,       \* names, as padded 8.3 names compare
  Volumes,     \* what the directories may hold: [Dirs -> Seq(Entries)]
  Paths        \* the paths callers ask for

FILE == "file"
NULL == "NULL"

(* kind "skip" is a long name or a volume label, "end" a name that starts  *)
(* with 0; `to' is where the entry leads.                                  *)
Entries ==
  {[kind |-> k, name |-> n, to |-> FILE] : k \in {"skip", "end", "file"}, n \in Names}
    \cup {[kind |-> "dir", name |-> n, to |-> t] : n \in Names, t \in Dirs \ {ROOT}}

ASSUME DirAssumption ==
  /\ EntrySize \in Nat \ {0}
  /\ ROOT \in Dirs /\ FILE \notin Dirs /\ NULL \notin Dirs
  /\ Volumes \subseteq [Dirs -> Seq(Entries)]
  /\ Paths \subseteq Seq(Names)
  /\ DataSectors \subseteq Nat
  /\ ClusterSizes \subseteq {k \in Nat : k > 0 /\ k % EntrySize = 0}
  (* Else, behind a root without end mark, data would be read as entries. *)
  /\ \A v \in Volumes, s \in DataSectors : s <= Len(v[ROOT]) * EntrySize
  (* A directory has at least one cluster. *)
  /\ \A v \in Volumes, t \in Dirs \ {ROOT} : v[t] # <<>>

VARIABLES
  dirs, data_sector, bytes_per_cluster,   \* the volume
  asked, path, \* the path of the call, and what is left of it
  pc,
  item,        \* where traverse_path's item leads, or NULL
  folder,      \* the directory folder_descriptor is open on, or NULL
  pos, eof,    \* folder_descriptor's; in the root relative_pos is pos
  nomem,       \* an allocation failed in this call
  found        \* what the descriptor of the last fat16_open leads to, or NULL

volume == <<dirs, data_sector, bytes_per_cluster>>
vars == <<volume, asked, path, pc, item, folder, pos, eof, nomem, found>>

Init ==
  /\ dirs \in Volumes /\ data_sector \in DataSectors /\ bytes_per_cluster \in ClusterSizes
  /\ asked = <<>> /\ path = <<>>
  /\ pc = "idle" /\ item = NULL /\ folder = NULL
  /\ pos = 0 /\ eof = FALSE /\ nomem = FALSE /\ found = NULL

(* traverse_path starts with a copy of the root's item.  The copy is made  *)
(* whether or not kzalloc found room: what a write to NULL does is         *)
(* undefined.                                                              *)
traverse_path(p) ==
  /\ pc = "idle"
  /\ asked' = p /\ path' = p
  /\ \/ item' = ROOT /\ pc' = "part" /\ nomem' = FALSE
     \/ item' = NULL /\ pc' = "undefined" /\ nomem' = TRUE
  /\ UNCHANGED <<volume, folder, pos, eof, found>>

BUG_KeepItem == item

(* The item is freed once its folder is open, or was refused. *)
ItemFreed == NULL

(* __fat16_open(disk, item) for the next part of the path. *)
OpenFolder ==
  /\ pc = "part" /\ path # <<>>
  /\ item' = ItemFreed
  /\ \/ folder' = item /\ pc' = "scan" /\ UNCHANGED <<nomem, found>>
     \/ folder' = NULL /\ nomem' = TRUE /\ pc' = "idle" /\ found' = NULL
  /\ pos' = 0 /\ eof' = FALSE
  /\ UNCHANGED <<volume, asked, path>>

(* fat16_find_entry_in_dir without an item; fat16_open returns NULL too. *)
NotFound ==
  /\ folder' = NULL /\ pc' = "idle" /\ found' = NULL
  /\ UNCHANGED item

(* A part that is not the last names a file. *)
NotADirectory ==
  /\ pc = "scan" /\ folder = FILE
  /\ NotFound
  /\ UNCHANGED <<volume, asked, path, pos, eof, nomem>>

EndOfDirectory ==
  /\ pc = "scan" /\ folder # FILE /\ eof
  /\ NotFound
  /\ UNCHANGED <<volume, asked, path, pos, eof, nomem>>

Scanning == pc = "scan" /\ folder # FILE /\ ~eof

(* In the root, at the end of the first cluster, __fat16_read asks the     *)
(* stream for nothing and returns 0: the loop sees the old entry again.    *)
StaleEntry ==
  /\ Scanning /\ folder = ROOT /\ pos = bytes_per_cluster
  /\ UNCHANGED vars

(* The end of a directory after a read up to position p: for the root the  *)
(* position, in bytes, is compared with data_sector, a number of sectors.  *)
AtEof(p) ==
  IF folder = ROOT THEN p >= data_sector ELSE p >= Len(dirs[folder]) * EntrySize

BUG_LabelsMatch(entry) == entry.kind # "end" /\ entry.name # Head(path)

(* The loop goes on past labels, long names and other names. *)
Skipped(entry) == entry.kind = "skip" \/ (entry.kind # "end" /\ entry.name # Head(path))

BUG_CountEntries == pos + 1

BUG_Stuck == pos

(* pos after an entry has been read. *)
NextPos == pos + EntrySize

(* One pass of the loop of fat16_find_entry_in_dir. *)
ReadEntry ==
  /\ Scanning /\ (folder = ROOT => pos # bytes_per_cluster)
  /\ pos' = NextPos
  /\ LET entry == dirs[folder][pos \div EntrySize + 1]
         eio   == folder = ROOT /\ pos' > data_sector
     IN
     \/ /\ eio
        /\ eof' = TRUE /\ NotFound
        /\ UNCHANGED <<path, nomem>>
     \/ /\ ~eio /\ Skipped(entry)
        /\ eof' = AtEof(pos')
        /\ UNCHANGED <<path, pc, item, folder, nomem, found>>
     \/ /\ ~eio /\ ~Skipped(entry) /\ entry.kind = "end"
        /\ eof' = TRUE /\ NotFound
        /\ UNCHANGED <<path, nomem>>
     \/ /\ ~eio /\ ~Skipped(entry) /\ entry.kind # "end"
        /\ eof' = AtEof(pos')
        /\ folder' = NULL
        /\ \/ /\ item' = entry.to /\ path' = Tail(path) /\ pc' = "part"
              /\ UNCHANGED <<nomem, found>>
           \/ /\ item' = NULL /\ nomem' = TRUE /\ pc' = "idle" /\ found' = NULL
              /\ UNCHANGED path
  /\ UNCHANGED <<volume, asked>>

(* The path is used up: fat16_open opens the item and frees it. *)
fat16_open ==
  /\ pc = "part" /\ path = <<>>
  /\ item' = ItemFreed
  /\ \/ found' = item /\ UNCHANGED nomem
     \/ found' = NULL /\ nomem' = TRUE
  /\ pc' = "idle"
  /\ UNCHANGED <<volume, asked, path, folder, pos, eof>>

Step == OpenFolder \/ NotADirectory \/ EndOfDirectory \/ StaleEntry \/ ReadEntry \/ fat16_open

Next == (\E p \in Paths : traverse_path(p)) \/ Step

Spec     == Init /\ [][Next]_vars
(* The call is a loop of the one caller: nothing can take its turn away. *)
FairSpec == Spec /\ WF_vars(Step)
-----------------------------------------------------------------------------
(* Properties. *)

(* Every variable keeps its type; the position stays on an entry and       *)
(* inside the directory (fat16.c:351-357).                                 *)
TypeOK ==
  /\ asked \in Seq(Names) /\ path \in Seq(Names) /\ Len(path) <= Len(asked)
  /\ pc \in {"idle", "part", "scan", "undefined"}
  /\ item \in Dirs \cup {FILE, NULL} /\ folder \in Dirs \cup {FILE, NULL}
  /\ found \in Dirs \cup {FILE, NULL}
  /\ eof \in BOOLEAN /\ nomem \in BOOLEAN
  /\ pos \in Nat /\ pos % EntrySize = 0
  /\ folder \in Dirs => pos <= Len(dirs[folder]) * EntrySize

(* What a path names, read off the volume: from the root on, each part     *)
(* leads where the first entry of that name before the end mark leads; of  *)
(* the root, only entries that end within its first `reach' bytes count.   *)
Matches(entry, name) == entry.kind \in {"file", "dir"} /\ entry.name = name

Leads(t, name, u, reach) ==
  /\ t \in Dirs
  /\ \E k \in 1..Len(dirs[t]) :
       /\ Matches(dirs[t][k], name) /\ dirs[t][k].to = u
       /\ t = ROOT => k * EntrySize <= reach
       /\ \A j \in 1..(k - 1) : dirs[t][j].kind # "end" /\ ~Matches(dirs[t][j], name)

Route(w, p, reach) ==
  w[0] = ROOT /\ \A k \in 1..Len(p) : Leads(w[k - 1], p[k], w[k], reach)

Denoted(p, reach) ==
  {w[Len(p)] : w \in {w \in [0..Len(p) -> Dirs \cup {FILE}] : Route(w, p, reach)}}

RootBytes == Len(dirs[ROOT]) * EntrySize

(* A path that opens, opens what it names: no label, no entry behind the   *)
(* end mark and no second entry of the name is taken for it                *)
(* (fat16.c:249-278, 351-385).                                             *)
OpensWhatIsNamed ==
  pc = "idle" /\ found # NULL => Denoted(asked, RootBytes) = {found}

Refused == pc = "idle" /\ found = NULL /\ ~nomem /\ asked # <<>>

(* A path is refused only for want of memory, or because it names nothing  *)
(* that lies within the first data_sector bytes of the root: in a          *)
(* subdirectory every entry is found, the last of a full one included      *)
(* (fat16.c:120-135, 325-391).                                             *)
FindsWithinReach == Refused => Denoted(asked, data_sector) = {}

(* A lookup finds what the path names and nothing else, as far as the root *)
(* is read (fat16.c:249-278, 325-391).                                     *)
LookupExact == OpensWhatIsNamed /\ FindsWithinReach

(* A path that names something is refused only for want of memory: the     *)
(* root holds root_dir_entries entries (fat16_header.inc:14,               *)
(* fat16.c:249-278, 325-391).                                              *)
FindsWhatIsThere == Refused => Denoted(asked, RootBytes) = {}

(* traverse_path frees every item and folder descriptor on every way out,  *)
(* and keeps one of the two from one pass of its loop to the next          *)
(* (fat16.c:256-275, 563-565).                                             *)
NothingKept ==
  /\ pc = "idle" => item = NULL /\ folder = NULL
  /\ item # NULL => folder = NULL

(* Every lookup ends, if a cluster reaches at least as far as the root is  *)
(* read (fat16.c:256-275, 351-385, 430).                                   *)
LookupEnds ==
  (pc = "scan" /\ bytes_per_cluster >= data_sector) ~> (pc # "scan")
=============================================================================
