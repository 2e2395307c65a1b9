------------------------------- MODULE Fat16 -------------------------------
(***************************************************************************)
(* Reading files from a FAT16 volume (fs/fat16.c over disk_stream.c).      *)
(*                                                                         *)
(* Every read of every open file goes through one disk stream              *)
(* (private->dev), whose position also moves when a FAT entry is read; a   *)
(* read is cut at cluster and at sector boundaries, and after each piece   *)
(* the chain of clusters is followed again from the first cluster.  One    *)
(* action is one iteration of one of these loops.                          *)
(*                                                                         *)
(* A byte is named by its address on the disk, so what a read delivers     *)
(* tells where it was read from.  The volume is fixed: files are laid out  *)
(* over disjoint clusters, and at most one FAT entry is damaged.           *)
(***************************************************************************)
EXTENDS FatVolume, Sequences, FiniteSets

CONSTANTS
  Files,         \* the files of the volume
  Descriptors,   \* struct fat_descriptor_t objects
  Layouts,       \* the ways the files may lie on the volume
  Sizes,         \* the sizes they may have
  Requests,      \* what callers ask for: size and nmemb
  WordSize       \* the values of a uint32_t, 2^32

NONE == "none"
EIO  == -1         \* the sign is all that callers look at

ASSUME FilesAssumption ==
  /\ NONE \notin Files /\ WordSize \in Nat \ {0}
  /\ Requests \subseteq Nat \X Nat /\ Sizes \subseteq 0..(WordSize - 1)
  /\ \A l \in Layouts, f \in Files : l[f] \in Seq(Clusters)
  /\ \A l \in Layouts, f \in Files, g \in Files :
       \A i \in 1..Len(l[f]), j \in 1..Len(l[g]) :
         l[f][i] = l[g][j] => f = g /\ i = j

VARIABLES
  layout,        \* the clusters of each file, in order
  size,          \* entry.size_bytes of each file
  fat,           \* the FAT, as it is on the disk
  file,          \* the file a descriptor is open on, or NONE
  pos, relative_pos, sector, eof, error,    \* of each descriptor; sector is
                                            \* current_cluster_first_sector
  ppos,          \* private->dev->ppos
  pc,            \* where the call of fat16_read is
  d, args,       \* its arguments: the descriptor, size and nmemb
  start,         \* the position it started at
  len, read,     \* locals of __fat16_read
  cluster, steps, caller,   \* fat16_follow_cluster_chain, and where the
                            \* cursors' adjustment returns to
  want, got, block, offset, \* diskstream_read: len, read_so_far, sector, offset
  result,        \* what the last call returned
  out            \* every byte delivered through a descriptor since its open

volume  == <<layout, size, fat>>
cursors == <<pos, relative_pos, sector, eof, error>>
request == <<d, args, start>>
chain   == <<cluster, steps, caller>>
stream  == <<want, got, block, offset>>
vars == <<volume, file, cursors, ppos, pc, request, len, read, chain, stream, result, out>>

Pcs == {"idle", "follow", "check", "chunk", "sector", "done"}

(* The FAT that a layout means. *)
Linked(l) ==
  [c \in 0..MaxCluster |->
     IF \E f \in Files : \E k \in 1..Len(l[f]) : l[f][k] = c
     THEN LET f == CHOOSE f \in Files : \E k \in 1..Len(l[f]) : l[f][k] = c
              k == CHOOSE k \in 1..Len(l[f]) : l[f][k] = c
          IN  IF k < Len(l[f]) THEN l[f][k + 1] ELSE END
     ELSE FREE]

first_cluster(f) == IF layout[f] = <<>> THEN 0 ELSE layout[f][1]
first_sector(f)  == fat16_cluster_number_to_data_sector(first_cluster(f))

(* A volume in use: a file's size needs exactly its clusters. *)
Init ==
  /\ layout \in Layouts
  /\ size \in [Files -> Sizes]
  /\ \A f \in Files :
       /\ size[f] <= Len(layout[f]) * bytes_per_cluster
       /\ size[f] > (Len(layout[f]) - 1) * bytes_per_cluster
  /\ \/ fat = Linked(layout)
     \/ \E f \in Files : \E k \in 1..(Len(layout[f]) - 1) :
          \E v \in {FREE, RESERVED, BAD, END} :
            fat = [Linked(layout) EXCEPT ![layout[f][k]] = v]
  /\ file = [x \in Descriptors |-> NONE]
  /\ pos = [x \in Descriptors |-> 0] /\ relative_pos = pos /\ sector = pos
  /\ eof = [x \in Descriptors |-> FALSE] /\ error = pos
  /\ ppos = 0 /\ pc = "idle"
  /\ d \in Descriptors
  /\ args = <<0, 0>> /\ start = 0 /\ len = 0 /\ read = 0
  /\ cluster = 0 /\ steps = 0 /\ caller = "check"
  /\ want = 0 /\ got = 0 /\ block = 0 /\ offset = 0
  /\ result = 0 /\ out = [x \in Descriptors |-> <<>>]
-----------------------------------------------------------------------------
(* __fat16_open with the item of f: kzalloc and __fat16_reset_cursors. *)
fat16_open(x, f) ==
  /\ pc = "idle" /\ file[x] = NONE
  /\ file' = [file EXCEPT ![x] = f]
  /\ sector' = [sector EXCEPT ![x] = first_sector(f)]
  /\ UNCHANGED <<volume, pos, relative_pos, eof, error, ppos, pc, request, len, read,
                 chain, stream, result, out>>

(* kfree(descriptor); a freed one reads as a new one, for kzalloc clears it. *)
fat16_close(x) ==
  /\ pc = "idle" /\ file[x] # NONE
  /\ file' = [file EXCEPT ![x] = NONE]
  /\ pos' = [pos EXCEPT ![x] = 0] /\ relative_pos' = [relative_pos EXCEPT ![x] = 0]
  /\ sector' = [sector EXCEPT ![x] = 0]
  /\ eof' = [eof EXCEPT ![x] = FALSE] /\ error' = [error EXCEPT ![x] = 0]
  /\ out' = [out EXCEPT ![x] = <<>>]
  /\ UNCHANGED <<volume, ppos, pc, request, len, read, chain, stream, result>>

(* The start of __fat16_adjust_cursors_non_root; `then' is its caller.     *)
AdjustCursors(x, by, then) ==
  /\ pos' = [pos EXCEPT ![x] = @ + by]
  /\ caller' = then
  /\ IF first_cluster(file[x]) = 0
     THEN /\ eof' = [eof EXCEPT ![x] = TRUE]
          /\ pc' = then
          /\ UNCHANGED <<cluster, steps>>
     ELSE /\ cluster' = fat16_sector_to_cluster_number(first_sector(file[x]))
          /\ steps' = pos'[x] \div bytes_per_cluster
          /\ pc' = "follow"
          /\ UNCHANGED eof

(* fat16_read(descriptor, size, nmemb, out): adjusts the cursors by 0. *)
fat16_read(x, a) ==
  /\ pc = "idle" /\ file[x] # NONE
  /\ d' = x /\ args' = a /\ start' = pos[x] /\ read' = 0
  /\ AdjustCursors(x, 0, "check")
  /\ UNCHANGED <<volume, file, relative_pos, sector, error, ppos, len, stream, result, out>>

ChainOver == steps = 0 \/ cluster >= END

(* The steps left: the loop breaks at an entry that is no cluster. *)
StepsLeft(next) == IF next \in {FREE, RESERVED, BAD} THEN 0 ELSE steps - 1

(* One link of fat16_follow_cluster_chain; reading it moves the stream. *)
fat16_follow_cluster_chain ==
  /\ pc = "follow" /\ ~ChainOver
  /\ cluster' = fat16_read_fat(fat, cluster)
  /\ steps' = StepsLeft(cluster')
  /\ ppos' = FatAddress(cluster) + FatEntrySize
  /\ UNCHANGED <<volume, file, cursors, pc, request, len, read, caller, stream, result, out>>

BUG_RelativePos == pos[d]

RelativePos == pos[d] % bytes_per_cluster

BUG_OnlyBad == cluster = BAD

BadCluster == cluster \in {RESERVED, BAD}

(* The rest of __fat16_adjust_cursors_non_root. *)
SetCursors ==
  /\ pc = "follow" /\ ChainOver
  /\ relative_pos' = [relative_pos EXCEPT ![d] = RelativePos]
  /\ IF BadCluster
     THEN /\ error' = [error EXCEPT ![d] = EIO] /\ result' = EIO
          /\ pc' = IF caller = "check" THEN "idle" ELSE "done"
          /\ UNCHANGED <<sector, eof>>
     ELSE /\ pc' = caller
          /\ IF cluster < END
             THEN /\ sector' = [sector EXCEPT
                       ![d] = fat16_cluster_number_to_data_sector(cluster)]
                  /\ UNCHANGED eof
             ELSE /\ eof' = [eof EXCEPT ![d] = TRUE]
                  /\ UNCHANGED sector
          /\ UNCHANGED <<error, result>>
  /\ UNCHANGED <<volume, file, pos, ppos, request, len, read, chain, stream, out>>

(* size * nmemb, in 32 bits. *)
nbytes == (args[1] * args[2]) % WordSize

BUG_Whole == nbytes

(* What is left of the file, at most what was asked for. *)
Length == Lesser(nbytes, size[file[d]] - pos[d])

AtEnd == pos[d] >= size[file[d]]

(* fat16_read between its two calls. *)
CheckEnd ==
  /\ pc = "check"
  /\ IF eof[d] \/ AtEnd
     THEN /\ eof' = [eof EXCEPT ![d] = TRUE]
          /\ result' = 0 /\ pc' = "idle"
          /\ UNCHANGED len
     ELSE /\ len' = Length /\ pc' = "chunk"
          /\ UNCHANGED <<eof, result>>
  /\ UNCHANGED <<volume, file, pos, relative_pos, sector, error, ppos, request, read,
                 chain, stream, out>>

descriptor_to_absolute_address == sector[d] * SectorSize + relative_pos[d]

BUG_SeekOnce == IF read = 0 THEN descriptor_to_absolute_address ELSE ppos

(* diskstream_seek: before every chunk, for the stream is shared. *)
SeekTo == descriptor_to_absolute_address

(* __fat16_read begins a chunk, at most to the end of the cluster. *)
BeginChunk ==
  /\ pc = "chunk" /\ read < len /\ ~eof[d]
  /\ ppos' = SeekTo
  /\ want' = Lesser(len - read, bytes_per_cluster - relative_pos[d])
  /\ got' = 0
  /\ block' = ppos' \div SectorSize /\ offset' = ppos' % SectorSize
  /\ pc' = "sector"
  /\ UNCHANGED <<volume, file, cursors, request, len, read, chain, result, out>>

(* One sector of diskstream_read; only the first has an offset. *)
diskstream_read ==
  /\ pc = "sector" /\ got < want
  /\ LET to_copy == Lesser(want - got, SectorSize - offset)
         from    == block * SectorSize + offset
     IN  /\ out' = [out EXCEPT ![d] = @ \o [k \in 1..to_copy |-> from + k - 1]]
         /\ got' = got + to_copy
  /\ offset' = 0 /\ block' = block + 1
  /\ UNCHANGED <<volume, file, cursors, ppos, pc, request, len, read, chain, want, result>>

(* __fat16_read after diskstream_read.  It would give up if the stream had *)
(* read nothing, but disk_read_block reports no error and a chunk is never *)
(* empty, since relative_pos stays below bytes_per_cluster (TypeOK).       *)
EndChunk ==
  /\ pc = "sector" /\ got = want
  /\ ppos' = ppos + got
  /\ read' = read + got
  /\ AdjustCursors(d, got, "chunk")
  /\ UNCHANGED <<volume, file, relative_pos, sector, error, request, len, stream, result, out>>

(* __fat16_read's loop is over. *)
ReadOver ==
  /\ pc = "chunk" /\ (read >= len \/ eof[d])
  /\ result' = read /\ pc' = "done"
  /\ UNCHANGED <<volume, file, cursors, ppos, request, len, read, chain, stream, out>>

(* The end of fat16_read. *)
ReadReturns ==
  /\ pc = "done"
  /\ eof' = [eof EXCEPT ![d] = @ \/ AtEnd]
  /\ pc' = "idle"
  /\ UNCHANGED <<volume, file, pos, relative_pos, sector, error, ppos, request, len, read,
                 chain, stream, result, out>>

Step ==
  \/ fat16_follow_cluster_chain \/ SetCursors \/ CheckEnd
  \/ BeginChunk \/ diskstream_read \/ EndChunk \/ ReadOver \/ ReadReturns

Next ==
  \/ \E x \in Descriptors, f \in Files : fat16_open(x, f)
  \/ \E x \in Descriptors : fat16_close(x)
  \/ \E x \in Descriptors, a \in Requests : fat16_read(x, a)
  \/ Step

Spec == Init /\ [][Next]_vars
-----------------------------------------------------------------------------
(* Properties. *)

(* The first cluster of f that its FAT entries do not lead to. *)
Intact(f) ==
  CHOOSE n \in 0..Len(layout[f]) :
    /\ \A k \in 1..(n - 1) : fat[layout[f][k]] = layout[f][k + 1]
    /\ n < Len(layout[f]) => n > 0 /\ fat[layout[f][n]] # layout[f][n + 1]

(* How many bytes of f can be reached, and the address of each of them. *)
Reachable(f)   == Lesser(size[f], Intact(f) * bytes_per_cluster)
Address(f, k)  ==
  fat16_cluster_number_to_data_sector(layout[f][k \div bytes_per_cluster + 1]) * SectorSize
    + (k % bytes_per_cluster)
Broken(f)      == fat[layout[f][Intact(f)]]
Damaged(f)     == Intact(f) < Len(layout[f])

(* Every variable keeps its type; the cursor within a cluster stays inside *)
(* it (fat16.c:198-224, 423-448).                                          *)
TypeOK ==
  /\ file \in [Descriptors -> Files \cup {NONE}]
  /\ pos \in [Descriptors -> Nat]
  /\ relative_pos \in [Descriptors -> 0..(bytes_per_cluster - 1)]
  /\ sector \in [Descriptors -> Nat]
  /\ eof \in [Descriptors -> BOOLEAN] /\ error \in [Descriptors -> {0, EIO}]
  /\ ppos \in Nat /\ pc \in Pcs /\ d \in Descriptors
  /\ args \in Requests \cup {<<0, 0>>} /\ start \in Nat /\ len \in Nat /\ read \in Nat
  /\ cluster \in 0..END /\ steps \in Nat /\ caller \in {"check", "chunk"}
  /\ want \in Nat /\ got \in Nat /\ block \in Nat /\ offset \in 0..(SectorSize - 1)
  /\ result \in Nat \cup {EIO}

(* Whatever sizes a file is read in, and however its reads alternate with  *)
(* those of another descriptor on the shared stream, what has been         *)
(* delivered is the file from its first byte on.  Behind a link that reads *)
(* as free the boot sector takes its place, for cluster 0 is sector 0      *)
(* (fat16.c:63-70, 217-218).                                               *)
ContentExact ==
  \A x \in Descriptors : file[x] # NONE =>
    \A k \in 1..Len(out[x]) :
      IF k <= Reachable(file[x])
      THEN out[x][k] = Address(file[x], k - 1)
      ELSE Broken(file[x]) = FREE /\ out[x][k] < bytes_per_cluster

(* A read of a sound file returns exactly what was asked for, or what is   *)
(* left of the file, and the position and the bytes delivered advance by   *)
(* that much (fat16.c:589-601).  A request of 2^32 bytes or more counts    *)
(* with the remainder of its size only (fat16.c:594): it is read short,    *)
(* with bytes left and no error, but the position stays right.             *)
Delivered ==
  pc # "idle" /\ pc' = "idle" /\ ~Damaged(file[d]) =>
    /\ LET asked == args[1] * args[2]
           left  == size[file[d]] - start
       IN  result' = Lesser(IF asked < WordSize THEN asked ELSE asked % WordSize, left)
    /\ pos'[d] = start + result'
    /\ Len(out'[d]) = pos'[d]
CountExact == [][Delivered]_vars

(* A file whose chain has a bad or reserved link is never read past it,    *)
(* and a read that runs into the link fails and leaves the error in the    *)
(* descriptor (fat16.c:112-114, 212-215).                                  *)
BadLinkReported ==
  \A x \in Descriptors :
    file[x] # NONE /\ Damaged(file[x]) /\ Broken(file[x]) \in {RESERVED, BAD} =>
      /\ pos[x] <= Reachable(file[x])
      /\ pc = "idle" /\ pos[x] = Reachable(file[x]) => error[x] = EIO /\ ~eof[x]

(* eof is set only at the end of the file, or where its chain ends early   *)
(* (fat16.c:202-204, 219-221, 589-599).                                    *)
EofAtEnd ==
  \A x \in Descriptors : file[x] # NONE /\ eof[x] =>
    \/ pos[x] >= size[file[x]]
    \/ Damaged(file[x]) /\ Broken(file[x]) = END /\ pos[x] = Reachable(file[x])

(* A descriptor at rest says truly why it delivers no more: eof at the end *)
(* of the file or of its chain, an error at a bad link, and one of them    *)
(* never for the other (fat16.c:202-221, 589-601).                         *)
EndsExact == BadLinkReported /\ EofAtEnd
=============================================================================
