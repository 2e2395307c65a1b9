---------------------------- MODULE Fat16Proofs ----------------------------
(***************************************************************************)
(* What is read from a FAT16 volume, for any geometry, any layout of any   *)
(* number of files, any damaged link and any sequence of reads.            *)
(***************************************************************************)
EXTENDS Fat16, TLAPS

B == bytes_per_cluster

(* The chain of f: sound up to cluster Intact(f), and what follows it is   *)
(* no cluster.                                                             *)
ChainOf(f) ==
  /\ layout[f] \in Seq(Clusters) /\ size[f] \in Nat
  /\ size[f] <= Len(layout[f]) * B /\ size[f] > (Len(layout[f]) - 1) * B
  /\ Intact(f) \in 0..Len(layout[f])
  /\ \A k \in 1..(Intact(f) - 1) : fat[layout[f][k]] = layout[f][k + 1]
  /\ layout[f] # <<>> => Intact(f) > 0 /\ Broken(f) \in {FREE, RESERVED, BAD, END}
  /\ layout[f] # <<>> /\ ~Damaged(f) => Broken(f) = END

VolumeInv == \A f \in Files : ChainOf(f)

(* A descriptor that is not open is clear. *)
FreshInv ==
  \A x \in Descriptors : file[x] = NONE =>
    pos[x] = 0 /\ eof[x] = FALSE /\ error[x] = 0

(* Only behind a link that reads as free do positions pass the chain. *)
PosInv ==
  \A x \in Descriptors : file[x] # NONE =>
    /\ pos[x] <= size[file[x]]
    /\ layout[file[x]] # <<>> /\ Broken(file[x]) # FREE => pos[x] <= Intact(file[x]) * B

(* As many bytes were delivered as the position says. *)
InFlight(x) == IF pc = "sector" /\ x = d THEN got ELSE 0
OutInv ==
  /\ out \in [Descriptors -> Seq(Nat)]
  /\ \A x \in Descriptors : Len(out[x]) = pos[x] + InFlight(x)

(* The cluster the position of the call lies in. *)
Turn == pos[d] \div B

(* The walk along the chain: on it, or stopped behind it. *)
WalkInv ==
  pc = "follow" =>
    /\ layout[file[d]] # <<>>
    /\ \/ \E j \in 1..Intact(file[d]) :
            cluster = layout[file[d]][j] /\ steps = Turn + 1 - j
       \/ /\ cluster = Broken(file[d]) /\ Turn >= Intact(file[d])
          /\ Broken(file[d]) # END => steps = 0

(* After the walk the cursors are where the position says. *)
CursorInv ==
  pc \in {"check", "chunk", "sector"} /\ ~eof[d] =>
    /\ relative_pos[d] = pos[d] % B
    /\ IF Turn < Intact(file[d])
       THEN sector[d] = fat16_cluster_number_to_data_sector(layout[file[d]][Turn + 1])
       ELSE Broken(file[d]) = FREE /\ sector[d] = 0

(* The call: what it has read, and what it was asked for. *)
Early == pc = "check" \/ (pc = "follow" /\ caller = "check")
Late  == pc \in {"chunk", "sector", "done"} \/ (pc = "follow" /\ caller = "chunk")

CallInv ==
  /\ pc # "idle" => file[d] # NONE
  /\ Early => read = 0 /\ pos[d] = start
  /\ Late => /\ pos[d] = start + read /\ read <= len
             /\ start < size[file[d]] /\ len = Lesser(nbytes, size[file[d]] - start)
  /\ pc = "done" /\ ~Damaged(file[d]) => result = read /\ read = len

(* The chunk under way: the next byte to copy is the next of the chunk. *)
ChunkInv ==
  pc = "sector" =>
    /\ ~eof[d] /\ want > 0 /\ got <= want
    /\ read + want <= len /\ relative_pos[d] + want <= B
    /\ got < want => block * SectorSize + offset = descriptor_to_absolute_address + got

(* A descriptor at a bad link has reported it, unless its call is on the   *)
(* way to find out.                                                        *)
ErrorInv ==
  \A x \in Descriptors :
    /\ file[x] # NONE /\ Damaged(file[x]) /\ Broken(file[x]) \in {RESERVED, BAD}
    /\ pos[x] = Intact(file[x]) * B /\ ~(x = d /\ pc = "follow")
    => error[x] = EIO

FInv ==
  /\ TypeOK /\ VolumeInv /\ FreshInv /\ PosInv /\ OutInv /\ WalkInv /\ CursorInv
  /\ CallInv /\ ChunkInv /\ ErrorInv /\ EofAtEnd /\ ContentExact
-----------------------------------------------------------------------------
(* Arithmetic of positions and clusters. *)

LEMMA DivModOf ==
  ASSUME NEW w \in Nat \ {0}, NEW a \in Nat
  PROVE  /\ a \div w \in Nat /\ a % w \in 0..(w - 1)
         /\ a = (a \div w) * w + (a % w)
  OBVIOUS

LEMMA DivMod ==
  ASSUME NEW w \in Nat \ {0}, NEW q \in Nat, NEW r \in 0..(w - 1)
  PROVE  (q * w + r) \div w = q /\ (q * w + r) % w = r
  OBVIOUS

LEMMA Scaled ==
  ASSUME NEW w \in Nat \ {0}, NEW a \in Int, NEW b \in Int
  PROVE  /\ a * w \in Int /\ (a + 1) * w = a * w + w
         /\ a <= b => a * w <= b * w
         /\ a \in Nat => a * w \in Nat
<1>1. a * w \in Int /\ b * w \in Int /\ (a + 1) * w = a * w + w
  OBVIOUS
<1>2. ASSUME a <= b PROVE a * w <= b * w
  <2>1. b * w = a * w + (b - a) * w /\ (b - a) * w >= 0
    BY <1>2
  <2> QED
    BY <1>1, <2>1
<1>3. ASSUME a \in Nat PROVE a * w \in Nat
  BY <1>3
<1> QED
  BY <1>1, <1>2, <1>3

(* A position lies in one of the first n clusters iff it is less than      *)
(* their size.                                                             *)
LEMMA InCluster ==
  ASSUME NEW w \in Nat \ {0}, NEW p \in Nat, NEW n \in Nat
  PROVE  /\ p \div w < n <=> p < n * w
         /\ p \div w < n => p - (p % w) + w <= n * w
<1> DEFINE q == p \div w
           r == p % w
<1>1. q \in Nat /\ r \in 0..(w - 1) /\ p = q * w + r
  BY DivModOf
<1> HIDE DEF q, r
<1>2. q * w \in Nat /\ n * w \in Nat /\ (q + 1) * w = q * w + w
  BY <1>1, Scaled
<1>3. q < n => (q + 1) * w <= n * w
  <2>1. q < n => q + 1 <= n
    BY <1>1
  <2> QED
    BY <1>1, <2>1, Scaled
<1>4. ~(q < n) => n * w <= q * w
  <2>1. ~(q < n) => n <= q
    BY <1>1
  <2> QED
    BY <1>1, <2>1, Scaled
<1>5. q < n <=> p < n * w
  BY <1>1, <1>2, <1>3, <1>4
<1>6. q < n => p - r + w <= n * w
  BY <1>1, <1>2, <1>3
<1> QED
  BY <1>5, <1>6 DEF q, r

(* Positions of one cluster. *)
LEMMA SameCluster ==
  ASSUME NEW w \in Nat \ {0}, NEW p \in Nat, NEW k \in Nat, (p % w) + k < w
  PROVE  (p + k) \div w = p \div w /\ (p + k) % w = (p % w) + k
<1> DEFINE q == p \div w
           r == p % w
<1>1. q \in Nat /\ r \in 0..(w - 1) /\ p = q * w + r /\ r + k < w
  BY DivModOf
<1> HIDE DEF q, r
<1>2. r + k \in 0..(w - 1) /\ p + k = q * w + (r + k)
  BY <1>1
<1>3. (q * w + (r + k)) \div w = q /\ (q * w + (r + k)) % w = r + k
  BY <1>1, <1>2, DivMod
<1> QED
  BY <1>2, <1>3 DEF q, r

LEMMA Geometry ==
  /\ B \in Nat \ {0} /\ SectorSize \in Nat \ {0} /\ SectorsPerCluster \in Nat \ {0}
  /\ WordSize \in Nat \ {0} /\ DataSector \in Nat
  /\ MaxCluster \in Nat /\ Clusters \subseteq 2..(RESERVED - 1)
  /\ NONE \notin Files
<1>1. SectorSize * SectorsPerCluster \in Nat \ {0}
  BY VolumeAssumption
<1>2. MaxCluster \in 2..(RESERVED - 1) /\ RESERVED \in Nat
  <2>1. RESERVED \in Nat
    BY DEF RESERVED
  <2> QED
    BY <2>1, VolumeAssumption
<1>3. Clusters \subseteq 2..(RESERVED - 1)
  BY <1>2 DEF Clusters
<1>4. MaxCluster \in Nat
  BY <1>2
<1> QED
  BY <1>1, <1>3, <1>4, VolumeAssumption, FilesAssumption DEF B, bytes_per_cluster

(* From cluster to sector and back (fat16.c:63-75). *)
LEMMA ThereAndBack ==
  ASSUME NEW c \in Clusters
  PROVE  /\ fat16_cluster_number_to_data_sector(c) \in Nat
         /\ fat16_sector_to_cluster_number(fat16_cluster_number_to_data_sector(c)) = c
<1>1. c \in Nat /\ c >= 2 /\ SectorsPerCluster \in Nat \ {0} /\ DataSector \in Nat
  BY Geometry
<1>2. fat16_cluster_number_to_data_sector(c) = DataSector + (c - 2) * SectorsPerCluster
  BY <1>1 DEF fat16_cluster_number_to_data_sector
<1>3. PICK k \in Nat : k = c - 2
  BY <1>1
<1>4. k * SectorsPerCluster \in Nat /\ 0 \in 0..(SectorsPerCluster - 1)
  BY <1>1, <1>3
<1>5. (k * SectorsPerCluster + 0) \div SectorsPerCluster = k
  BY <1>1, <1>4, DivMod
<1>6. (DataSector + k * SectorsPerCluster) - DataSector = k * SectorsPerCluster + 0
  BY <1>1, <1>4
<1> QED
  BY <1>1, <1>2, <1>3, <1>4, <1>5, <1>6 DEF fat16_sector_to_cluster_number
-----------------------------------------------------------------------------
(* The volume. *)

LEMMA EntryValues ==
  /\ END \in Nat /\ FREE = 0 /\ FREE < END
  /\ FREE \in 0..END /\ RESERVED \in 0..END /\ BAD \in 0..END /\ END \in 0..END
  /\ FREE # END /\ RESERVED # END /\ BAD # END /\ FREE # RESERVED /\ FREE # BAD
<1>1. END \in Nat /\ FREE = 0 /\ FREE < END
  BY DEF FREE, END
<1>2. FREE \in 0..END /\ RESERVED \in 0..END
  BY DEF FREE, RESERVED, END
<1>3. BAD \in 0..END /\ END \in 0..END
  BY DEF BAD, END
<1>4. FREE # END /\ RESERVED # END /\ BAD # END /\ FREE # RESERVED /\ FREE # BAD
  BY DEF FREE, RESERVED, BAD, END
<1> QED
  BY <1>1, <1>2, <1>3, <1>4

(* The values of an entry that are no cluster are no cluster. *)
LEMMA NoClusters ==
  /\ FREE \notin Clusters /\ RESERVED \notin Clusters /\ BAD \notin Clusters
  /\ END \notin Clusters
  /\ \A c \in Clusters : c \in Nat /\ c >= 2 /\ c < END /\ c < RESERVED /\ c <= MaxCluster
<1>1. \A c \in Clusters : c \in Nat /\ c >= 2 /\ c < RESERVED /\ c <= MaxCluster
  <2> SUFFICES ASSUME NEW c \in Clusters
               PROVE  c \in Nat /\ c >= 2 /\ c < RESERVED /\ c <= MaxCluster
    OBVIOUS
  <2>1. c \in 2..(RESERVED - 1) /\ RESERVED \in Nat
    <3>1. RESERVED \in Nat
      BY DEF RESERVED
    <3> QED
      BY <3>1, Geometry
  <2>2. c \in 2..MaxCluster /\ MaxCluster \in Nat
    BY Geometry DEF Clusters
  <2> QED
    BY <2>1, <2>2
<1> QED
  BY <1>1 DEF FREE, RESERVED, BAD, END

LEMMA LayoutFacts ==
  ASSUME NEW l \in Layouts, NEW f \in Files
  PROVE  /\ l[f] \in Seq(Clusters) /\ Len(l[f]) \in Nat
         /\ \A k \in 1..Len(l[f]) : l[f][k] \in Clusters /\ l[f][k] \in 0..MaxCluster
<1>1. l[f] \in Seq(Clusters)
  BY FilesAssumption
<1>2. \A k \in 1..Len(l[f]) : l[f][k] \in Clusters
  BY <1>1
<1>3. \A c \in Clusters : c \in 0..MaxCluster
  BY NoClusters, Geometry
<1> QED
  BY <1>1, <1>2, <1>3

(* The FAT of a layout links the clusters of each file in order. *)
LEMMA LinkedInOrder ==
  ASSUME NEW l \in Layouts, NEW f \in Files, NEW k \in 1..Len(l[f])
  PROVE  Linked(l)[l[f][k]] = IF k < Len(l[f]) THEN l[f][k + 1] ELSE END
<1> DEFINE c == l[f][k]
           g == CHOOSE h \in Files : \E j \in 1..Len(l[h]) : l[h][j] = c
           i == CHOOSE j \in 1..Len(l[g]) : l[g][j] = c
<1>1. c \in 0..MaxCluster
  BY LayoutFacts
<1>2. \E h \in Files : \E j \in 1..Len(l[h]) : l[h][j] = c
  OBVIOUS
<1>3. g \in Files /\ \E j \in 1..Len(l[g]) : l[g][j] = c
  BY <1>2
<1>4. i \in 1..Len(l[g]) /\ l[g][i] = c
  BY <1>3
<1>5. Linked(l)[c] = IF i < Len(l[g]) THEN l[g][i + 1] ELSE END
  BY <1>1, <1>2 DEF Linked
<1> HIDE DEF g, i
<1>6. g = f /\ i = k
  <2>1. l[g][i] = l[f][k]
    BY <1>4
  <2> QED
    BY <1>3, <1>4, <2>1, FilesAssumption
<1> QED
  BY <1>5, <1>6

(* Intact is where the links stop to be right. *)
LEMMA IntactIs ==
  ASSUME NEW f \in Files, layout[f] \in Seq(Clusters), NEW n \in 0..Len(layout[f]),
         \A k \in 1..(n - 1) : fat[layout[f][k]] = layout[f][k + 1],
         n < Len(layout[f]) => n > 0 /\ fat[layout[f][n]] # layout[f][n + 1]
  PROVE  Intact(f) = n
<1> DEFINE Stops(m) ==
             /\ \A k \in 1..(m - 1) : fat[layout[f][k]] = layout[f][k + 1]
             /\ m < Len(layout[f]) => m > 0 /\ fat[layout[f][m]] # layout[f][m + 1]
<1>1. Stops(n)
  OBVIOUS
<1>2. Intact(f) = CHOOSE m \in 0..Len(layout[f]) : Stops(m)
  BY DEF Intact
<1>3. ASSUME NEW m \in 0..Len(layout[f]), Stops(m) PROVE m = n
  <2>1. Len(layout[f]) \in Nat
    OBVIOUS
  <2>2. ~(m < n)
    BY <1>3, <2>1
  <2>3. ~(n < m)
    <3> SUFFICES ASSUME n < m PROVE FALSE
      OBVIOUS
    <3>1. n < Len(layout[f]) /\ n > 0 /\ n \in 1..(m - 1)
      BY <2>1
    <3> QED
      BY <1>3, <3>1
  <2> QED
    BY <2>1, <2>2, <2>3
<1> HIDE DEF Stops
<1> QED
  BY <1>1, <1>2, <1>3

LEMMA VolumeInit == Init => VolumeInv
<1> SUFFICES ASSUME Init, NEW f \in Files PROVE ChainOf(f)
  BY DEF VolumeInv
<1>1. layout \in Layouts /\ size \in [Files -> Sizes]
  BY DEF Init
<1>2. /\ layout[f] \in Seq(Clusters) /\ Len(layout[f]) \in Nat
      /\ \A k \in 1..Len(layout[f]) :
           layout[f][k] \in Clusters /\ layout[f][k] \in 0..MaxCluster
  BY <1>1, LayoutFacts
<1>3. /\ size[f] \in Nat /\ size[f] <= Len(layout[f]) * B
      /\ size[f] > (Len(layout[f]) - 1) * B
  <2>1. size[f] \in 0..(WordSize - 1)
    BY <1>1, FilesAssumption
  <2> QED
    BY <2>1, Geometry DEF Init, B
<1>4. \A k \in 1..Len(layout[f]) :
        Linked(layout)[layout[f][k]] =
          IF k < Len(layout[f]) THEN layout[f][k + 1] ELSE END
  BY <1>1, LinkedInOrder
<1>5. layout[f] # <<>> => Len(layout[f]) > 0
  BY <1>2
<1>6. ASSUME \A k \in 1..Len(layout[f]) : fat[layout[f][k]] = Linked(layout)[layout[f][k]]
      PROVE  ChainOf(f)
  <2>1. \A k \in 1..(Len(layout[f]) - 1) : fat[layout[f][k]] = layout[f][k + 1]
    BY <1>2, <1>4, <1>6
  <2>2. Intact(f) = Len(layout[f])
    BY <1>2, <2>1, IntactIs
  <2>3. Len(layout[f]) > 0 => Broken(f) = END
    BY <1>2, <1>4, <1>6, <2>2 DEF Broken
  <2>4. Intact(f) \in 0..Len(layout[f])
    BY <1>2, <2>2
  <2>5. \A k \in 1..(Intact(f) - 1) : fat[layout[f][k]] = layout[f][k + 1]
    BY <2>1, <2>2
  <2>6. layout[f] # <<>> => Intact(f) > 0 /\ Broken(f) = END
    BY <1>5, <2>2, <2>3
  <2> QED
    BY <1>2, <1>3, <2>4, <2>5, <2>6 DEF ChainOf
<1>7. CASE fat = Linked(layout)
  BY <1>6, <1>7
<1>8. CASE \E g \in Files : \E k \in 1..(Len(layout[g]) - 1) :
             \E v \in {FREE, RESERVED, BAD, END} :
               fat = [Linked(layout) EXCEPT ![layout[g][k]] = v]
  <2> PICK g \in Files : \E k \in 1..(Len(layout[g]) - 1) :
             \E v \in {FREE, RESERVED, BAD, END} :
               fat = [Linked(layout) EXCEPT ![layout[g][k]] = v]
    BY <1>8
  <2>1. PICK k \in 1..(Len(layout[g]) - 1), v \in {FREE, RESERVED, BAD, END} :
          fat = [Linked(layout) EXCEPT ![layout[g][k]] = v]
    OBVIOUS
  <2>2. Len(layout[g]) \in Nat /\ k \in 1..Len(layout[g])
    BY <1>1, <2>1, LayoutFacts
  <2>3. \A j \in 1..Len(layout[f]) :
          fat[layout[f][j]] = IF f = g /\ j = k THEN v ELSE Linked(layout)[layout[f][j]]
    <3> SUFFICES ASSUME NEW j \in 1..Len(layout[f])
                 PROVE  fat[layout[f][j]] = IF f = g /\ j = k THEN v
                                            ELSE Linked(layout)[layout[f][j]]
      OBVIOUS
    <3>1. layout[f][j] = layout[g][k] <=> f = g /\ j = k
      BY <1>1, <2>2, FilesAssumption
    <3>2. layout[f][j] \in 0..MaxCluster
      BY <1>2
    <3>3. DOMAIN Linked(layout) = 0..MaxCluster
      BY DEF Linked
    <3> QED
      BY <2>1, <3>1, <3>2, <3>3
  <2>4. CASE f # g
    BY <1>6, <2>3, <2>4
  <2>5. CASE f = g
    <3>1. k \in 1..(Len(layout[f]) - 1) /\ k \in 0..Len(layout[f]) /\ k < Len(layout[f])
          /\ k \in 1..Len(layout[f]) /\ k + 1 \in 1..Len(layout[f])
      BY <1>2, <2>5
    <3>2. fat[layout[f][k]] = v
      BY <2>3, <2>5, <3>1
    <3>3. fat[layout[f][k]] # layout[f][k + 1] /\ k > 0
      BY <1>2, <3>1, <3>2, NoClusters
    <3>4. \A j \in 1..(k - 1) : fat[layout[f][j]] = layout[f][j + 1]
      <4> SUFFICES ASSUME NEW j \in 1..(k - 1) PROVE fat[layout[f][j]] = layout[f][j + 1]
        OBVIOUS
      <4>1. j \in 1..Len(layout[f]) /\ j < Len(layout[f]) /\ j # k
        BY <1>2, <3>1
      <4> QED
        BY <1>4, <2>3, <4>1
    <3>5. Intact(f) = k
      BY <1>2, <3>1, <3>3, <3>4, IntactIs
    <3>6. Broken(f) = v /\ Damaged(f) /\ k > 0
      BY <3>1, <3>2, <3>5 DEF Broken, Damaged
    <3> QED
      BY <1>2, <1>3, <3>1, <3>4, <3>5, <3>6 DEF ChainOf
  <2> QED
    BY <2>4, <2>5
<1> QED
  BY <1>7, <1>8 DEF Init

(* Nothing writes to the volume. *)
LEMMA SameFiles ==
  ASSUME UNCHANGED volume
  PROVE  /\ layout' = layout /\ size' = size /\ fat' = fat
         /\ \A f : /\ Intact(f)' = Intact(f) /\ Broken(f)' = Broken(f)
                   /\ Damaged(f)' = Damaged(f) /\ Reachable(f)' = Reachable(f)
                   /\ first_cluster(f)' = first_cluster(f)
         /\ \A f, k : Address(f, k)' = Address(f, k)
         /\ VolumeInv => VolumeInv'
<1>1. layout' = layout /\ size' = size /\ fat' = fat
  BY DEF volume
<1>2. \A f : Intact(f)' = Intact(f)
  BY <1>1 DEF Intact
<1>3. \A f : /\ Broken(f)' = Broken(f) /\ Damaged(f)' = Damaged(f)
             /\ Reachable(f)' = Reachable(f) /\ first_cluster(f)' = first_cluster(f)
  BY <1>1, <1>2 DEF Broken, Damaged, Reachable, first_cluster
<1>4. \A f, k : Address(f, k)' = Address(f, k)
  BY <1>1 DEF Address
<1>5. VolumeInv => VolumeInv'
  BY <1>1, <1>2, <1>3 DEF VolumeInv, ChainOf
<1> QED
  BY <1>1, <1>2, <1>3, <1>4, <1>5

LEMMA DamagedOrNot ==
  ASSUME VolumeInv, NEW f \in Files
  PROVE  /\ Len(layout[f]) \in Nat /\ Intact(f) \in Nat /\ size[f] \in Nat
         /\ Intact(f) * B \in Nat /\ Reachable(f) \in Nat
         /\ layout[f] = <<>> => size[f] = 0 /\ Intact(f) = 0 /\ ~Damaged(f)
         /\ layout[f] # <<>> => Intact(f) * B > 0 /\ size[f] > 0
         /\ Damaged(f) => Intact(f) * B < size[f] /\ Reachable(f) = Intact(f) * B
         /\ ~Damaged(f) => size[f] <= Intact(f) * B /\ Reachable(f) = size[f]
         /\ Reachable(f) <= Intact(f) * B
<1> DEFINE n == Intact(f)
           m == Len(layout[f])
<1>1. /\ layout[f] \in Seq(Clusters) /\ m \in Nat /\ n \in 0..m /\ size[f] \in Nat
      /\ size[f] <= m * B /\ size[f] > (m - 1) * B /\ B \in Nat \ {0}
      /\ layout[f] # <<>> => n > 0
  BY Geometry DEF VolumeInv, ChainOf
<1>2. layout[f] = <<>> <=> m = 0
  BY <1>1
<1>3. Damaged(f) <=> n < m
  BY DEF Damaged
<1>4. Reachable(f) = IF size[f] < n * B THEN size[f] ELSE n * B
  BY DEF Reachable, Lesser, B
<1> HIDE DEF n, m
<1>5. n * B \in Nat /\ m * B \in Nat /\ (m - 1) * B \in Int
  BY <1>1, Scaled
<1>6. m > 0 => n * B > 0 /\ (m - 1) * B >= 0
  <2>1. m > 0 => 1 <= n /\ 0 <= m - 1
    BY <1>1, <1>2
  <2>2. 1 * B = B /\ 0 * B = 0
    BY <1>1
  <2>3. 1 <= n => 1 * B <= n * B
    BY <1>1, Scaled
  <2>4. 0 <= m - 1 => 0 * B <= (m - 1) * B
    BY <1>1, Scaled
  <2> QED
    BY <1>1, <1>5, <2>1, <2>2, <2>3, <2>4
<1>7. m = 0 => size[f] = 0 /\ n = 0
  BY <1>1
<1>8. n < m => n * B <= (m - 1) * B
  <2>1. n < m => n <= m - 1
    BY <1>1
  <2> QED
    BY <1>1, <2>1, Scaled
<1>9. n < m => n * B < size[f]
  BY <1>1, <1>5, <1>8
<1>10. ~(n < m) => size[f] <= n * B
  <2>1. ~(n < m) => n = m
    BY <1>1
  <2> QED
    BY <1>1, <2>1
<1>11. m > 0 => size[f] > 0
  BY <1>1, <1>5, <1>6
<1>12. Reachable(f) \in Nat /\ Reachable(f) <= n * B
  BY <1>1, <1>4, <1>5
<1>13. /\ n < m => Reachable(f) = n * B
       /\ ~(n < m) => Reachable(f) = size[f]
  BY <1>1, <1>4, <1>5, <1>9, <1>10
<1> QED
  BY <1>1, <1>2, <1>3, <1>5, <1>6, <1>7, <1>9, <1>10, <1>11, <1>12, <1>13 DEF n, m

(* What a step leaves alone. *)
LEMMA Frames ==
  ASSUME FInv, UNCHANGED volume
  PROVE  /\ VolumeInv'
         /\ UNCHANGED <<file, pos, eof, error>> => FreshInv'
         /\ UNCHANGED <<file, pos>> => PosInv'
         /\ UNCHANGED <<file, pos, eof>> => EofAtEnd'
         /\ UNCHANGED <<file, out>> => ContentExact'
<1>1. VolumeInv'
  BY SameFiles DEF FInv
<1>2. UNCHANGED <<file, pos, eof, error>> => FreshInv'
  BY DEF FInv, FreshInv
<1>3. UNCHANGED <<file, pos>> => PosInv'
  BY SameFiles DEF FInv, PosInv
<1>4. UNCHANGED <<file, pos, eof>> => EofAtEnd'
  BY SameFiles DEF FInv, EofAtEnd
<1>5. UNCHANGED <<file, out>> => ContentExact'
  BY SameFiles DEF FInv, ContentExact
<1> QED
  BY <1>1, <1>2, <1>3, <1>4, <1>5

LEMMA FInvInit == Init => FInv
<1> SUFFICES ASSUME Init PROVE FInv
  OBVIOUS
<1>1. VolumeInv
  BY VolumeInit
<1>2. /\ pos = [x \in Descriptors |-> 0] /\ relative_pos = pos /\ sector = pos /\ error = pos
      /\ file = [x \in Descriptors |-> NONE] /\ pc = "idle"
      /\ out = [x \in Descriptors |-> <<>>]
  BY DEF Init
<1>3. eof = [x \in Descriptors |-> FALSE]
  BY DEF Init
<1>4. TypeOK
  <2>1. eof \in [Descriptors -> BOOLEAN]
    BY <1>3
  <2>2. 0 \in 0..(B - 1) /\ 0 \in 0..(SectorSize - 1) /\ 0 \in 0..END
    BY Geometry DEF END
  <2>3. relative_pos \in [Descriptors -> 0..(bytes_per_cluster - 1)]
    BY <1>2, <2>2 DEF B
  <2> QED
    BY <1>2, <2>1, <2>2, <2>3 DEF Init, TypeOK, Pcs
<1>5. FreshInv /\ PosInv /\ EofAtEnd /\ ErrorInv /\ OutInv /\ ContentExact
  BY <1>2, <1>3 DEF FreshInv, PosInv, EofAtEnd, ErrorInv, OutInv, InFlight, ContentExact
<1>6. WalkInv /\ CursorInv /\ CallInv /\ ChunkInv
  BY <1>2 DEF WalkInv, CursorInv, CallInv, ChunkInv, Early, Late
<1> QED
  BY <1>1, <1>4, <1>5, <1>6 DEF FInv

(* A descriptor is opened at the start of its file (fat16.c:536-549). *)
LEMMA OpenKeeps ==
  ASSUME FInv, NEW x \in Descriptors, NEW f \in Files, fat16_open(x, f)
  PROVE  FInv'
<1>1. /\ pc = "idle" /\ pc' = "idle" /\ file[x] = NONE /\ file' = [file EXCEPT ![x] = f]
      /\ sector' = [sector EXCEPT ![x] = first_sector(f)]
      /\ UNCHANGED volume /\ pos' = pos /\ eof' = eof /\ error' = error /\ out' = out
      /\ UNCHANGED <<relative_pos, ppos, d, args, start, len, read, cluster, steps, caller,
                     want, got, block, offset, result>>
  BY DEF fat16_open, request, chain, stream
<1>2. VolumeInv /\ VolumeInv' /\ NONE \notin Files
  BY <1>1, SameFiles, Geometry DEF FInv
<1>3. first_sector(f) \in Nat
  <2>1. ChainOf(f)
    BY <1>2 DEF VolumeInv
  <2>2. CASE layout[f] = <<>>
    BY <2>2 DEF first_sector, first_cluster, fat16_cluster_number_to_data_sector
  <2>3. CASE layout[f] # <<>>
    <3>1. layout[f][1] \in Clusters
      BY <2>1, <2>3 DEF ChainOf
    <3> QED
      BY <2>3, <3>1, ThereAndBack DEF first_sector, first_cluster
  <2> QED
    BY <2>2, <2>3
<1>4. file \in [Descriptors -> Files \cup {NONE}]
  BY DEF FInv, TypeOK
<1>5. TypeOK'
  <2>1. eof' \in [Descriptors -> BOOLEAN]
    BY <1>1 DEF FInv, TypeOK
  <2> QED
    BY <1>1, <1>3, <2>1 DEF FInv, TypeOK
<1>6. pos[x] = 0 /\ eof[x] = FALSE /\ error[x] = 0
  BY <1>1 DEF FInv, FreshInv
<1>7. FreshInv'
  BY <1>1, <1>2, <1>4 DEF FInv, FreshInv
<1>8. ASSUME NEW y \in Descriptors
      PROVE  file'[y] = IF y = x THEN f ELSE file[y]
  BY <1>1, <1>4
<1>9. PosInv'
  <2>1. 0 <= size[f] /\ 0 <= Intact(f) * B
    BY <1>2, DamagedOrNot
  <2> QED
    BY <1>1, <1>6, <1>8, <2>1, SameFiles DEF FInv, PosInv
<1>10. EofAtEnd'
  BY <1>1, <1>6, <1>8, SameFiles DEF FInv, EofAtEnd
<1>11. OutInv'
  BY <1>1 DEF FInv, OutInv, InFlight
<1>12. Len(out[x]) = 0
  BY <1>1, <1>6 DEF FInv, OutInv, InFlight
<1>13. ContentExact'
  BY <1>1, <1>8, <1>12, SameFiles DEF FInv, ContentExact
<1>14. ErrorInv'
  <2>1. Damaged(f) => Intact(f) * B # 0
    BY <1>2, DamagedOrNot
  <2> QED
    BY <1>1, <1>6, <1>8, <2>1, SameFiles DEF FInv, ErrorInv
<1>15. WalkInv' /\ CursorInv' /\ CallInv' /\ ChunkInv'
  BY <1>1 DEF WalkInv, CursorInv, CallInv, ChunkInv, Early, Late
<1> QED
  BY <1>2, <1>5, <1>7, <1>9, <1>10, <1>11, <1>13, <1>14, <1>15 DEF FInv

(* fat16_close frees a descriptor (fat16.c:570-574). *)
LEMMA CloseKeeps ==
  ASSUME FInv, NEW x \in Descriptors, fat16_close(x)
  PROVE  FInv'
<1>1. /\ pc = "idle" /\ pc' = "idle" /\ UNCHANGED volume
      /\ file' = [file EXCEPT ![x] = NONE] /\ pos' = [pos EXCEPT ![x] = 0]
      /\ relative_pos' = [relative_pos EXCEPT ![x] = 0] /\ sector' = [sector EXCEPT ![x] = 0]
      /\ error' = [error EXCEPT ![x] = 0] /\ out' = [out EXCEPT ![x] = <<>>]
      /\ UNCHANGED <<ppos, d, args, start, len, read, cluster, steps, caller,
                     want, got, block, offset, result>>
  BY DEF fat16_close, request, chain, stream
<1>2. eof' = [eof EXCEPT ![x] = FALSE]
  BY DEF fat16_close
<1>3. VolumeInv'
  BY <1>1, SameFiles DEF FInv
<1>4. TypeOK'
  <2>1. eof' \in [Descriptors -> BOOLEAN]
    BY <1>2 DEF FInv, TypeOK
  <2>2. 0 \in 0..(bytes_per_cluster - 1)
    BY Geometry DEF B
  <2> QED
    BY <1>1, <2>1, <2>2 DEF FInv, TypeOK
<1>5. file'[x] = NONE /\ pos'[x] = 0 /\ error'[x] = 0 /\ eof'[x] = FALSE
  BY <1>1, <1>2 DEF FInv, TypeOK
<1>6. ASSUME NEW y \in Descriptors, y # x
      PROVE  /\ file'[y] = file[y] /\ pos'[y] = pos[y] /\ eof'[y] = eof[y]
             /\ error'[y] = error[y] /\ out'[y] = out[y]
  BY <1>1, <1>2, <1>6 DEF FInv, TypeOK
<1>7. FreshInv'
  BY <1>5, <1>6 DEF FInv, FreshInv
<1>8. PosInv' /\ EofAtEnd' /\ ContentExact'
  BY <1>1, <1>5, <1>6, SameFiles DEF FInv, PosInv, EofAtEnd, ContentExact
<1>9. ErrorInv'
  BY <1>1, <1>5, <1>6, SameFiles DEF FInv, ErrorInv
<1>10. OutInv'
  <2>1. /\ out \in [Descriptors -> Seq(Nat)]
        /\ \A y \in Descriptors : Len(out[y]) = pos[y] + 0
    BY <1>1 DEF FInv, OutInv, InFlight
  <2>2. out' \in [Descriptors -> Seq(Nat)] /\ Len(out'[x]) = 0
    BY <1>1, <2>1
  <2>3. \A y \in Descriptors : Len(out'[y]) = pos'[y] + 0
    BY <1>5, <1>6, <2>1, <2>2
  <2> QED
    BY <1>1, <2>2, <2>3 DEF OutInv, InFlight
<1>11. WalkInv' /\ CursorInv' /\ CallInv' /\ ChunkInv'
  BY <1>1 DEF WalkInv, CursorInv, CallInv, ChunkInv, Early, Late
<1> QED
  BY <1>3, <1>4, <1>7, <1>8, <1>9, <1>10, <1>11 DEF FInv
-----------------------------------------------------------------------------
(* The start of __fat16_adjust_cursors_non_root (fat16.c:198-208): an      *)
(* empty file is at its end; of any other the walk starts at its first     *)
(* cluster.                                                                *)
LEMMA AdjustStarts ==
  ASSUME FInv, UNCHANGED <<volume, file>>, NEW x \in Descriptors, file[x] # NONE,
         NEW by \in Nat, NEW then \in {"check", "chunk"}, AdjustCursors(x, by, then),
         d' = x
  PROVE  /\ file[x] \in Files /\ pos' = [pos EXCEPT ![x] = @ + by]
         /\ pos' \in [Descriptors -> Nat] /\ pos'[x] = pos[x] + by /\ caller' = then
         /\ cluster' \in 0..END /\ steps' \in Nat /\ WalkInv'
         /\ layout[file[x]] = <<>> => pc' = then /\ eof' = [eof EXCEPT ![x] = TRUE]
         /\ layout[file[x]] # <<>> => pc' = "follow" /\ eof' = eof
<1> DEFINE f == file[x]
<1>1. file \in [Descriptors -> Files \cup {NONE}] /\ pos \in [Descriptors -> Nat]
      /\ cluster \in 0..END /\ steps \in Nat
  BY DEF FInv, TypeOK
<1>2. f \in Files /\ ChainOf(f) /\ UNCHANGED volume /\ file' = file
  BY <1>1 DEF FInv, VolumeInv
<1>3. /\ pos' = [pos EXCEPT ![x] = @ + by] /\ pos' \in [Descriptors -> Nat]
      /\ pos'[x] = pos[x] + by /\ caller' = then
  BY <1>1 DEF AdjustCursors
<1>4. pos'[x] \in Nat
  BY <1>3
<1>5. CASE layout[f] = <<>>
  <2>1. first_cluster(f) = 0
    BY <1>5 DEF first_cluster
  <2>2. eof' = [eof EXCEPT ![x] = TRUE] /\ pc' = then
    BY <2>1 DEF AdjustCursors
  <2>3. cluster' = cluster /\ steps' = steps
    BY <2>1 DEF AdjustCursors
  <2>4. WalkInv'
    BY <2>2 DEF WalkInv
  <2> QED
    BY <1>1, <1>2, <1>3, <1>5, <2>2, <2>3, <2>4
<1>6. CASE layout[f] # <<>>
  <2>1. layout[f][1] \in Clusters /\ Intact(f) \in Nat /\ Intact(f) > 0
    BY <1>2, <1>6, DamagedOrNot DEF ChainOf, FInv
  <2>2. first_cluster(f) = layout[f][1] /\ first_cluster(f) # 0
    BY <1>6, <2>1, NoClusters DEF first_cluster, FREE
  <2>3. fat16_sector_to_cluster_number(first_sector(f)) = layout[f][1]
    BY <2>1, <2>2, ThereAndBack DEF first_sector
  <2>4. /\ cluster' = layout[f][1] /\ steps' = pos'[x] \div B
        /\ pc' = "follow" /\ eof' = eof
    BY <2>2, <2>3 DEF AdjustCursors, B
  <2>5. cluster' \in 0..END
    <3>1. END \in Nat
      BY DEF END
    <3> QED
      BY <2>1, <2>4, <3>1, NoClusters
  <2>6. steps' \in Nat
    BY <1>4, <2>4, Geometry, DivModOf
  <2>7. WalkInv'
    <3>1. file'[d'] = f /\ layout' = layout /\ Intact(f)' = Intact(f) /\ Turn' = steps'
      BY <1>2, <2>4, SameFiles DEF Turn, B, bytes_per_cluster
    <3>2. 1 \in 1..Intact(f) /\ steps' = steps' + 1 - 1
      BY <2>1, <2>6
    <3>3. \E j \in 1..Intact(f) : cluster' = layout[f][j] /\ steps' = steps' + 1 - j
      BY <2>4, <3>2
    <3>4. (Intact(file[d]))' = Intact(f)
      BY <1>2, <3>1 DEF Intact
    <3> QED
      BY <1>6, <3>1, <3>3, <3>4 DEF WalkInv
  <2> QED
    BY <1>2, <1>3, <1>6, <2>4, <2>5, <2>6, <2>7
<1> QED
  BY <1>5, <1>6

(* fat16_read starts (fat16.c:577-588). *)
LEMMA ReadKeeps ==
  ASSUME FInv, NEW x \in Descriptors, NEW a \in Requests, fat16_read(x, a)
  PROVE  FInv'
<1>1. /\ pc = "idle" /\ file[x] # NONE /\ d' = x /\ args' = a /\ start' = pos[x]
      /\ read' = 0 /\ AdjustCursors(x, 0, "check") /\ UNCHANGED volume
      /\ UNCHANGED <<file, relative_pos, sector, error, ppos, len, want, got, block,
                     offset, result, out>>
  BY DEF fat16_read, stream
<1>2. /\ file[x] \in Files /\ pos' = [pos EXCEPT ![x] = @ + 0]
      /\ pos' \in [Descriptors -> Nat] /\ pos'[x] = pos[x] + 0 /\ caller' = "check"
      /\ cluster' \in 0..END /\ steps' \in Nat /\ WalkInv'
      /\ layout[file[x]] = <<>> => pc' = "check" /\ eof' = [eof EXCEPT ![x] = TRUE]
      /\ layout[file[x]] # <<>> => pc' = "follow" /\ eof' = eof
  BY <1>1, AdjustStarts
<1>3. pos' = pos /\ pos \in [Descriptors -> Nat] /\ pc' \in {"check", "follow"}
  BY <1>2 DEF FInv, TypeOK
<1>4. eof' \in [Descriptors -> BOOLEAN]
  BY <1>2 DEF FInv, TypeOK
<1>5. TypeOK'
  BY <1>1, <1>2, <1>3, <1>4 DEF FInv, TypeOK, Pcs
<1>6. \A y \in Descriptors : y # x => eof'[y] = eof[y]
  BY <1>2 DEF FInv, TypeOK
<1>7. FreshInv'
  BY <1>1, <1>3, <1>6 DEF FInv, FreshInv
<1>8. VolumeInv' /\ PosInv' /\ ContentExact'
  BY <1>1, <1>3, Frames
<1>9. OutInv'
  BY <1>1, <1>3 DEF FInv, OutInv, InFlight
<1>10. CursorInv'
  <2>1. CASE layout[file[x]] = <<>>
    <3>1. eof'[x]
      BY <1>2, <2>1 DEF FInv, TypeOK
    <3> QED
      BY <1>1, <3>1 DEF CursorInv
  <2>2. CASE layout[file[x]] # <<>>
    BY <1>2, <2>2 DEF CursorInv
  <2> QED
    BY <2>1, <2>2
<1>11. CallInv'
  <2>1. pos'[x] = start' /\ file'[d'] # NONE /\ read' = 0
    BY <1>1, <1>3
  <2>2. ~Late'
    BY <1>2, <1>3 DEF Late
  <2> QED
    BY <1>1, <1>3, <2>1, <2>2 DEF CallInv
<1>12. ChunkInv'
  BY <1>3 DEF ChunkInv
<1>13. ErrorInv'
  <2>1. layout[file[x]] = <<>> => ~Damaged(file[x])
    BY <1>2, DamagedOrNot DEF FInv
  <2> SUFFICES ASSUME NEW y \in Descriptors, (file[y] # NONE)', Damaged(file[y])',
                      (Broken(file[y]) \in {RESERVED, BAD})',
                      (pos[y] = Intact(file[y]) * B)', ~(y = d /\ pc = "follow")'
               PROVE  error'[y] = EIO
    BY DEF ErrorInv
  <2>2. /\ file[y] # NONE /\ Damaged(file[y]) /\ Broken(file[y]) \in {RESERVED, BAD}
        /\ pos[y] = Intact(file[y]) * B
    BY <1>1, <1>3, SameFiles DEF Damaged, Broken, Intact, B, bytes_per_cluster
  <2> QED
    BY <1>1, <2>2 DEF FInv, ErrorInv
<1>14. EofAtEnd'
  <2>1. CASE layout[file[x]] = <<>>
    <3>1. size[file[x]] = 0 /\ pos[x] \in Nat
      BY <1>2, <1>3, <2>1, DamagedOrNot DEF FInv
    <3>2. pos[x] >= size[file[x]]
      BY <3>1
    <3> QED
      BY <1>1, <1>3, <1>6, <3>2, SameFiles DEF FInv, EofAtEnd
  <2>2. CASE layout[file[x]] # <<>>
    BY <1>1, <1>2, <1>3, <2>2, Frames
  <2> QED
    BY <2>1, <2>2
<1> QED
  BY <1>2, <1>5, <1>7, <1>8, <1>9, <1>10, <1>11, <1>12, <1>13, <1>14 DEF FInv

(* The file of the call. *)
LEMMA InCall ==
  ASSUME FInv, pc # "idle"
  PROVE  /\ d \in Descriptors /\ file[d] \in Files /\ file[d] # NONE
         /\ ChainOf(file[d]) /\ VolumeInv
         /\ pos[d] \in Nat /\ Turn \in Nat /\ Intact(file[d]) \in Nat
         /\ \A k \in 1..Intact(file[d]) : layout[file[d]][k] \in Clusters
<1>1. d \in Descriptors /\ file[d] \in Files /\ file[d] # NONE /\ pos[d] \in Nat
  BY DEF FInv, TypeOK, CallInv
<1>2. ChainOf(file[d]) /\ VolumeInv
  BY <1>1 DEF FInv, VolumeInv
<1>3. Turn \in Nat
  BY <1>1, Geometry, DivModOf DEF Turn
<1>4. Intact(file[d]) \in 0..Len(layout[file[d]]) /\ layout[file[d]] \in Seq(Clusters)
  BY <1>2 DEF ChainOf
<1>5. Len(layout[file[d]]) \in Nat
  BY <1>4
<1>6. Intact(file[d]) \in Nat
  BY <1>4, <1>5
<1>7. \A k \in 1..Intact(file[d]) : layout[file[d]][k] \in Clusters
  BY <1>4, <1>5, <1>6
<1> QED
  BY <1>1, <1>2, <1>3, <1>6, <1>7

(* A link leads to the next cluster of the file, or out of its chain       *)
(* (fat16.c:95-121).                                                       *)
LEMMA FollowKeeps ==
  ASSUME FInv, fat16_follow_cluster_chain
  PROVE  FInv'
<1> DEFINE f == file[d]
           l == layout[f]
           n == Intact(f)
<1>1. /\ pc = "follow" /\ ~ChainOver /\ pc' = "follow" /\ UNCHANGED volume
      /\ cluster' = fat16_read_fat(fat, cluster) /\ steps' = StepsLeft(cluster')
      /\ ppos' = FatAddress(cluster) + FatEntrySize
      /\ UNCHANGED <<file, pos, relative_pos, sector, eof, error, d, args, start, len, read,
                     caller, want, got, block, offset, result, out>>
  BY DEF fat16_follow_cluster_chain, cursors, request, stream
<1>2. /\ f \in Files /\ ChainOf(f) /\ Turn \in Nat /\ n \in Nat
      /\ \A k \in 1..n : l[k] \in Clusters
  BY <1>1, InCall
<1>3. l # <<>> /\ n > 0
  BY <1>1, <1>2 DEF FInv, WalkInv, ChainOf
<1>4. PICK j \in 1..n : cluster = l[j] /\ steps = Turn + 1 - j
  <2>1. ~(cluster = Broken(f) /\ (Broken(f) # END => steps = 0))
    <3>1. END >= END
      BY DEF END
    <3> QED
      BY <1>1, <3>1 DEF ChainOver
  <2> QED
    BY <1>1, <2>1 DEF FInv, WalkInv
<1>5. cluster \in Clusters /\ cluster \in Nat /\ cluster < END /\ cluster' = fat[l[j]]
  <2>1. cluster \in Clusters /\ cluster \in Nat /\ cluster < END
    BY <1>2, <1>4, NoClusters
  <2>2. END \in Nat
    BY DEF END
  <2> QED
    BY <1>1, <1>4, <2>1, <2>2 DEF fat16_read_fat
<1>6. steps \in Nat /\ steps > 0 /\ Turn >= j
  BY <1>1, <1>2, <1>4 DEF ChainOver, FInv, TypeOK
<1>7. /\ file' = file /\ d' = d /\ layout' = layout /\ Turn' = Turn
      /\ Intact(f)' = n /\ Broken(f)' = Broken(f)
  BY <1>1, SameFiles DEF Turn, B, bytes_per_cluster
<1>8. WalkInv' /\ cluster' \in 0..END /\ steps' \in Nat
  <2>1. CASE j < n
    <3>1. j \in 1..(n - 1) /\ j + 1 \in 1..n
      BY <1>2, <2>1
    <3>2. cluster' = l[j + 1] /\ cluster' \in Clusters
      BY <1>2, <1>5, <3>1 DEF ChainOf
    <3>3. cluster' \notin {FREE, RESERVED, BAD}
      BY <3>2, NoClusters
    <3>4. steps' = Turn + 1 - (j + 1) /\ steps' \in Nat
      BY <1>1, <1>2, <1>4, <1>6, <3>3 DEF StepsLeft
    <3>5. cluster' \in 0..END
      <4>1. END \in Nat
        BY DEF END
      <4> QED
        BY <3>2, <4>1, NoClusters
    <3>6. \E i \in 1..n : cluster' = l[i] /\ steps' = Turn + 1 - i
      BY <3>1, <3>2, <3>4
    <3> QED
      BY <1>3, <1>7, <3>4, <3>5, <3>6, SameFiles DEF WalkInv
  <2>2. CASE j = n
    <3>1. cluster' = Broken(f) /\ Turn >= n
      BY <1>5, <1>6, <2>2 DEF Broken
    <3>2. Broken(f) \in {FREE, RESERVED, BAD, END}
      BY <1>2, <1>3 DEF ChainOf
    <3>3. cluster' # END => steps' = 0
      BY <1>1, <3>1, <3>2 DEF StepsLeft
    <3>4. steps' \in Nat
      BY <1>1, <1>6 DEF StepsLeft
    <3>5. cluster' \in 0..END
      BY <3>1, <3>2, EntryValues
    <3> QED
      BY <1>3, <1>7, <3>1, <3>3, <3>4, <3>5 DEF WalkInv
  <2> QED
    BY <1>2, <1>4, <2>1, <2>2
<1>9. ppos' \in Nat
  <2>1. ReservedSectors * SectorSize \in Nat
    BY VolumeAssumption
  <2> QED
    BY <1>1, <1>5, <2>1 DEF FatAddress, FatEntrySize
<1>10. TypeOK'
  <2>1. eof' \in [Descriptors -> BOOLEAN]
    BY <1>1 DEF FInv, TypeOK
  <2> QED
    BY <1>1, <1>8, <1>9, <2>1 DEF FInv, TypeOK
<1>11. VolumeInv' /\ FreshInv' /\ PosInv' /\ EofAtEnd' /\ ContentExact'
  BY <1>1, Frames
<1>12. OutInv' /\ CursorInv' /\ ChunkInv'
  BY <1>1 DEF FInv, OutInv, InFlight, CursorInv, ChunkInv
<1>13. CallInv'
  BY <1>1, SameFiles DEF FInv, CallInv, Early, Late, nbytes
<1>14. ErrorInv'
  BY <1>1, SameFiles DEF FInv, ErrorInv, B, bytes_per_cluster
<1> QED
  BY <1>8, <1>10, <1>11, <1>12, <1>13, <1>14 DEF FInv

(* Where the walk ends: on the cluster of the position, or behind the      *)
(* chain.                                                                  *)
LEMMA WalkEnds ==
  ASSUME FInv, pc = "follow", ChainOver
  PROVE  \/ Turn < Intact(file[d]) /\ cluster = layout[file[d]][Turn + 1]
            /\ cluster \in Clusters
         \/ Turn >= Intact(file[d]) /\ cluster = Broken(file[d])
            /\ cluster \in {FREE, RESERVED, BAD, END}
<1> DEFINE f == file[d]
<1>1. /\ f \in Files /\ ChainOf(f) /\ Turn \in Nat /\ Intact(f) \in Nat
      /\ \A k \in 1..Intact(f) : layout[f][k] \in Clusters
  BY InCall
<1>2. CASE \E j \in 1..Intact(f) : cluster = layout[f][j] /\ steps = Turn + 1 - j
  <2>1. PICK j \in 1..Intact(f) : cluster = layout[f][j] /\ steps = Turn + 1 - j
    BY <1>2
  <2>2. cluster \in Clusters /\ cluster < END /\ cluster \in Nat
    BY <1>1, <2>1, NoClusters
  <2>3. steps = 0
    <3>1. END \in Nat
      BY DEF END
    <3> QED
      BY <2>2, <3>1 DEF ChainOver
  <2>4. j = Turn + 1 /\ Turn < Intact(f)
    BY <1>1, <2>1, <2>3
  <2> QED
    BY <2>1, <2>2, <2>4
<1>3. CASE cluster = Broken(f) /\ Turn >= Intact(f)
  BY <1>1, <1>3 DEF FInv, WalkInv, ChainOf
<1> QED
  BY <1>2, <1>3 DEF FInv, WalkInv

(* The rest of __fat16_adjust_cursors_non_root (fat16.c:210-223). *)
LEMMA SetCursorsKeeps ==
  ASSUME FInv, SetCursors
  PROVE  FInv'
<1> DEFINE f == file[d]
           n == Intact(f)
<1>1. /\ pc = "follow" /\ ChainOver /\ UNCHANGED volume
      /\ relative_pos' = [relative_pos EXCEPT ![d] = pos[d] % B]
      /\ UNCHANGED <<file, pos, ppos, d, args, start, len, read, cluster, steps, caller,
                     want, got, block, offset, out>>
  BY DEF SetCursors, RelativePos, request, chain, stream, B
<1>2. /\ d \in Descriptors /\ f \in Files /\ f # NONE /\ ChainOf(f) /\ VolumeInv
      /\ pos[d] \in Nat /\ Turn \in Nat /\ n \in Nat
  BY <1>1, InCall
<1>3. pos[d] % B \in 0..(B - 1) /\ (Turn < n <=> pos[d] < n * B) /\ n * B \in Nat
  <2>1. pos[d] % B \in 0..(B - 1)
    BY <1>2, Geometry, DivModOf
  <2>2. Turn < n <=> pos[d] < n * B
    BY <1>2, Geometry, InCluster DEF Turn
  <2>3. n * B \in Nat
    BY <1>2, DamagedOrNot
  <2> QED
    BY <2>1, <2>2, <2>3
<1>4. relative_pos' \in [Descriptors -> 0..(bytes_per_cluster - 1)]
      /\ relative_pos'[d] = pos[d] % B
  BY <1>1, <1>2, <1>3 DEF FInv, TypeOK, B
<1>5. caller \in {"check", "chunk"} /\ cluster \in Nat /\ result \in Nat \cup {EIO}
  BY EntryValues DEF FInv, TypeOK
<1>6. VolumeInv' /\ PosInv' /\ ContentExact'
  BY <1>1, Frames
<1>7. /\ file' = file /\ d' = d /\ pos' = pos /\ layout' = layout /\ Turn' = Turn
      /\ Intact(f)' = n /\ Broken(f)' = Broken(f) /\ Damaged(f)' = Damaged(f)
  BY <1>1, SameFiles DEF Turn, B, bytes_per_cluster
<1>8. \/ pc' = caller
      \/ BadCluster /\ pc' = (IF caller = "check" THEN "idle" ELSE "done")
  BY DEF SetCursors
<1>9. pc' \in {"check", "chunk", "idle", "done"}
  BY <1>5, <1>8
<1>10. WalkInv' /\ OutInv' /\ ChunkInv'
  BY <1>1, <1>9 DEF FInv, WalkInv, OutInv, InFlight, ChunkInv
<1>11. Early \/ Late
  BY <1>1, <1>5 DEF Early, Late
<1>12. /\ Early' => Early
       /\ Late' => Late
  BY <1>1, <1>5, <1>8 DEF Early, Late
<1>13. /\ file'[d'] # NONE
       /\ Early' => read' = 0 /\ pos'[d'] = start'
       /\ Late' => /\ pos'[d'] = start' + read' /\ read' <= len'
                   /\ start' < size'[file'[d']]
                   /\ len' = Lesser(nbytes', size'[file'[d']] - start')
  BY <1>1, <1>2, <1>12, SameFiles DEF FInv, CallInv, nbytes
<1>14. ASSUME NEW y \in Descriptors, y # d, error'[y] = error[y],
              (file[y] # NONE)', Damaged(file[y])', (Broken(file[y]) \in {RESERVED, BAD})',
              (pos[y] = Intact(file[y]) * B)'
       PROVE  error'[y] = EIO
  <2>1. /\ file[y] # NONE /\ Damaged(file[y]) /\ Broken(file[y]) \in {RESERVED, BAD}
        /\ pos[y] = Intact(file[y]) * B
    BY <1>1, <1>14, SameFiles DEF Damaged, Broken, Intact, B, bytes_per_cluster
  <2> QED
    BY <1>14, <2>1 DEF FInv, ErrorInv
<1>15. CASE BadCluster
  <2>1. /\ error' = [error EXCEPT ![d] = EIO] /\ result' = EIO
        /\ pc' = (IF caller = "check" THEN "idle" ELSE "done")
        /\ sector' = sector /\ eof' = eof
    BY <1>15 DEF SetCursors
  <2>2. cluster \notin Clusters
    BY <1>15, NoClusters DEF BadCluster
  <2>3. Turn >= n /\ cluster = Broken(f)
    BY <1>1, <2>2, WalkEnds
  <2>4. Damaged(f)
    <3>1. f \in Files /\ layout[f] # <<>> /\ Broken(f) # END
      BY <1>1, <1>2, <1>15, <2>3, EntryValues DEF BadCluster, FInv, WalkInv
    <3> QED
      BY <1>2, <3>1 DEF ChainOf
  <2>5. TypeOK'
    <3>1. eof' \in [Descriptors -> BOOLEAN]
      BY <2>1 DEF FInv, TypeOK
    <3> QED
      BY <1>1, <1>4, <1>9, <2>1, <3>1 DEF FInv, TypeOK, Pcs
  <2>6. error'[d] = EIO /\ \A y \in Descriptors : y # d => error'[y] = error[y]
    BY <1>2, <2>1 DEF FInv, TypeOK
  <2>7. FreshInv' /\ EofAtEnd'
    <3>1. EofAtEnd'
      BY <1>1, <2>1, Frames
    <3>2. FreshInv'
      BY <1>1, <1>2, <2>1, <2>6 DEF FInv, FreshInv
    <3> QED
      BY <3>1, <3>2
  <2>8. CursorInv'
    BY <2>1 DEF CursorInv
  <2>9. CallInv'
    BY <1>7, <1>13, <2>4 DEF CallInv
  <2>10. ErrorInv'
    <3> SUFFICES ASSUME NEW y \in Descriptors, (file[y] # NONE)', Damaged(file[y])',
                      (Broken(file[y]) \in {RESERVED, BAD})',
                      (pos[y] = Intact(file[y]) * B)', ~(y = d /\ pc = "follow")'
                 PROVE  error'[y] = EIO
      BY DEF ErrorInv
    <3> QED
      BY <1>14, <2>6
  <2> QED
    BY <1>6, <1>10, <2>5, <2>7, <2>8, <2>9, <2>10 DEF FInv
<1>16. CASE ~BadCluster
  <2>1. /\ pc' = caller /\ error' = error /\ result' = result
        /\ IF cluster < END
           THEN /\ sector' = [sector EXCEPT ![d] = fat16_cluster_number_to_data_sector(cluster)]
                /\ eof' = eof
           ELSE /\ eof' = [eof EXCEPT ![d] = TRUE] /\ sector' = sector
    BY <1>16 DEF SetCursors
  <2>2. CallInv'
    BY <1>5, <1>13, <2>1 DEF CallInv
  <2>3. FreshInv'
    BY <1>1, <1>2, <2>1 DEF FInv, FreshInv, TypeOK
  <2>4. eof' \in [Descriptors -> BOOLEAN]
    BY <2>1 DEF FInv, TypeOK
  <2>5. ASSUME sector' \in [Descriptors -> Nat] PROVE TypeOK'
    BY <1>1, <1>4, <1>9, <2>1, <2>4, <2>5 DEF FInv, TypeOK, Pcs
  <2>6. ASSUME Broken(f) \in {RESERVED, BAD} => pos[d] # n * B PROVE ErrorInv'
    <3> SUFFICES ASSUME NEW y \in Descriptors, (file[y] # NONE)', Damaged(file[y])',
                      (Broken(file[y]) \in {RESERVED, BAD})',
                      (pos[y] = Intact(file[y]) * B)', ~(y = d /\ pc = "follow")'
                 PROVE  error'[y] = EIO
      BY DEF ErrorInv
    <3>1. y # d
      <4> SUFFICES ASSUME y = d PROVE FALSE
        OBVIOUS
      <4>1. file'[y] = f
        BY <1>7
      <4>2. Broken(f) \in {RESERVED, BAD} /\ pos[d] = n * B
        BY <1>7, <4>1 DEF Broken, Intact, B, bytes_per_cluster
      <4> QED
        BY <2>6, <4>2
    <3> QED
      BY <1>14, <2>1, <3>1
  <2>7. CASE cluster \in Clusters
    <3>1. Turn < n /\ cluster = layout[f][Turn + 1] /\ cluster < END /\ pos[d] < n * B
      BY <1>1, <1>3, <2>7, WalkEnds, NoClusters
    <3>2. sector' \in [Descriptors -> Nat]
          /\ sector'[d] = fat16_cluster_number_to_data_sector(layout[f][Turn + 1])
          /\ eof' = eof
      BY <1>2, <2>1, <2>7, <3>1, ThereAndBack DEF FInv, TypeOK
    <3>3. CursorInv'
      BY <1>4, <1>7, <3>1, <3>2, SameFiles DEF CursorInv, B, bytes_per_cluster
    <3>4. pos[d] # n * B
      BY <1>2, <1>3, <3>1
    <3>5. EofAtEnd'
      BY <1>1, <3>2, Frames
    <3> QED
      BY <1>6, <1>10, <2>2, <2>3, <2>5, <2>6, <3>2, <3>3, <3>4, <3>5 DEF FInv
  <2>8. CASE cluster \notin Clusters
    <3>1. Turn >= n /\ cluster = Broken(f) /\ cluster \in {FREE, END} /\ ~(Turn < n)
      BY <1>1, <1>2, <1>16, <2>8, WalkEnds DEF BadCluster
    <3>2. Broken(f) \notin {RESERVED, BAD}
      BY <3>1, EntryValues
    <3>3. CASE cluster = FREE
      <4>1. sector' = [sector EXCEPT ![d] = 0] /\ eof' = eof
        BY <2>1, <3>3, EntryValues DEF fat16_cluster_number_to_data_sector
      <4>2. sector' \in [Descriptors -> Nat] /\ sector'[d] = 0
        BY <1>2, <4>1 DEF FInv, TypeOK
      <4>3. CursorInv'
        BY <1>4, <1>7, <3>1, <3>3, <4>2 DEF CursorInv, B, bytes_per_cluster
      <4>4. EofAtEnd'
        BY <1>1, <4>1, Frames
      <4> QED
        BY <1>6, <1>10, <2>2, <2>3, <2>5, <2>6, <3>2, <4>2, <4>3, <4>4 DEF FInv
    <3>4. CASE cluster = END
      <4>1. eof' = [eof EXCEPT ![d] = TRUE] /\ sector' = sector
        <5>1. ~(cluster < END)
          BY <3>4, EntryValues
        <5> QED
          BY <2>1, <5>1
      <4>2. eof'[d] /\ \A y \in Descriptors : y # d => eof'[y] = eof[y]
        BY <1>2, <4>1 DEF FInv, TypeOK
      <4>3. sector' \in [Descriptors -> Nat]
        BY <4>1 DEF FInv, TypeOK
      <4>4. CursorInv'
        BY <1>7, <4>2 DEF CursorInv
      <4>5. pos[d] = n * B
        <5>1. layout[f] # <<>> /\ Broken(f) # FREE
          BY <1>1, <3>1, <3>4, EntryValues DEF FInv, WalkInv
        <5>2. pos[d] <= n * B
          BY <1>2, <5>1 DEF FInv, PosInv
        <5> QED
          BY <1>2, <1>3, <3>1, <5>2
      <4>6. \/ pos[d] >= size[f]
            \/ Damaged(f) /\ Broken(f) = END /\ pos[d] = Reachable(f)
        BY <1>2, <3>1, <3>4, <4>5, DamagedOrNot
      <4>7. EofAtEnd'
        <5> SUFFICES ASSUME NEW y \in Descriptors, (file[y] # NONE)', eof'[y]
                     PROVE  (\/ pos[y] >= size[file[y]]
                             \/ Damaged(file[y]) /\ Broken(file[y]) = END
                                /\ pos[y] = Reachable(file[y]))'
          BY DEF EofAtEnd
        <5>1. CASE y = d
          BY <1>1, <4>6, <5>1, SameFiles
        <5>2. CASE y # d
          BY <1>1, <4>2, <5>2, SameFiles DEF FInv, EofAtEnd
        <5> QED
          BY <5>1, <5>2
      <4> QED
        BY <1>6, <1>10, <2>2, <2>3, <2>5, <2>6, <3>2, <4>3, <4>4, <4>7 DEF FInv
    <3> QED
      BY <3>1, <3>3, <3>4
  <2> QED
    BY <2>7, <2>8
<1> QED
  BY <1>15, <1>16

(* Nothing that ErrorInv reads changes, and no walk ends. *)
LEMMA ErrorsKept ==
  ASSUME FInv, UNCHANGED volume, UNCHANGED <<file, pos, error, d>>, pc # "follow"
  PROVE  ErrorInv'
<1> SUFFICES ASSUME NEW y \in Descriptors, (file[y] # NONE)', Damaged(file[y])',
                    (Broken(file[y]) \in {RESERVED, BAD})',
                    (pos[y] = Intact(file[y]) * B)', ~(y = d /\ pc = "follow")'
             PROVE  error'[y] = EIO
  BY DEF ErrorInv
<1>1. /\ file[y] # NONE /\ Damaged(file[y]) /\ Broken(file[y]) \in {RESERVED, BAD}
      /\ pos[y] = Intact(file[y]) * B
  BY SameFiles DEF Damaged, Broken, Intact, B, bytes_per_cluster
<1> QED
  BY <1>1 DEF FInv, ErrorInv

(* The size of a request counts modulo 2^32. *)
LEMMA Asked ==
  ASSUME FInv
  PROVE  /\ nbytes \in Nat
         /\ nbytes = IF args[1] * args[2] < WordSize THEN args[1] * args[2]
                     ELSE (args[1] * args[2]) % WordSize
<1>1. args[1] \in Nat /\ args[2] \in Nat
  <2>1. args \in Nat \X Nat
    BY FilesAssumption DEF FInv, TypeOK
  <2> QED
    BY <2>1
<1> DEFINE w == args[1] * args[2]
<1>2. w \in Nat /\ WordSize \in Nat \ {0} /\ nbytes = w % WordSize
  BY <1>1, Geometry DEF nbytes
<1> HIDE DEF w
<1>3. w % WordSize \in Nat
  BY <1>2, DivModOf
<1>4. w < WordSize => w % WordSize = w
  BY <1>2
<1> QED
  BY <1>2, <1>3, <1>4 DEF w

(* eof is set for the descriptor of a call where it is due. *)
LEMMA EofSet ==
  ASSUME FInv, pc # "idle", UNCHANGED volume, UNCHANGED <<file, pos, error, d>>,
         eof'[d] => eof[d] \/ AtEnd,
         \A y \in Descriptors : y # d => eof'[y] = eof[y]
  PROVE  EofAtEnd' /\ FreshInv'
<1>1. d \in Descriptors /\ file[d] # NONE
  BY InCall
<1>2. FreshInv'
  BY <1>1 DEF FInv, FreshInv
<1>3. EofAtEnd'
  <2> SUFFICES ASSUME NEW y \in Descriptors, (file[y] # NONE)', eof'[y]
               PROVE  (\/ pos[y] >= size[file[y]]
                       \/ Damaged(file[y]) /\ Broken(file[y]) = END
                          /\ pos[y] = Reachable(file[y]))'
    BY DEF EofAtEnd
  <2>1. \/ pos[y] >= size[file[y]]
        \/ Damaged(file[y]) /\ Broken(file[y]) = END /\ pos[y] = Reachable(file[y])
    BY DEF FInv, EofAtEnd, AtEnd
  <2> QED
    BY <2>1, SameFiles
<1> QED
  BY <1>2, <1>3

(* fat16_read between its two calls (fat16.c:589-596). *)
LEMMA CheckKeeps ==
  ASSUME FInv, CheckEnd
  PROVE  FInv'
<1> DEFINE f == file[d]
<1>1. /\ pc = "check" /\ UNCHANGED volume
      /\ UNCHANGED <<file, pos, relative_pos, sector, error, ppos, d, args, start, read,
                     cluster, steps, caller, want, got, block, offset, out>>
  BY DEF CheckEnd, request, chain, stream
<1>2. /\ d \in Descriptors /\ f \in Files /\ f # NONE /\ VolumeInv /\ pos[d] \in Nat
      /\ size[f] \in Nat
  BY <1>1, InCall DEF ChainOf
<1>3. VolumeInv' /\ PosInv' /\ ContentExact' /\ ErrorInv'
  BY <1>1, Frames, ErrorsKept
<1>4. read = 0 /\ pos[d] = start
  BY <1>1 DEF FInv, CallInv, Early
<1>5. CASE eof[d] \/ AtEnd
  <2>1. eof' = [eof EXCEPT ![d] = TRUE] /\ result' = 0 /\ pc' = "idle" /\ len' = len
    BY <1>5 DEF CheckEnd
  <2>2. eof' \in [Descriptors -> BOOLEAN]
    BY <2>1 DEF FInv, TypeOK
  <2>3. TypeOK'
    BY <1>1, <2>1, <2>2 DEF FInv, TypeOK, Pcs
  <2>4. \A y \in Descriptors : y # d => eof'[y] = eof[y]
    BY <2>1 DEF FInv, TypeOK
  <2>5. EofAtEnd' /\ FreshInv'
    BY <1>1, <1>5, <2>4, EofSet
  <2>6. OutInv' /\ WalkInv' /\ CursorInv' /\ ChunkInv' /\ CallInv'
    BY <1>1, <2>1 DEF FInv, OutInv, InFlight, WalkInv, CursorInv, ChunkInv, CallInv, Early, Late
  <2> QED
    BY <1>3, <2>3, <2>5, <2>6 DEF FInv
<1>6. CASE ~(eof[d] \/ AtEnd)
  <2>1. eof' = eof /\ result' = result /\ pc' = "chunk" /\ len' = Length
    BY <1>6 DEF CheckEnd
  <2>2. nbytes \in Nat /\ start < size[f] /\ start \in Nat
    BY <1>2, <1>4, <1>6, Asked DEF AtEnd
  <2>3. len' = Lesser(nbytes, size[f] - start) /\ len' \in Nat
    BY <1>2, <1>4, <2>1, <2>2 DEF Length, Lesser
  <2>4. eof' \in [Descriptors -> BOOLEAN]
    BY <2>1 DEF FInv, TypeOK
  <2>5. TypeOK'
    BY <1>1, <2>1, <2>3, <2>4 DEF FInv, TypeOK, Pcs
  <2>6. FreshInv' /\ EofAtEnd'
    BY <1>1, <2>1, Frames
  <2>7. OutInv' /\ WalkInv' /\ ChunkInv'
    BY <1>1, <2>1 DEF FInv, OutInv, InFlight, WalkInv, ChunkInv
  <2>8. CursorInv'
    BY <1>1, <2>1, SameFiles DEF FInv, CursorInv, Turn, B, bytes_per_cluster
  <2>9. CallInv'
    <3>1. pos[d] = start + read /\ read <= len'
      BY <1>2, <1>4, <2>2, <2>3
    <3>2. nbytes' = nbytes /\ size' = size
      BY <1>1, SameFiles DEF nbytes
    <3> QED
      BY <1>1, <1>2, <2>1, <2>2, <2>3, <3>1, <3>2 DEF CallInv, Early, Late
  <2> QED
    BY <1>3, <2>5, <2>6, <2>7, <2>8, <2>9 DEF FInv
<1> QED
  BY <1>5, <1>6

(* A chunk begins at the address of the position (fat16.c:423-441). *)
LEMMA BeginKeeps ==
  ASSUME FInv, BeginChunk
  PROVE  FInv'
<1>1. /\ pc = "chunk" /\ read < len /\ ~eof[d] /\ UNCHANGED volume
      /\ ppos' = descriptor_to_absolute_address
      /\ want' = Lesser(len - read, B - relative_pos[d]) /\ got' = 0
      /\ block' = ppos' \div SectorSize /\ offset' = ppos' % SectorSize /\ pc' = "sector"
      /\ UNCHANGED <<file, pos, relative_pos, sector, eof, error, d, args, start, len, read,
                     cluster, steps, caller, result, out>>
  BY DEF BeginChunk, SeekTo, cursors, request, chain, B
<1>2. /\ sector[d] \in Nat /\ relative_pos[d] \in 0..(B - 1) /\ len \in Nat /\ read \in Nat
      /\ B \in Nat \ {0} /\ SectorSize \in Nat \ {0}
  BY Geometry DEF FInv, TypeOK, B
<1>3. ppos' \in Nat
  <2>1. sector[d] * SectorSize \in Nat
    BY <1>2
  <2> QED
    BY <1>1, <1>2, <2>1 DEF descriptor_to_absolute_address
<1>4. block' \in Nat /\ offset' \in 0..(SectorSize - 1)
      /\ block' * SectorSize + offset' = ppos'
  BY <1>1, <1>2, <1>3, DivModOf
<1>5. /\ want' \in Nat /\ want' > 0 /\ read + want' <= len
      /\ relative_pos[d] + want' <= B
  BY <1>1, <1>2 DEF Lesser
<1>6. TypeOK'
  <2>1. eof' \in [Descriptors -> BOOLEAN]
    BY <1>1 DEF FInv, TypeOK
  <2> QED
    BY <1>1, <1>3, <1>4, <1>5, <2>1 DEF FInv, TypeOK, Pcs
<1>7. VolumeInv' /\ FreshInv' /\ PosInv' /\ EofAtEnd' /\ ContentExact' /\ ErrorInv'
  BY <1>1, Frames, ErrorsKept
<1>8. OutInv' /\ WalkInv'
  BY <1>1 DEF FInv, OutInv, InFlight, WalkInv
<1>9. CursorInv'
  BY <1>1, SameFiles DEF FInv, CursorInv, Turn, B, bytes_per_cluster
<1>10. CallInv'
  BY <1>1, SameFiles DEF FInv, CallInv, Early, Late, nbytes
<1>11. ChunkInv'
  <2>1. descriptor_to_absolute_address' + got' = ppos'
    BY <1>1, <1>3 DEF descriptor_to_absolute_address
  <2>2. B' = B /\ got' <= want'
    BY <1>1, <1>5 DEF B, bytes_per_cluster
  <2> QED
    BY <1>1, <1>4, <1>5, <2>1, <2>2 DEF ChunkInv
<1> QED
  BY <1>6, <1>7, <1>8, <1>9, <1>10, <1>11 DEF FInv

(* A chunk stays within the file, and within the chain unless the chain    *)
(* was left through a free link.                                           *)
LEMMA ChunkWithin ==
  ASSUME FInv, pc = "sector"
  PROVE  /\ pos[d] + want <= size[file[d]]
         /\ Turn < Intact(file[d]) => pos[d] + want <= Intact(file[d]) * B
         /\ ~(Turn < Intact(file[d])) => Broken(file[d]) = FREE
         /\ size[file[d]] > 0
<1> DEFINE f == file[d]
           n == Intact(f)
<1>1. /\ d \in Descriptors /\ f \in Files /\ VolumeInv /\ pos[d] \in Nat
      /\ Turn \in Nat /\ n \in Nat /\ size[f] \in Nat
  BY InCall DEF ChainOf
<1>2. /\ start \in Nat /\ read \in Nat /\ len \in Nat /\ want \in Nat /\ nbytes \in Nat
  BY Asked DEF FInv, TypeOK
<1>3. /\ ~eof[d] /\ read + want <= len /\ relative_pos[d] + want <= B
      /\ pos[d] = start + read /\ start < size[f]
      /\ len = Lesser(nbytes, size[f] - start)
  BY DEF FInv, ChunkInv, CallInv, Late
<1>4. len <= size[f] - start
  BY <1>1, <1>2, <1>3 DEF Lesser
<1>5. relative_pos[d] = pos[d] % B /\ (~(Turn < n) => Broken(f) = FREE)
  BY <1>3 DEF FInv, CursorInv
<1>6. Turn < n => pos[d] - (pos[d] % B) + B <= n * B
  BY <1>1, Geometry, InCluster DEF Turn
<1>7. n * B \in Nat /\ B \in Nat /\ pos[d] % B \in Nat
  <2>1. pos[d] % B \in 0..(B - 1)
    BY <1>1, Geometry, DivModOf
  <2> QED
    BY <1>1, <2>1, DamagedOrNot, Geometry
<1>8. Turn < n => pos[d] + want <= n * B
  BY <1>1, <1>2, <1>3, <1>5, <1>6, <1>7
<1>9. pos[d] + want <= size[f] /\ size[f] > 0
  BY <1>1, <1>2, <1>3, <1>4
<1> QED
  BY <1>5, <1>8, <1>9

(* Byte q of the chunk is byte pos + q of the file. *)
LEMMA ChunkByte ==
  ASSUME FInv, pc = "sector", NEW q \in Nat, q < want
  PROVE  /\ descriptor_to_absolute_address + q \in Nat
         /\ IF pos[d] + q + 1 <= Reachable(file[d])
            THEN descriptor_to_absolute_address + q = Address(file[d], pos[d] + q)
            ELSE /\ Broken(file[d]) = FREE
                 /\ descriptor_to_absolute_address + q < B
<1> DEFINE f == file[d]
           n == Intact(f)
<1>1. /\ d \in Descriptors /\ f \in Files /\ VolumeInv /\ pos[d] \in Nat
      /\ Turn \in Nat /\ n \in Nat /\ size[f] \in Nat
  BY InCall DEF ChainOf
<1>2. want \in Nat /\ sector[d] \in Nat /\ B \in Nat \ {0} /\ SectorSize \in Nat \ {0}
  BY <1>1, Geometry DEF FInv, TypeOK
<1>3. /\ ~eof[d] /\ relative_pos[d] + want <= B /\ relative_pos[d] = pos[d] % B
      /\ IF Turn < n
         THEN sector[d] = fat16_cluster_number_to_data_sector(layout[f][Turn + 1])
         ELSE Broken(f) = FREE /\ sector[d] = 0
  BY DEF FInv, ChunkInv, CursorInv
<1>4. relative_pos[d] \in Nat /\ (pos[d] % B) + q < B
  <2>1. pos[d] % B \in 0..(B - 1)
    BY <1>1, <1>2, DivModOf
  <2> QED
    BY <1>2, <1>3, <2>1
<1>5. (pos[d] + q) \div B = Turn /\ (pos[d] + q) % B = (pos[d] % B) + q
  BY <1>1, <1>2, <1>4, SameCluster DEF Turn
<1>6. /\ n * B \in Nat /\ Reachable(f) \in Nat /\ Reachable(f) <= n * B
      /\ Damaged(f) => Reachable(f) = n * B
      /\ ~Damaged(f) => Reachable(f) = size[f]
  BY <1>1, DamagedOrNot
<1>7. sector[d] * SectorSize \in Nat
  BY <1>2
<1>8. descriptor_to_absolute_address = sector[d] * SectorSize + relative_pos[d]
  BY DEF descriptor_to_absolute_address
<1>9. descriptor_to_absolute_address + q \in Nat
  BY <1>4, <1>7, <1>8
<1>10. CASE Turn < n
  <2>1. pos[d] + want <= n * B /\ pos[d] + want <= size[f]
    BY <1>10, ChunkWithin
  <2>2. pos[d] + q + 1 <= Reachable(f)
    BY <1>1, <1>2, <1>6, <2>1
  <2>3. Address(f, pos[d] + q) =
          fat16_cluster_number_to_data_sector(layout[f][Turn + 1]) * SectorSize
            + ((pos[d] % B) + q)
    BY <1>5 DEF Address, B
  <2>4. Address(f, pos[d] + q) = sector[d] * SectorSize + (relative_pos[d] + q)
    BY <1>3, <1>10, <2>3
  <2>5. sector[d] * SectorSize + (relative_pos[d] + q) = descriptor_to_absolute_address + q
    BY <1>4, <1>7, <1>8
  <2> QED
    BY <1>9, <2>2, <2>4, <2>5
<1>11. CASE ~(Turn < n)
  <2>1. Broken(f) = FREE /\ sector[d] = 0
    BY <1>3, <1>11
  <2>2. 0 * SectorSize = 0
    BY <1>2
  <2>3. descriptor_to_absolute_address + q < B
    BY <1>2, <1>3, <1>4, <1>8, <2>1, <2>2
  <2>4. ~(pos[d] < n * B)
    BY <1>1, <1>2, <1>11, InCluster DEF Turn
  <2>5. ~(pos[d] + q + 1 <= Reachable(f))
    BY <1>1, <1>6, <2>4
  <2> QED
    BY <1>9, <2>1, <2>3, <2>5
<1> QED
  BY <1>10, <1>11

LEMMA Appended ==
  ASSUME NEW s \in Seq(Nat), NEW t \in Seq(Nat)
  PROVE  /\ s \o t \in Seq(Nat) /\ Len(s \o t) = Len(s) + Len(t)
         /\ \A k \in 1..Len(s) : (s \o t)[k] = s[k]
         /\ \A k \in (Len(s) + 1)..(Len(s) + Len(t)) : (s \o t)[k] = t[k - Len(s)]
  OBVIOUS

(* One sector of diskstream_read (disk_stream.c:33-64). *)
LEMMA CopyKeeps ==
  ASSUME FInv, diskstream_read
  PROVE  FInv'
<1> DEFINE f == file[d]
           to_copy == Lesser(want - got, SectorSize - offset)
           from == block * SectorSize + offset
           bytes == [k \in 1..to_copy |-> from + k - 1]
           a == descriptor_to_absolute_address
<1>1. /\ pc = "sector" /\ got < want /\ pc' = pc /\ UNCHANGED volume
      /\ out' = [out EXCEPT ![d] = @ \o bytes] /\ got' = got + to_copy
      /\ offset' = 0 /\ block' = block + 1
      /\ UNCHANGED <<file, pos, relative_pos, sector, eof, error, ppos, d, args, start,
                     len, read, cluster, steps, caller, want, result>>
  BY DEF diskstream_read, cursors, request, chain
<1>2. /\ d \in Descriptors /\ f \in Files /\ f # NONE /\ pos[d] \in Nat
      /\ want \in Nat /\ got \in Nat /\ block \in Nat /\ offset \in 0..(SectorSize - 1)
      /\ SectorSize \in Nat \ {0} /\ out \in [Descriptors -> Seq(Nat)]
      /\ Len(out[d]) = pos[d] + got
  BY <1>1, InCall, Geometry DEF FInv, TypeOK, OutInv, InFlight
<1>3. to_copy \in Nat /\ to_copy > 0 /\ got + to_copy <= want
      /\ (to_copy = want - got \/ to_copy = SectorSize - offset)
  BY <1>1, <1>2 DEF Lesser
<1>4. from = a + got /\ ~eof[d]
  BY <1>1 DEF FInv, ChunkInv
<1>5. a \in Nat
  <2>1. 0 \in Nat /\ 0 < want
    BY <1>1, <1>2
  <2>2. sector[d] \in Nat /\ relative_pos[d] \in Nat
    BY <1>2, Geometry DEF FInv, TypeOK, B
  <2>3. sector[d] * SectorSize \in Nat
    BY <1>2, <2>2
  <2> QED
    BY <2>2, <2>3 DEF descriptor_to_absolute_address
<1>6. block * SectorSize \in Nat /\ (block + 1) * SectorSize = block * SectorSize + SectorSize
  BY <1>2
<1> HIDE DEF to_copy, from, a
<1>7. bytes \in Seq(Nat) /\ Len(bytes) = to_copy
      /\ \A k \in 1..to_copy : bytes[k] = a + (got + k - 1)
  <2>1. \A k \in 1..to_copy : from + k - 1 \in Nat /\ from + k - 1 = a + (got + k - 1)
    BY <1>2, <1>3, <1>4, <1>5
  <2> QED
    BY <1>3, <2>1
<1> HIDE DEF bytes
<1>8. /\ out' \in [Descriptors -> Seq(Nat)] /\ out'[d] = out[d] \o bytes
      /\ \A y \in Descriptors : y # d => out'[y] = out[y]
  <2>1. out[d] \in Seq(Nat)
    BY <1>2
  <2>2. out[d] \o bytes \in Seq(Nat)
    BY <1>7, <2>1
  <2> QED
    BY <1>1, <1>2, <2>2
<1>9. /\ Len(out'[d]) = Len(out[d]) + to_copy
      /\ \A k \in 1..Len(out[d]) : out'[d][k] = out[d][k]
      /\ \A k \in (Len(out[d]) + 1)..(Len(out[d]) + to_copy) :
           out'[d][k] = bytes[k - Len(out[d])]
  <2>1. out[d] \in Seq(Nat) /\ Len(out[d]) \in Nat
    BY <1>2
  <2> QED
    <3> PICK s \in Seq(Nat) : s = out[d]
      BY <2>1
    <3> PICK t \in Seq(Nat) : t = bytes
      BY <1>7
    <3>1. /\ Len(s \o t) = Len(s) + to_copy
          /\ \A k \in 1..Len(s) : (s \o t)[k] = s[k]
          /\ \A k \in (Len(s) + 1)..(Len(s) + to_copy) : (s \o t)[k] = t[k - Len(s)]
      <4>1. Len(t) = to_copy
        BY <1>7
      <4> QED
        BY <4>1, Appended
    <3>2. out'[d] = s \o t
      BY <1>8
    <3> QED
      BY <3>1, <3>2
<1>10. TypeOK'
  <2>1. eof' \in [Descriptors -> BOOLEAN]
    BY <1>1 DEF FInv, TypeOK
  <2>2. got' \in Nat /\ block' \in Nat /\ offset' \in 0..(SectorSize - 1)
    BY <1>1, <1>2, <1>3
  <2> QED
    BY <1>1, <2>1, <2>2 DEF FInv, TypeOK
<1>11. VolumeInv' /\ FreshInv' /\ PosInv' /\ EofAtEnd' /\ ErrorInv'
  BY <1>1, Frames, ErrorsKept
<1>12. OutInv'
  <2>1. Len(out'[d]) = pos[d] + got'
    BY <1>1, <1>2, <1>3, <1>9
  <2>2. \A y \in Descriptors : y # d => Len(out[y]) = pos[y] + 0
    BY DEF FInv, OutInv, InFlight
  <2> QED
    BY <1>1, <1>8, <2>1, <2>2 DEF OutInv, InFlight
<1>13. WalkInv' /\ CallInv'
  BY <1>1, SameFiles DEF FInv, WalkInv, CallInv, Early, Late, nbytes
<1>14. CursorInv'
  BY <1>1, SameFiles DEF FInv, CursorInv, Turn, B, bytes_per_cluster
<1>15. ChunkInv'
  <2>1. a' = a /\ B' = B
    BY <1>1 DEF a, descriptor_to_absolute_address, B, bytes_per_cluster
  <2>2. got' <= want /\ (got' < want => (block + 1) * SectorSize + 0 = a + got')
    <3>1. got' < want => to_copy = SectorSize - offset
      BY <1>1, <1>2, <1>3
    <3>2. block * SectorSize + offset = a + got
      BY <1>4 DEF from
    <3> QED
      BY <1>1, <1>2, <1>3, <1>5, <1>6, <3>1, <3>2
  <2>3. want > 0 /\ read + want <= len /\ relative_pos[d] + want <= B
    BY <1>1 DEF FInv, ChunkInv
  <2> QED
    BY <1>1, <1>4, <2>1, <2>2, <2>3 DEF ChunkInv, a
<1>16. ContentExact'
  <2> SUFFICES ASSUME NEW y \in Descriptors, file[y] # NONE, NEW k \in 1..Len(out'[y])
               PROVE  IF k <= Reachable(file[y])
                      THEN out'[y][k] = Address(file[y], k - 1)
                      ELSE Broken(file[y]) = FREE /\ out'[y][k] < bytes_per_cluster
    BY <1>1, SameFiles DEF ContentExact
  <2>1. CASE y # d
    BY <1>8, <2>1 DEF FInv, ContentExact
  <2>2. CASE y = d /\ k <= Len(out[d])
    <3>1. k \in 1..Len(out[d])
      BY <1>2, <2>2
    <3> QED
      BY <1>9, <2>2, <3>1 DEF FInv, ContentExact
  <2>3. CASE y = d /\ ~(k <= Len(out[d]))
    <3>1. k \in (Len(out[d]) + 1)..(Len(out[d]) + to_copy)
      BY <1>2, <1>3, <1>9, <2>3
    <3> DEFINE m == Len(out[d])
    <3>2. /\ m \in Nat /\ m = pos[d] + got /\ k \in (m + 1)..(m + to_copy)
          /\ pos[d] \in Nat /\ got \in Nat /\ want \in Nat
      BY <1>2, <3>1
    <3> HIDE DEF m
    <3>3. PICK p \in Nat, g \in Nat, c \in Nat, w \in Nat, n \in Nat :
            p = pos[d] /\ g = got /\ c = to_copy /\ w = want /\ n = m
      BY <1>3, <3>2
    <3>4. n = p + g /\ k \in (n + 1)..(n + c) /\ g + c <= w
      BY <1>3, <3>2, <3>3
    <3>5. PICK q \in Nat : q = k - 1 - p
      BY <3>4
    <3>6. k - n \in 1..c /\ q < w
      BY <3>4, <3>5
    <3>7. p + q = k - 1 /\ p + q + 1 = k
      BY <3>4, <3>5
    <3>8. g + (k - n) - 1 = q
      BY <3>4, <3>5
    <3>9. out'[d][k] = a + q
      <4>1. out'[d][k] = bytes[k - n]
        BY <1>9, <3>1, <3>3 DEF m
      <4>2. bytes[k - n] = a + (g + (k - n) - 1)
        BY <1>7, <3>3, <3>6
      <4> QED
        BY <3>8, <4>1, <4>2
    <3>10. IF p + q + 1 <= Reachable(f) THEN a + q = Address(f, p + q)
           ELSE Broken(f) = FREE /\ a + q < B
      BY <1>1, <3>3, <3>6, ChunkByte DEF a
    <3> QED
      BY <2>3, <3>7, <3>9, <3>10 DEF B
  <2> QED
    BY <2>1, <2>2, <2>3
<1> QED
  BY <1>10, <1>11, <1>12, <1>13, <1>14, <1>15, <1>16 DEF FInv

(* __fat16_read after a chunk: the cursors move on (fat16.c:442-450). *)
LEMMA EndChunkKeeps ==
  ASSUME FInv, EndChunk
  PROVE  FInv'
<1> DEFINE f == file[d]
<1>1. /\ pc = "sector" /\ got = want /\ UNCHANGED volume
      /\ ppos' = ppos + got /\ read' = read + got /\ AdjustCursors(d, got, "chunk")
      /\ UNCHANGED <<file, relative_pos, sector, error, d, args, start, len,
                     want, got, block, offset, result, out>>
  BY DEF EndChunk, request, stream
<1>2. /\ d \in Descriptors /\ f \in Files /\ f # NONE /\ VolumeInv /\ pos[d] \in Nat
      /\ got \in Nat /\ read \in Nat /\ ppos \in Nat /\ start \in Nat /\ len \in Nat
  BY <1>1, InCall DEF FInv, TypeOK
<1>3. layout[f] # <<>>
  BY <1>1, <1>2, ChunkWithin, DamagedOrNot
<1>4. /\ pos' = [pos EXCEPT ![d] = @ + got]
      /\ pos' \in [Descriptors -> Nat] /\ pos'[d] = pos[d] + got /\ caller' = "chunk"
      /\ cluster' \in 0..END /\ steps' \in Nat /\ WalkInv'
      /\ pc' = "follow" /\ eof' = eof
  BY <1>1, <1>2, <1>3, AdjustStarts
<1>5. \A y \in Descriptors : y # d => pos'[y] = pos[y]
  BY <1>4 DEF FInv, TypeOK
<1>6. TypeOK'
  <2>1. eof' \in [Descriptors -> BOOLEAN]
    BY <1>4 DEF FInv, TypeOK
  <2> QED
    BY <1>1, <1>2, <1>4, <2>1 DEF FInv, TypeOK, Pcs
<1>7. VolumeInv' /\ ContentExact'
  BY <1>1, Frames
<1>8. FreshInv'
  BY <1>1, <1>2, <1>4, <1>5 DEF FInv, FreshInv
<1>9. PosInv'
  <2>1. /\ pos[d] + got <= size[f]
        /\ Broken(f) # FREE => pos[d] + got <= Intact(f) * B
    BY <1>1, ChunkWithin
  <2> SUFFICES ASSUME NEW y \in Descriptors, file[y] # NONE
               PROVE  /\ pos'[y] <= size[file[y]]
                      /\ layout[file[y]] # <<>> /\ Broken(file[y]) # FREE =>
                           pos'[y] <= Intact(file[y]) * B
    BY <1>1, SameFiles DEF PosInv, B, bytes_per_cluster
  <2>2. CASE y = d
    BY <1>4, <2>1, <2>2
  <2>3. CASE y # d
    BY <1>5, <2>3 DEF FInv, PosInv
  <2> QED
    BY <2>2, <2>3
<1>10. OutInv'
  <2>1. /\ Len(out[d]) = pos[d] + got
        /\ \A y \in Descriptors : y # d => Len(out[y]) = pos[y] + 0
    BY <1>1, <1>2 DEF FInv, OutInv, InFlight
  <2>2. Len(out[d]) = pos'[d] + 0
    BY <1>2, <1>4, <2>1
  <2> QED
    BY <1>1, <1>4, <1>5, <2>1, <2>2 DEF FInv, OutInv, InFlight
<1>11. CursorInv' /\ ChunkInv'
  BY <1>4 DEF CursorInv, ChunkInv
<1>12. CallInv'
  <2>1. /\ pos[d] = start + read /\ start < size[f] /\ read + got <= len
        /\ len = Lesser(nbytes, size[f] - start)
    BY <1>1 DEF FInv, CallInv, Late, ChunkInv
  <2>2. pos'[d] = start + read' /\ read' <= len
    BY <1>1, <1>2, <1>4, <2>1
  <2>3. nbytes' = nbytes /\ size' = size
    BY <1>1, SameFiles DEF nbytes
  <2> QED
    BY <1>1, <1>2, <1>4, <2>1, <2>2, <2>3 DEF CallInv, Early, Late
<1>13. ErrorInv'
  <2> SUFFICES ASSUME NEW y \in Descriptors, (file[y] # NONE)', Damaged(file[y])',
                    (Broken(file[y]) \in {RESERVED, BAD})',
                    (pos[y] = Intact(file[y]) * B)', ~(y = d /\ pc = "follow")'
               PROVE  error'[y] = EIO
    BY DEF ErrorInv
  <2>1. y # d
    BY <1>1, <1>4
  <2>2. /\ file[y] # NONE /\ Damaged(file[y]) /\ Broken(file[y]) \in {RESERVED, BAD}
        /\ pos'[y] = Intact(file[y]) * B
    BY <1>1, SameFiles DEF Damaged, Broken, Intact, B, bytes_per_cluster
  <2> QED
    BY <1>1, <1>5, <2>1, <2>2 DEF FInv, ErrorInv
<1>14. EofAtEnd'
  <2>1. ~eof[d]
    BY <1>1 DEF FInv, ChunkInv
  <2> QED
    BY <1>1, <1>4, <1>5, <2>1, SameFiles DEF FInv, EofAtEnd
<1> QED
  BY <1>4, <1>6, <1>7, <1>8, <1>9, <1>10, <1>11, <1>12, <1>13, <1>14 DEF FInv

(* The loop of __fat16_read ends with everything read, or at the end of    *)
(* the chain (fat16.c:452-454).                                            *)
LEMMA OverKeeps ==
  ASSUME FInv, ReadOver
  PROVE  FInv'
<1> DEFINE f == file[d]
<1>1. /\ pc = "chunk" /\ (read >= len \/ eof[d]) /\ result' = read /\ pc' = "done"
      /\ UNCHANGED volume
      /\ UNCHANGED <<file, pos, relative_pos, sector, eof, error, ppos, d, args, start,
                     len, read, cluster, steps, caller, want, got, block, offset, out>>
  BY DEF ReadOver, cursors, request, chain, stream
<1>2. /\ d \in Descriptors /\ f \in Files /\ f # NONE /\ VolumeInv /\ pos[d] \in Nat
      /\ read \in Nat /\ start \in Nat /\ len \in Nat /\ size[f] \in Nat /\ nbytes \in Nat
  BY <1>1, InCall, Asked DEF FInv, TypeOK, ChainOf
<1>3. TypeOK'
  <2>1. eof' \in [Descriptors -> BOOLEAN]
    BY <1>1 DEF FInv, TypeOK
  <2> QED
    BY <1>1, <1>2, <2>1 DEF FInv, TypeOK, Pcs
<1>4. VolumeInv' /\ FreshInv' /\ PosInv' /\ EofAtEnd' /\ ContentExact' /\ ErrorInv'
  BY <1>1, Frames, ErrorsKept
<1>5. OutInv' /\ WalkInv' /\ CursorInv' /\ ChunkInv'
  BY <1>1 DEF FInv, OutInv, InFlight, WalkInv, CursorInv, ChunkInv
<1>6. /\ pos[d] = start + read /\ read <= len /\ start < size[f]
      /\ len = Lesser(nbytes, size[f] - start)
  BY <1>1 DEF FInv, CallInv, Late
<1>7. ~Damaged(f) => read = len
  <2>1. ~Damaged(f) /\ eof[d] => pos[d] >= size[f]
    BY <1>2 DEF FInv, EofAtEnd
  <2>2. len <= size[f] - start
    BY <1>2, <1>6 DEF Lesser
  <2> QED
    BY <1>1, <1>2, <1>6, <2>1, <2>2
<1>8. CallInv'
  <2>1. nbytes' = nbytes /\ size' = size /\ Damaged(f)' = Damaged(f) /\ file'[d'] = f
    BY <1>1, SameFiles DEF nbytes
  <2>2. (Damaged(file[d]))' = Damaged(f)
    BY <1>1, SameFiles DEF Damaged, Intact
  <2> QED
    BY <1>1, <1>2, <1>6, <1>7, <2>1, <2>2 DEF CallInv, Early, Late
<1> QED
  BY <1>3, <1>4, <1>5, <1>8 DEF FInv

(* The end of fat16_read (fat16.c:597-601). *)
LEMMA ReturnKeeps ==
  ASSUME FInv, ReadReturns
  PROVE  FInv'
<1>1. /\ pc = "done" /\ pc' = "idle" /\ UNCHANGED volume
      /\ UNCHANGED <<file, pos, relative_pos, sector, error, ppos, d, args, start, len, read,
                     cluster, steps, caller, want, got, block, offset, result, out>>
  BY DEF ReadReturns, request, chain, stream
<1>2. eof' = [eof EXCEPT ![d] = eof[d] \/ AtEnd]
  BY DEF ReadReturns
<1>3. eof \in [Descriptors -> BOOLEAN] /\ d \in Descriptors
  BY DEF FInv, TypeOK
<1>4. eof' \in [Descriptors -> BOOLEAN]
  <2>1. (eof[d] \/ AtEnd) \in BOOLEAN
    OBVIOUS
  <2> QED
    BY <1>2, <1>3, <2>1
<1>5. eof'[d] => eof[d] \/ AtEnd
  <2>1. eof'[d] = (eof[d] \/ AtEnd)
    BY <1>2, <1>3
  <2> QED
    BY <2>1
<1>6. \A y \in Descriptors : y # d => eof'[y] = eof[y]
  BY <1>2, <1>3
<1>7. TypeOK'
  BY <1>1, <1>4 DEF FInv, TypeOK, Pcs
<1>8. EofAtEnd' /\ FreshInv'
  BY <1>1, <1>5, <1>6, EofSet
<1>9. VolumeInv' /\ PosInv' /\ ContentExact' /\ ErrorInv'
  BY <1>1, Frames, ErrorsKept
<1>10. OutInv' /\ WalkInv' /\ CursorInv' /\ ChunkInv' /\ CallInv'
  BY <1>1 DEF FInv, OutInv, InFlight, WalkInv, CursorInv, ChunkInv, CallInv, Early, Late
<1> QED
  BY <1>7, <1>8, <1>9, <1>10 DEF FInv

LEMMA FInvKept == FInv /\ [Next]_vars => FInv'
<1> SUFFICES ASSUME FInv, [Next]_vars PROVE FInv'
  OBVIOUS
<1>1. CASE \E x \in Descriptors, f \in Files : fat16_open(x, f)
  BY <1>1, OpenKeeps
<1>2. CASE \E x \in Descriptors : fat16_close(x)
  BY <1>2, CloseKeeps
<1>3. CASE \E x \in Descriptors, a \in Requests : fat16_read(x, a)
  BY <1>3, ReadKeeps
<1>4. CASE Step
  BY <1>4, FollowKeeps, SetCursorsKeeps, CheckKeeps, BeginKeeps, CopyKeeps,
     EndChunkKeeps, OverKeeps, ReturnKeeps DEF Step
<1>5. CASE UNCHANGED vars
  <2>1. /\ UNCHANGED volume
        /\ UNCHANGED <<file, pos, relative_pos, sector, eof, error, ppos, pc, d, args,
                       start, len, read, cluster, steps, caller, want, got, block, offset,
                       result, out>>
    BY <1>5 DEF vars, cursors, request, chain, stream
  <2>2. TypeOK'
    <3>1. eof' \in [Descriptors -> BOOLEAN]
      BY <2>1 DEF FInv, TypeOK
    <3> QED
      BY <2>1, <3>1 DEF FInv, TypeOK
  <2>3. VolumeInv' /\ FreshInv' /\ PosInv' /\ EofAtEnd' /\ ContentExact'
    BY <2>1, Frames
  <2>4. OutInv' /\ ChunkInv'
    BY <2>1 DEF FInv, OutInv, InFlight, ChunkInv, descriptor_to_absolute_address, B,
       bytes_per_cluster
  <2>5. CursorInv'
    BY <2>1, SameFiles DEF FInv, CursorInv, Turn, B, bytes_per_cluster
  <2>6. WalkInv'
    BY <2>1, SameFiles DEF FInv, WalkInv, Turn, B, bytes_per_cluster
  <2>7. CallInv'
    BY <2>1, SameFiles DEF FInv, CallInv, Early, Late, nbytes
  <2>8. ErrorInv'
    BY <2>1, SameFiles DEF FInv, ErrorInv, B, bytes_per_cluster
  <2> QED
    BY <2>2, <2>3, <2>4, <2>5, <2>6, <2>7, <2>8 DEF FInv
<1> QED
  BY <1>1, <1>2, <1>3, <1>4, <1>5 DEF Next

LEMMA FInvAlways == Spec => []FInv
<1> QED
  BY FInvInit, FInvKept, PTL DEF Spec
-----------------------------------------------------------------------------
(* Every variable keeps its type; in particular relative_pos never reaches *)
(* the size of a cluster, so that no chunk is empty (fat16.c:423-448).     *)
THEOREM TypeCorrect == Spec => []TypeOK
<1>1. FInv => TypeOK
  BY DEF FInv
<1> QED
  BY <1>1, FInvAlways, PTL

(* Every byte delivered through a descriptor is the byte of its file at    *)
(* that place, as far as the chain leads (fat16.c:198-224, 423-454).       *)
THEOREM ContentCorrect == Spec => []ContentExact
<1>1. FInv => ContentExact
  BY DEF FInv
<1> QED
  BY <1>1, FInvAlways, PTL

(* eof and error tell truly why a descriptor delivers no more              *)
(* (fat16.c:202-221, 589-601).                                             *)
THEOREM EndsCorrect == Spec => []EndsExact
<1>1. FInv => EndsExact
  <2> SUFFICES ASSUME FInv PROVE BadLinkReported
    BY DEF FInv, EndsExact
  <2> SUFFICES ASSUME NEW x \in Descriptors, file[x] # NONE, Damaged(file[x]),
                      Broken(file[x]) \in {RESERVED, BAD}
               PROVE  /\ pos[x] <= Reachable(file[x])
                      /\ pc = "idle" /\ pos[x] = Reachable(file[x]) =>
                           error[x] = EIO /\ ~eof[x]
    BY DEF BadLinkReported
  <2>1. file[x] \in Files /\ pos[x] \in Nat /\ VolumeInv
    BY DEF FInv, TypeOK
  <2>2. /\ layout[file[x]] # <<>> /\ size[file[x]] \in Nat
        /\ Intact(file[x]) * B \in Nat /\ Intact(file[x]) * B < size[file[x]]
        /\ Reachable(file[x]) = Intact(file[x]) * B
    BY <2>1, DamagedOrNot
  <2>3. Broken(file[x]) # FREE /\ Broken(file[x]) # END
    BY EntryValues
  <2>4. pos[x] <= Intact(file[x]) * B
    BY <2>2, <2>3 DEF FInv, PosInv
  <2>5. pc = "idle" /\ pos[x] = Intact(file[x]) * B => error[x] = EIO
    BY DEF FInv, ErrorInv
  <2>6. ~eof[x]
    <3>1. ~(pos[x] >= size[file[x]])
      BY <2>1, <2>2, <2>4
    <3> QED
      BY <2>3, <3>1 DEF FInv, EofAtEnd
  <2> QED
    BY <2>2, <2>4, <2>5, <2>6
<1> QED
  BY <1>1, FInvAlways, PTL

(* A read of a sound file returns what was asked for or what is left, and  *)
(* the position and the bytes delivered advance by that (fat16.c:577-601). *)
THEOREM CountCorrect == Spec => CountExact
<1>1. FInv /\ [Next]_vars => [Delivered]_vars
  <2> SUFFICES ASSUME FInv, Next, pc # "idle", pc' = "idle", ~Damaged(file[d])
               PROVE  /\ LET asked == args[1] * args[2]
                             left  == size[file[d]] - start
                         IN  result' = Lesser(IF asked < WordSize THEN asked
                                              ELSE asked % WordSize, left)
                      /\ pos'[d] = start + result'
                      /\ Len(out'[d]) = pos'[d]
    BY DEF Delivered
  <2> DEFINE f == file[d]
  <2>1. /\ d \in Descriptors /\ f \in Files /\ pos[d] \in Nat /\ size[f] \in Nat
        /\ start \in Nat /\ ChainOf(f)
    BY InCall DEF ChainOf, FInv, TypeOK
  <2>2. /\ nbytes \in Nat
        /\ nbytes = IF args[1] * args[2] < WordSize THEN args[1] * args[2]
                    ELSE (args[1] * args[2]) % WordSize
    BY Asked
  <2>3. pc # "sector" => Len(out[d]) = pos[d]
    BY <2>1 DEF FInv, OutInv, InFlight
  <2>4. ASSUME pc # "sector", pos' = pos, out' = out, result' = pos[d] - start,
               result' = Lesser(nbytes, size[f] - start)
        PROVE  /\ result' = Lesser(nbytes, size[f] - start)
               /\ pos'[d] = start + result' /\ Len(out'[d]) = pos'[d]
    BY <2>1, <2>3, <2>4
  <2>5. CASE CheckEnd
    <3>1. /\ pc = "check" /\ (eof[d] \/ AtEnd) /\ result' = 0 /\ pos' = pos /\ out' = out
      BY <2>5 DEF CheckEnd
    <3>2. pos[d] = start /\ pos[d] <= size[f]
      BY <2>1, <3>1 DEF FInv, CallInv, Early, PosInv
    <3>3. pos[d] >= size[f]
      <4>1. eof[d] => pos[d] >= size[f]
        BY <2>1, <3>1, InCall DEF FInv, EofAtEnd
      <4> QED
        BY <3>1, <4>1 DEF AtEnd
    <3>4. result' = pos[d] - start /\ result' = Lesser(nbytes, size[f] - start)
      BY <2>1, <2>2, <3>1, <3>2, <3>3 DEF Lesser
    <3> QED
      BY <2>2, <2>4, <3>1, <3>4
  <2>6. CASE ReadReturns
    <3>1. pc = "done" /\ result' = result /\ pos' = pos /\ out' = out
      BY <2>6 DEF ReadReturns
    <3>2. /\ result = read /\ read = len /\ len = Lesser(nbytes, size[f] - start)
          /\ pos[d] = start + read /\ read \in Nat
      BY <3>1 DEF FInv, TypeOK, CallInv, Late
    <3>3. result' = pos[d] - start
      BY <2>1, <3>1, <3>2
    <3> QED
      BY <2>2, <2>4, <3>1, <3>2, <3>3
  <2>7. CASE SetCursors
    <3>1. pc = "follow" /\ ChainOver /\ BadCluster
      BY <2>7 DEF SetCursors, FInv, TypeOK
    <3>2. cluster = Broken(f) /\ layout[f] # <<>>
      BY <3>1, WalkEnds, NoClusters DEF BadCluster, FInv, WalkInv
    <3>3. Broken(f) # END
      BY <3>1, <3>2, EntryValues DEF BadCluster
    <3> QED
      BY <2>1, <3>2, <3>3 DEF ChainOf
  <2>8. ~fat16_follow_cluster_chain /\ ~BeginChunk /\ ~diskstream_read /\ ~ReadOver
    BY DEF fat16_follow_cluster_chain, BeginChunk, diskstream_read, ReadOver
  <2>9. ~EndChunk
    BY DEF EndChunk, AdjustCursors
  <2>10. /\ \A x \in Descriptors, g \in Files : ~fat16_open(x, g)
         /\ \A x \in Descriptors : ~fat16_close(x)
         /\ \A x \in Descriptors, a \in Requests : ~fat16_read(x, a)
    BY DEF fat16_open, fat16_close, fat16_read
  <2> QED
    BY <2>5, <2>6, <2>7, <2>8, <2>9, <2>10 DEF Next, Step
<1> QED
  BY <1>1, FInvAlways, PTL DEF Spec, CountExact
=============================================================================
