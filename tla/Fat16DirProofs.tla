--------------------------- MODULE Fat16DirProofs ---------------------------
(***************************************************************************)
(* A lookup finds what its path names, for volumes of any size and shape   *)
(* and paths of any length.                                                *)
(***************************************************************************)
EXTENDS Fat16Dir, TLAPS

Ends  == Dirs \cup {FILE}
Depth == Len(asked) - Len(path)

(* A route along the first d parts of the path, and where it ends. *)
Partly(d, u) ==
  \E w \in [0..d -> Ends] :
    /\ w[0] = ROOT /\ w[d] = u
    /\ \A k \in 1..d : Leads(w[k - 1], asked[k], w[k], RootBytes)

(* Every route of the whole path passes through u after d parts. *)
Passes(d, u) ==
  \A w \in [0..Len(asked) -> Ends] : Route(w, asked, RootBytes) => w[d] = u

Arrived(u) == u \in Ends /\ Partly(Depth, u) /\ Passes(Depth, u)

VolumeInv ==
  dirs \in Volumes /\ data_sector \in DataSectors /\ bytes_per_cluster \in ClusterSizes

(* What is left of the path is its end. *)
PathInv == \A k \in 1..Len(path) : path[k] = asked[Depth + k]

(* The first c entries of the folder are neither the one asked for nor the *)
(* end mark.                                                               *)
Passed(c) ==
  \A j \in 1..c : dirs[folder][j].kind # "end" /\ ~Matches(dirs[folder][j], Head(path))

ScanInv ==
  pc = "scan" =>
    /\ path # <<>> /\ Arrived(folder)
    /\ folder \in Dirs =>
         /\ Passed(pos \div EntrySize)
         /\ eof => AtEof(pos)
         /\ folder # ROOT /\ ~eof => pos < Len(dirs[folder]) * EntrySize

PartInv == pc = "part" => Arrived(item)

DInv == TypeOK /\ NothingKept /\ VolumeInv /\ PathInv /\ PartInv /\ ScanInv /\ LookupExact
-----------------------------------------------------------------------------
(* Positions are multiples of the size of an entry. *)
LEMMA Multiples ==
  ASSUME NEW e \in Nat \ {0}, NEW a \in Nat, NEW b \in Nat
  PROVE  /\ a * e \in Nat /\ (a + 1) * e = a * e + e
         /\ a * e <= b * e <=> a <= b
         /\ a * e < b * e <=> a < b
<1>1. a * e \in Nat /\ b * e \in Nat /\ (a + 1) * e = a * e + e
  OBVIOUS
<1>2. ASSUME a < b PROVE a * e < b * e
  <2>1. b * e = a * e + (b - a) * e /\ (b - a) * e > 0
    BY <1>2
  <2> QED
    BY <1>1, <2>1
<1>3. ASSUME b < a PROVE b * e < a * e
  <2>1. a * e = b * e + (a - b) * e /\ (a - b) * e > 0
    BY <1>3
  <2> QED
    BY <1>1, <2>1
<1> QED
  BY <1>1, <1>2, <1>3

LEMMA Positions ==
  ASSUME NEW e \in Nat \ {0}, NEW p \in Nat, p % e = 0
  PROVE  /\ p \div e \in Nat /\ p = (p \div e) * e
         /\ (p + e) % e = 0 /\ (p + e) \div e = p \div e + 1
  OBVIOUS

LEMMA Volume ==
  ASSUME VolumeInv
  PROVE  /\ dirs \in [Dirs -> Seq(Entries)]
         /\ \A t \in Dirs \ {ROOT} : Len(dirs[t]) > 0
         /\ data_sector \in Nat /\ RootBytes \in Nat /\ data_sector <= RootBytes
         /\ EntrySize \in Nat \ {0} /\ ROOT \in Dirs
<1>1. /\ dirs \in [Dirs -> Seq(Entries)] /\ data_sector \in Nat
      /\ EntrySize \in Nat \ {0} /\ ROOT \in Dirs
      /\ data_sector <= Len(dirs[ROOT]) * EntrySize
  BY DirAssumption DEF VolumeInv
<1>2. \A t \in Dirs \ {ROOT} : dirs[t] \in Seq(Entries) /\ dirs[t] # <<>>
  BY <1>1, DirAssumption DEF VolumeInv
<1>3. \A t \in Dirs \ {ROOT} : Len(dirs[t]) > 0
  BY <1>2
<1>4. RootBytes \in Nat
  BY <1>1, Multiples DEF RootBytes
<1> QED
  BY <1>1, <1>3, <1>4 DEF RootBytes

(* A name leads to one place: the first entry of the name decides. *)
LEMMA LeadsToOne ==
  ASSUME VolumeInv, NEW t, NEW name, NEW u, NEW v, NEW r, NEW q,
         Leads(t, name, u, r), Leads(t, name, v, q)
  PROVE  u = v
<1>1. t \in Dirs /\ Len(dirs[t]) \in Nat
  BY Volume DEF Leads
<1>2. PICK k \in 1..Len(dirs[t]) :
        /\ Matches(dirs[t][k], name) /\ dirs[t][k].to = u
        /\ \A j \in 1..(k - 1) : ~Matches(dirs[t][j], name)
  BY DEF Leads
<1>3. PICK l \in 1..Len(dirs[t]) :
        /\ Matches(dirs[t][l], name) /\ dirs[t][l].to = v
        /\ \A j \in 1..(l - 1) : ~Matches(dirs[t][j], name)
  BY DEF Leads
<1>4. ~(k < l) /\ ~(l < k)
  BY <1>1, <1>2, <1>3
<1> QED
  BY <1>1, <1>2, <1>3, <1>4

LEMMA LeadsFurther ==
  ASSUME VolumeInv, NEW t, NEW name, NEW u, NEW r \in Int, NEW q \in Int, r <= q,
         Leads(t, name, u, r)
  PROVE  Leads(t, name, u, q)
<1>1. t \in Dirs /\ Len(dirs[t]) \in Nat
  BY Volume DEF Leads
<1>2. \A k \in 1..Len(dirs[t]) : k * EntrySize \in Int
  BY <1>1, Volume
<1> QED
  BY <1>1, <1>2 DEF Leads

(* From one part of the path to the next. *)
LEMMA OnePartFurther ==
  ASSUME VolumeInv, asked \in Seq(Names), NEW d \in Nat, d < Len(asked),
         NEW u, NEW v \in Ends, Partly(d, u), Passes(d, u),
         Leads(u, asked[d + 1], v, RootBytes)
  PROVE  Partly(d + 1, v) /\ Passes(d + 1, v)
<1>1. Partly(d + 1, v)
  <2>1. PICK w \in [0..d -> Ends] :
          /\ w[0] = ROOT /\ w[d] = u
          /\ \A k \in 1..d : Leads(w[k - 1], asked[k], w[k], RootBytes)
    BY DEF Partly
  <2> DEFINE x == [k \in 0..(d + 1) |-> IF k = d + 1 THEN v ELSE w[k]]
  <2>2. x \in [0..(d + 1) -> Ends] /\ x[0] = ROOT /\ x[d + 1] = v
    BY <2>1
  <2>3. ASSUME NEW k \in 1..(d + 1)
        PROVE  Leads(x[k - 1], asked[k], x[k], RootBytes)
    <3>1. CASE k = d + 1
      <4>1. x[k - 1] = u /\ x[k] = v
        BY <2>1, <3>1
      <4> QED
        BY <3>1, <4>1
    <3>2. CASE k # d + 1
      <4>1. k \in 1..d /\ x[k - 1] = w[k - 1] /\ x[k] = w[k]
        BY <3>2
      <4> QED
        BY <2>1, <4>1
    <3> QED
      BY <3>1, <3>2
  <2> HIDE DEF x
  <2> QED
    BY <2>2, <2>3 DEF Partly
<1>2. Passes(d + 1, v)
  <2> SUFFICES ASSUME NEW w \in [0..Len(asked) -> Ends], Route(w, asked, RootBytes)
               PROVE  w[d + 1] = v
    BY DEF Passes
  <2>1. w[d] = u
    BY DEF Passes
  <2>2. d + 1 \in 1..Len(asked) /\ (d + 1) - 1 = d
    OBVIOUS
  <2>3. Leads(w[d], asked[d + 1], w[d + 1], RootBytes)
    BY <2>2 DEF Route
  <2> QED
    BY <2>1, <2>3, LeadsToOne
<1> QED
  BY <1>1, <1>2

(* At the end of the path. *)
LEMMA WholePath ==
  ASSUME asked \in Seq(Names), NEW u, Partly(Len(asked), u), Passes(Len(asked), u)
  PROVE  Denoted(asked, RootBytes) = {u}
<1>1. PICK w \in [0..Len(asked) -> Ends] :
        w[Len(asked)] = u /\ Route(w, asked, RootBytes)
  BY DEF Partly, Route
<1> QED
  BY <1>1 DEF Passes, Denoted, Ends

(* Where no entry leads on, the path names nothing. *)
LEMMA NoWayOn ==
  ASSUME VolumeInv, asked \in Seq(Names), NEW d \in Nat, d < Len(asked),
         NEW u, Passes(d, u), NEW reach \in Int, reach <= RootBytes,
         \A v : ~Leads(u, asked[d + 1], v, reach)
  PROVE  Denoted(asked, reach) = {}
<1> SUFFICES ASSUME NEW w \in [0..Len(asked) -> Ends], Route(w, asked, reach)
             PROVE  FALSE
  BY DEF Denoted, Ends
<1>1. Route(w, asked, RootBytes)
  BY LeadsFurther, Volume DEF Route
<1>2. w[d] = u
  BY <1>1 DEF Passes
<1>3. d + 1 \in 1..Len(asked) /\ (d + 1) - 1 = d
  OBVIOUS
<1>4. Leads(w[d], asked[d + 1], w[d + 1], reach)
  BY <1>3 DEF Route
<1> QED
  BY <1>2, <1>4
-----------------------------------------------------------------------------
LEMMA SameVolume ==
  ASSUME UNCHANGED <<volume, asked>>
  PROVE  /\ VolumeInv => VolumeInv'
         /\ \A d, u : Partly(d, u)' <=> Partly(d, u)
         /\ \A d, u : Passes(d, u)' <=> Passes(d, u)
         /\ Denoted(asked, RootBytes)' = Denoted(asked, RootBytes)
         /\ Denoted(asked, data_sector)' = Denoted(asked, data_sector)
<1>1. dirs' = dirs /\ data_sector' = data_sector /\ asked' = asked
      /\ bytes_per_cluster' = bytes_per_cluster
  BY DEF volume
<1>2. RootBytes' = RootBytes
  BY <1>1 DEF RootBytes
<1>3. \A t, name, u, r : Leads(t, name, u, r)' <=> Leads(t, name, u, r)
  BY <1>1 DEF Leads, Matches
<1>4. \A w, p, r : Route(w, p, r)' <=> Route(w, p, r)
  BY <1>3 DEF Route
<1>5. VolumeInv => VolumeInv'
  BY <1>1 DEF VolumeInv
<1>6. \A d, u : Partly(d, u)' <=> Partly(d, u)
  BY <1>1, <1>2, <1>3 DEF Partly, Ends
<1>7. \A d, u : Passes(d, u)' <=> Passes(d, u)
  BY <1>1, <1>2, <1>4 DEF Passes, Ends
<1>8. Denoted(asked, RootBytes)' = Denoted(asked, RootBytes)
  BY <1>1, <1>2, <1>4 DEF Denoted
<1>9. Denoted(asked, data_sector)' = Denoted(asked, data_sector)
  BY <1>1, <1>4 DEF Denoted
<1> QED
  BY <1>5, <1>6, <1>7, <1>8, <1>9

LEMMA DInvInit == Init => DInv
<1> SUFFICES ASSUME Init PROVE DInv
  OBVIOUS
<1>1. TypeOK
  <2>1. 0 % EntrySize = 0 /\ NULL \notin Dirs
    BY DirAssumption
  <2>2. eof \in BOOLEAN /\ nomem \in BOOLEAN
    BY DEF Init
  <2> QED
    BY <2>1, <2>2 DEF Init, TypeOK
<1>2. VolumeInv /\ PathInv /\ PartInv /\ ScanInv
  BY DEF Init, VolumeInv, PathInv, PartInv, ScanInv
<1>3. NothingKept /\ LookupExact
  BY DEF Init, NothingKept, LookupExact, OpensWhatIsNamed, FindsWithinReach, Refused
<1> QED
  BY <1>1, <1>2, <1>3 DEF DInv

(* A call starts at the root (fat16.c:249-255). *)
LEMMA TraverseKeeps ==
  ASSUME DInv, NEW p \in Paths, traverse_path(p)
  PROVE  DInv'
<1>1. p \in Seq(Names) /\ Len(p) \in Nat
  BY DirAssumption
<1>2. TypeOK'
  <2>1. folder' = folder /\ folder = NULL /\ NULL \notin Dirs /\ ROOT \in Dirs
    BY DirAssumption DEF traverse_path, DInv, NothingKept
  <2>2. eof' \in BOOLEAN /\ nomem' \in BOOLEAN
    BY DEF traverse_path, DInv, TypeOK
  <2> QED
    BY <1>1, <2>1, <2>2 DEF traverse_path, DInv, TypeOK
<1>3. VolumeInv'
  BY DEF traverse_path, DInv, VolumeInv, volume
<1>4. Depth' = 0
  BY <1>1 DEF traverse_path, Depth
<1>5. PathInv'
  BY <1>1, <1>4 DEF traverse_path, PathInv
<1>6. PartInv'
  <2> SUFFICES ASSUME item' = ROOT PROVE Arrived(item)'
    BY DEF traverse_path, PartInv
  <2>1. ROOT \in Ends
    BY DirAssumption DEF Ends
  <2>2. Passes(0, ROOT)'
    BY DEF Passes, Route
  <2>3. Partly(0, ROOT)'
    <3> DEFINE w == [k \in 0..0 |-> ROOT]
    <3>1. w \in [0..0 -> Ends] /\ w[0] = ROOT /\ 1..0 = {}
      BY <2>1
    <3> HIDE DEF w
    <3> QED
      BY <3>1 DEF Partly, Ends
  <2> QED
    BY <1>4, <2>1, <2>2, <2>3 DEF Arrived, Ends
<1>7. ScanInv' /\ LookupExact'
  BY DEF traverse_path, ScanInv, LookupExact, OpensWhatIsNamed, FindsWithinReach, Refused
<1>8. NothingKept'
  BY DEF traverse_path, NothingKept, DInv
<1> QED
  BY <1>2, <1>3, <1>5, <1>6, <1>7, <1>8 DEF DInv

(* A folder is open at its first entry (fat16.c:256-266). *)
LEMMA OpenFolderKeeps ==
  ASSUME DInv, OpenFolder
  PROVE  DInv'
<1>1. Arrived(item) /\ folder = NULL /\ path # <<>>
  <2>1. Arrived(item)
    BY DEF OpenFolder, DInv, PartInv
  <2>2. item # NULL
    BY <2>1, DirAssumption DEF Arrived, Ends, FILE, NULL
  <2> QED
    BY <2>1, <2>2 DEF OpenFolder, DInv, NothingKept
<1>2. UNCHANGED <<volume, asked, path>> /\ pos' = 0 /\ eof' = FALSE /\ item' = NULL
  BY DEF OpenFolder, ItemFreed
<1>3. dirs' = dirs /\ asked' = asked /\ data_sector' = data_sector /\ path' = path
  BY <1>2 DEF volume
<1>4. VolumeInv' /\ Depth' = Depth /\ PathInv'
  BY <1>2, <1>3, SameVolume DEF DInv, PathInv, Depth
<1>5. TypeOK'
  <2>1. 0 % EntrySize = 0
    BY DirAssumption
  <2>2. \A t \in Dirs : Len(dirs[t]) \in Nat
    BY Volume DEF DInv
  <2>3. \A t \in Dirs : Len(dirs[t]) * EntrySize \in Nat
    BY <2>2, Volume, Multiples DEF DInv
  <2>4. eof' \in BOOLEAN /\ nomem' \in BOOLEAN
    BY DEF OpenFolder, DInv, TypeOK
  <2> QED
    BY <1>2, <1>3, <2>1, <2>3, <2>4 DEF OpenFolder, DInv, TypeOK
<1>6. PartInv' /\ LookupExact'
  BY DEF OpenFolder, PartInv, LookupExact, OpensWhatIsNamed, FindsWithinReach, Refused
<1>7. NothingKept'
  BY <1>2 DEF OpenFolder, NothingKept
<1>8. ScanInv'
  <2> SUFFICES ASSUME pc' = "scan" PROVE ScanInv'
    BY DEF ScanInv
  <2>1. folder' = item
    BY DEF OpenFolder
  <2>2. Arrived(folder)'
    BY <1>1, <1>2, <1>4, <2>1, SameVolume DEF Arrived, Ends
  <2>3. 0 \div EntrySize = 0
    BY DirAssumption
  <2>4. Passed(pos \div EntrySize)'
    BY <1>2, <2>3 DEF Passed
  <2>5. folder' \in Dirs \ {ROOT} => 0 < Len(dirs[folder']) * EntrySize
    BY Volume, Multiples DEF DInv
  <2> QED
    BY <1>1, <1>2, <1>3, <2>2, <2>4, <2>5 DEF ScanInv
<1> QED
  BY <1>4, <1>5, <1>6, <1>7, <1>8 DEF DInv

(* The part that is looked for is the next one of the path. *)
LEMMA NextPart ==
  ASSUME TypeOK, PathInv, path # <<>>
  PROVE  /\ Depth \in Nat /\ Depth < Len(asked) /\ Head(path) = asked[Depth + 1]
         /\ Tail(path) \in Seq(Names) /\ Len(Tail(path)) = Len(path) - 1
         /\ \A k \in 1..Len(Tail(path)) : Tail(path)[k] = path[k + 1]
<1>1. path \in Seq(Names) /\ Len(path) \in Nat /\ Len(path) > 0 /\ Len(asked) \in Nat
      /\ Len(path) <= Len(asked)
  BY DEF TypeOK
<1>2. Head(path) = path[1] /\ 1 \in 1..Len(path)
  BY <1>1
<1> QED
  BY <1>1, <1>2 DEF PathInv, Depth

(* A search that ends without an item: nothing in reach was left to find   *)
(* (fat16.c:266-270, 366-385).                                             *)
LEMMA RefusalKeeps ==
  ASSUME DInv, pc = "scan", NotFound, UNCHANGED <<volume, asked, path, nomem>>,
         pos' \in Nat, pos' % EntrySize = 0, eof' \in BOOLEAN,
         \A v : ~Leads(folder, Head(path), v, data_sector)
  PROVE  DInv'
<1>1. /\ dirs' = dirs /\ asked' = asked /\ data_sector' = data_sector
      /\ path' = path /\ nomem' = nomem
  BY DEF volume
<1>2. folder' = NULL /\ pc' = "idle" /\ found' = NULL /\ item' = item
  BY DEF NotFound
<1>3. Arrived(folder) /\ path # <<>>
  BY DEF DInv, ScanInv
<1>4. item = NULL
  <2>1. folder # NULL
    BY <1>3, DirAssumption DEF Arrived, Ends, FILE, NULL
  <2> QED
    BY <2>1 DEF DInv, NothingKept
<1>5. TypeOK'
  <2>1. nomem' \in BOOLEAN /\ NULL \notin Dirs
    BY <1>1, DirAssumption DEF DInv, TypeOK
  <2> QED
    BY <1>1, <1>2, <2>1 DEF DInv, TypeOK
<1>6. VolumeInv' /\ PathInv'
  BY <1>1, SameVolume DEF DInv, PathInv, Depth
<1>7. NothingKept' /\ PartInv' /\ ScanInv'
  BY <1>2, <1>4 DEF NothingKept, PartInv, ScanInv
<1>8. Denoted(asked, data_sector) = {}
  <2>1. TypeOK /\ PathInv /\ VolumeInv /\ asked \in Seq(Names) /\ Passes(Depth, folder)
    BY <1>3 DEF DInv, TypeOK, Arrived
  <2>2. Depth \in Nat /\ Depth < Len(asked) /\ Head(path) = asked[Depth + 1]
    BY <1>3, <2>1, NextPart
  <2>3. data_sector \in Int /\ data_sector <= RootBytes
    BY <2>1, Volume
  <2>4. \A v : ~Leads(folder, asked[Depth + 1], v, data_sector)
    BY <2>2
  <2> QED
    BY <2>1, <2>2, <2>3, <2>4, NoWayOn
<1>9. LookupExact'
  BY <1>2, <1>8, SameVolume DEF LookupExact, OpensWhatIsNamed, FindsWithinReach
<1> QED
  BY <1>5, <1>6, <1>7, <1>9 DEF DInv

(* A file has no entries (fat16.c:256-266). *)
LEMMA NotADirectoryKeeps ==
  ASSUME DInv, NotADirectory
  PROVE  DInv'
<1>1. \A v : ~Leads(folder, Head(path), v, data_sector)
  BY DirAssumption DEF NotADirectory, Leads
<1>2. pos' \in Nat /\ pos' % EntrySize = 0
  BY DEF NotADirectory, DInv, TypeOK
<1>3. eof' \in BOOLEAN
  BY DEF NotADirectory, DInv, TypeOK
<1> QED
  BY <1>1, <1>2, <1>3, RefusalKeeps DEF NotADirectory

(* Where the search stands, counted in entries. *)
LEMMA Standing ==
  ASSUME DInv, pc = "scan", folder # FILE, NEW c, c = pos \div EntrySize
  PROVE  /\ folder \in Dirs /\ c \in Nat /\ pos = c * EntrySize
         /\ Len(dirs[folder]) \in Nat /\ c <= Len(dirs[folder]) /\ Passed(c)
         /\ pos + EntrySize \in Nat /\ pos + EntrySize = (c + 1) * EntrySize
         /\ (pos + EntrySize) % EntrySize = 0 /\ (pos + EntrySize) \div EntrySize = c + 1
<1>1. EntrySize \in Nat \ {0} /\ pos \in Nat /\ pos % EntrySize = 0
  BY DirAssumption DEF DInv, TypeOK
<1>2. folder \in Dirs
  BY DEF DInv, ScanInv, Arrived, Ends
<1>3. c \in Nat /\ pos = c * EntrySize
  BY <1>1, Positions
<1>4. Len(dirs[folder]) \in Nat /\ pos <= Len(dirs[folder]) * EntrySize
  BY <1>2, Volume DEF DInv, TypeOK
<1>5. c <= Len(dirs[folder])
  BY <1>1, <1>3, <1>4, Multiples
<1>6. Passed(c)
  BY <1>2 DEF DInv, ScanInv
<1>7. /\ (pos + EntrySize) % EntrySize = 0 /\ (pos + EntrySize) \div EntrySize = c + 1
      /\ pos + EntrySize \in Nat
  <2>1. pos + EntrySize \in Nat
    BY <1>1
  <2>2. /\ (pos + EntrySize) % EntrySize = 0
        /\ (pos + EntrySize) \div EntrySize = pos \div EntrySize + 1
    BY ONLY <1>1, Positions
  <2> QED
    BY <2>1, <2>2
<1>8. pos + EntrySize = (c + 1) * EntrySize
  BY <1>1, <1>3, Multiples
<1> QED
  BY <1>2, <1>3, <1>4, <1>5, <1>6, <1>7, <1>8

(* Entries that were passed, or lie out of reach, lead nowhere. *)
LEMMA NothingInReach ==
  ASSUME DInv, folder \in Dirs, NEW c \in Nat, Passed(c),
         \/ Len(dirs[folder]) <= c
         \/ folder = ROOT /\ data_sector < (c + 1) * EntrySize
  PROVE  \A v : ~Leads(folder, Head(path), v, data_sector)
<1> SUFFICES ASSUME NEW v, Leads(folder, Head(path), v, data_sector) PROVE FALSE
  OBVIOUS
<1>1. Len(dirs[folder]) \in Nat /\ EntrySize \in Nat \ {0} /\ data_sector \in Nat
  BY Volume DEF DInv
<1>2. PICK k \in 1..Len(dirs[folder]) :
        /\ Matches(dirs[folder][k], Head(path))
        /\ folder = ROOT => k * EntrySize <= data_sector
  BY DEF Leads
<1>3. k > c
  BY <1>1, <1>2 DEF Passed
<1>4. folder = ROOT /\ data_sector < (c + 1) * EntrySize
  BY <1>1, <1>3
<1>5. (c + 1) * EntrySize <= k * EntrySize
  BY <1>1, <1>3, Multiples
<1>6. (c + 1) * EntrySize \in Nat /\ k * EntrySize \in Nat
  BY <1>1, Multiples
<1> QED
  BY <1>1, <1>2, <1>4, <1>5, <1>6

(* At the end of a directory all of it has been passed, at the end of the  *)
(* root all that lies in its first data_sector bytes (fat16.c:120-135).    *)
LEMMA EndOfDirectoryKeeps ==
  ASSUME DInv, EndOfDirectory
  PROVE  DInv'
<1> DEFINE c == pos \div EntrySize
<1>1. pc = "scan" /\ folder # FILE /\ eof
  BY DEF EndOfDirectory
<1>2. /\ folder \in Dirs /\ c \in Nat /\ pos = c * EntrySize /\ Passed(c)
      /\ Len(dirs[folder]) \in Nat /\ (c + 1) * EntrySize = pos + EntrySize
  BY <1>1, Standing
<1>3. AtEof(pos)
  BY <1>1, <1>2 DEF DInv, ScanInv
<1>4. /\ EntrySize \in Nat \ {0} /\ data_sector \in Nat /\ pos \in Nat
      /\ pos % EntrySize = 0
  BY Volume DEF DInv, TypeOK
<1> HIDE DEF c
<1>5. \/ Len(dirs[folder]) <= c
      \/ folder = ROOT /\ data_sector < (c + 1) * EntrySize
  <2>1. CASE folder = ROOT
    BY <1>2, <1>3, <1>4, <2>1 DEF AtEof
  <2>2. CASE folder # ROOT
    <3>1. Len(dirs[folder]) * EntrySize <= c * EntrySize
      <4>1. Len(dirs[folder]) * EntrySize \in Nat
        BY <1>2, <1>4, Multiples
      <4> QED
        BY <1>2, <1>3, <1>4, <2>2, <4>1 DEF AtEof
    <3> QED
      BY <1>2, <1>4, <3>1, Multiples
  <2> QED
    BY <2>1, <2>2
<1>6. \A v : ~Leads(folder, Head(path), v, data_sector)
  BY <1>2, <1>5, NothingInReach
<1>7. eof' \in BOOLEAN
  BY DEF EndOfDirectory, DInv, TypeOK
<1>8. pos' \in Nat /\ pos' % EntrySize = 0
  BY <1>4 DEF EndOfDirectory
<1> QED
  BY <1>1, <1>6, <1>7, <1>8, RefusalKeeps DEF EndOfDirectory

(* One pass of the loop (fat16.c:351-385): what is read is an entry of the *)
(* folder, unless the root's reach is exceeded.                            *)
LEMMA ReadEntryKeeps ==
  ASSUME DInv, ReadEntry
  PROVE  DInv'
<1> DEFINE c     == pos \div EntrySize
           entry == dirs[folder][c + 1]
           eio   == folder = ROOT /\ pos' > data_sector
<1>1. /\ pc = "scan" /\ folder # FILE /\ ~eof /\ pos' = pos + EntrySize
      /\ UNCHANGED <<volume, asked>>
  BY DEF ReadEntry, Scanning, NextPos
<1>2. /\ folder \in Dirs /\ c \in Nat /\ pos = c * EntrySize /\ Passed(c)
      /\ Len(dirs[folder]) \in Nat /\ pos' = (c + 1) * EntrySize
      /\ pos' \in Nat /\ pos' % EntrySize = 0 /\ pos' \div EntrySize = c + 1
  BY <1>1, Standing
<1>3. /\ EntrySize \in Nat \ {0} /\ data_sector \in Nat /\ data_sector <= RootBytes
      /\ VolumeInv /\ dirs \in [Dirs -> Seq(Entries)] /\ RootBytes \in Nat
  BY Volume DEF DInv
<1>4. /\ Arrived(folder) /\ path # <<>> /\ item = NULL
  <2>1. Arrived(folder) /\ path # <<>>
    BY <1>1 DEF DInv, ScanInv
  <2>2. folder # NULL
    BY <1>2, DirAssumption
  <2> QED
    BY <2>1, <2>2 DEF DInv, NothingKept
<1>5. /\ dirs' = dirs /\ asked' = asked /\ data_sector' = data_sector
  BY <1>1 DEF volume
<1>6. \/ /\ eio
         /\ eof' = TRUE /\ NotFound
         /\ UNCHANGED <<path, nomem>>
      \/ /\ ~eio /\ Skipped(entry)
         /\ eof' = AtEof(pos')
         /\ UNCHANGED <<path, pc, item, folder, nomem, found>>
      \/ /\ ~eio /\ ~Skipped(entry) /\ entry.kind = "end"
         /\ eof' = TRUE /\ NotFound
         /\ UNCHANGED <<path, nomem>>
      \/ /\ ~eio /\ ~Skipped(entry) /\ entry.kind # "end"
         /\ eof' = AtEof(pos')
         /\ folder' = NULL
         /\ \/ /\ item' = entry.to /\ path' = Tail(path) /\ pc' = "part"
               /\ UNCHANGED <<nomem, found>>
            \/ /\ item' = NULL /\ nomem' = TRUE /\ pc' = "idle" /\ found' = NULL
               /\ UNCHANGED path
  BY DEF ReadEntry
<1> HIDE DEF c
<1>7. AtEof(pos') \in BOOLEAN
  <2>1. Len(dirs[folder]) * EntrySize \in Nat
    BY <1>2, <1>3, Multiples
  <2>2. /\ (pos' >= data_sector) \in BOOLEAN
        /\ (pos' >= Len(dirs[folder]) * EntrySize) \in BOOLEAN
    BY <1>2, <1>3, <2>1
  <2> QED
    BY <2>2, Zenon DEF AtEof
<1>8. ~eio => c + 1 \in 1..Len(dirs[folder]) /\ pos' <= Len(dirs[folder]) * EntrySize
  <2> SUFFICES ASSUME ~eio
               PROVE  c + 1 <= Len(dirs[folder]) /\ pos' <= Len(dirs[folder]) * EntrySize
    BY <1>2
  <2>1. CASE folder = ROOT
    <3>1. (c + 1) * EntrySize <= Len(dirs[folder]) * EntrySize
      BY <1>2, <1>3, <2>1 DEF RootBytes
    <3>2. c + 1 \in Nat
      BY <1>2
    <3>3. c + 1 <= Len(dirs[folder])
      BY <1>2, <1>3, <3>1, <3>2, Multiples
    <3> QED
      BY <1>2, <3>1, <3>3
  <2>2. CASE folder # ROOT
    <3>1. pos < Len(dirs[folder]) * EntrySize
      BY <1>1, <1>2, <2>2 DEF DInv, ScanInv
    <3>2. c < Len(dirs[folder])
      BY <1>2, <1>3, <3>1, Multiples
    <3> QED
      BY <1>2, <1>3, <3>2, Multiples
  <2> QED
    BY <2>1, <2>2
<1>9. ~eio => entry \in Entries
  BY <1>2, <1>3, <1>8
<1>10. CASE eio
  <2>1. \A v : ~Leads(folder, Head(path), v, data_sector)
    <3>1. folder = ROOT /\ data_sector < (c + 1) * EntrySize
      BY <1>2, <1>3, <1>10
    <3> QED
      BY <1>2, <3>1, NothingInReach
  <2>2. eof' = TRUE /\ NotFound /\ UNCHANGED <<path, nomem>>
    BY <1>6, <1>10
  <2> QED
    BY <1>1, <1>2, <2>1, <2>2, RefusalKeeps
<1>11. CASE ~eio /\ Skipped(entry)
  <2>1. /\ eof' = AtEof(pos') /\ path' = path /\ pc' = pc /\ item' = item
        /\ folder' = folder /\ nomem' = nomem /\ found' = found
    BY <1>6, <1>11
  <2>2. TypeOK'
    <3>1. eof' \in BOOLEAN /\ nomem' \in BOOLEAN
      BY <1>7, <2>1 DEF DInv, TypeOK
    <3> QED
      BY <1>2, <1>5, <1>8, <1>11, <2>1, <3>1 DEF DInv, TypeOK
  <2>3. VolumeInv' /\ PathInv' /\ Depth' = Depth
    BY <1>1, <1>5, <2>1, SameVolume DEF DInv, PathInv, Depth
  <2>4. NothingKept' /\ PartInv' /\ LookupExact'
    BY <1>1, <2>1 DEF DInv, NothingKept, PartInv, LookupExact, OpensWhatIsNamed,
       FindsWithinReach, Refused
  <2>5. ScanInv'
    <3>1. Arrived(folder)'
      BY <1>1, <1>4, <2>1, <2>3, SameVolume DEF Arrived, Ends
    <3>2. entry.kind # "end" /\ ~Matches(entry, Head(path))
      BY <1>11 DEF Skipped, Matches
    <3>3. Passed(c + 1)
      <4>1. \A j \in 1..(c + 1) : j = c + 1 \/ j \in 1..c
        BY <1>2
      <4> QED
        BY <1>2, <3>2, <4>1 DEF Passed
    <3>4. Passed(pos \div EntrySize)'
      BY <1>2, <1>5, <2>1, <3>3 DEF Passed
    <3>5. eof' => AtEof(pos)'
      BY <1>5, <2>1 DEF AtEof
    <3>6. folder # ROOT /\ ~eof' => pos' < Len(dirs[folder]) * EntrySize
      <4>1. Len(dirs[folder]) * EntrySize \in Nat
        BY <1>2, <1>3, Multiples
      <4>2. AtEof(pos') => eof'
        BY <2>1, Zenon
      <4> QED
        BY <1>2, <4>1, <4>2 DEF AtEof
    <3> QED
      BY <1>4, <1>5, <2>1, <3>1, <3>4, <3>5, <3>6 DEF ScanInv
  <2> QED
    BY <2>2, <2>3, <2>4, <2>5 DEF DInv
<1>12. CASE ~eio /\ ~Skipped(entry) /\ entry.kind = "end"
  <2>1. ASSUME NEW v, Leads(folder, Head(path), v, data_sector) PROVE FALSE
    <3>1. PICK k \in 1..Len(dirs[folder]) :
            /\ Matches(dirs[folder][k], Head(path))
            /\ \A j \in 1..(k - 1) : dirs[folder][j].kind # "end"
      BY <2>1 DEF Leads
    <3>2. ~(k <= c)
      BY <1>2, <3>1 DEF Passed
    <3>3. k # c + 1
      BY <1>12, <3>1 DEF Matches
    <3>4. c + 1 \in 1..(k - 1)
      BY <1>2, <3>2, <3>3
    <3> QED
      BY <1>12, <3>1, <3>4
  <2>2. eof' = TRUE /\ NotFound /\ UNCHANGED <<path, nomem>>
    BY <1>6, <1>12
  <2> QED
    BY <1>1, <1>2, <2>1, <2>2, RefusalKeeps
<1>13. CASE ~eio /\ ~Skipped(entry) /\ entry.kind # "end"
  <2>1. eof' = AtEof(pos') /\ folder' = NULL
    BY <1>6, <1>13
  <2>2. NULL \notin Dirs /\ eof' \in BOOLEAN
    BY <1>7, <2>1, DirAssumption
  <2>3. VolumeInv'
    BY <1>1, <1>3, SameVolume
  <2>4. CASE item' = entry.to /\ path' = Tail(path) /\ pc' = "part" /\ UNCHANGED <<nomem, found>>
    <3>1. /\ Depth \in Nat /\ Depth < Len(asked) /\ Head(path) = asked[Depth + 1]
          /\ Tail(path) \in Seq(Names) /\ Len(Tail(path)) = Len(path) - 1
          /\ \A k \in 1..Len(Tail(path)) : Tail(path)[k] = path[k + 1]
      BY <1>4, NextPart DEF DInv
    <3>2. Len(path) \in Nat /\ Len(asked) \in Nat /\ Len(path) <= Len(asked)
          /\ asked \in Seq(Names)
      BY DEF DInv, TypeOK
    <3>3. Depth' = Depth + 1
      BY <1>5, <2>4, <3>1, <3>2 DEF Depth
    <3>4. entry.to \in Ends /\ Matches(entry, Head(path))
      <4>1. entry \in Entries
        BY <1>9, <1>13
      <4>2. entry.to \in Ends /\ entry.kind \in {"skip", "end", "file", "dir"}
        <5>1. CASE \E k \in {"skip", "end", "file"}, name \in Names :
                     entry = [kind |-> k, name |-> name, to |-> FILE]
          BY <5>1 DEF Ends
        <5>2. CASE \E name \in Names, t \in Dirs \ {ROOT} :
                     entry = [kind |-> "dir", name |-> name, to |-> t]
          BY <5>2 DEF Ends
        <5> QED
          BY <4>1, <5>1, <5>2 DEF Entries
      <4> QED
        BY <1>13, <4>2 DEF Skipped, Matches
    <3>5. TypeOK'
      <4>1. nomem' \in BOOLEAN
        BY <2>4 DEF DInv, TypeOK
      <4>2. Len(path') <= Len(asked') /\ path' \in Seq(Names) /\ item' \in Dirs \cup {FILE, NULL}
        BY <1>5, <2>4, <3>1, <3>2, <3>4 DEF Ends
      <4> QED
        BY <1>2, <1>5, <2>1, <2>2, <2>4, <4>1, <4>2 DEF DInv, TypeOK
    <3>6. PathInv'
      <4> SUFFICES ASSUME NEW k \in 1..Len(path') PROVE path'[k] = asked'[Depth' + k]
        BY DEF PathInv
      <4>1. k + 1 \in 1..Len(path) /\ path'[k] = path[k + 1]
        BY <2>4, <3>1, <3>2
      <4>2. path[k + 1] = asked[Depth + (k + 1)]
        BY <4>1 DEF DInv, PathInv
      <4>3. Depth + (k + 1) = Depth' + k
        BY <3>1, <3>3, <3>2
      <4> QED
        BY <1>5, <4>1, <4>2, <4>3
    <3>7. Leads(folder, Head(path), entry.to, RootBytes)
      <4>1. /\ c + 1 \in 1..Len(dirs[folder]) /\ (c + 1) - 1 = c
            /\ folder = ROOT => (c + 1) * EntrySize <= RootBytes
        BY <1>2, <1>8, <1>13 DEF RootBytes
      <4>2. \A j \in 1..c :
              dirs[folder][j].kind # "end" /\ ~Matches(dirs[folder][j], Head(path))
        BY <1>2 DEF Passed
      <4> QED
        BY <1>2, <3>4, <4>1, <4>2 DEF Leads
    <3>8. Partly(Depth + 1, entry.to) /\ Passes(Depth + 1, entry.to)
      <4>1. Partly(Depth, folder) /\ Passes(Depth, folder)
        BY <1>4 DEF Arrived
      <4>2. Leads(folder, asked[Depth + 1], entry.to, RootBytes)
        BY <3>1, <3>7
      <4> HIDE DEF entry
      <4> QED
        BY <1>3, <3>1, <3>2, <3>4, <4>1, <4>2, OnePartFurther
    <3>9. PartInv'
      BY <1>1, <2>4, <3>3, <3>4, <3>8, SameVolume DEF PartInv, Arrived, Ends
    <3>10. NothingKept' /\ ScanInv' /\ LookupExact'
      BY <2>1, <2>4 DEF NothingKept, ScanInv, LookupExact, OpensWhatIsNamed,
         FindsWithinReach, Refused
    <3> QED
      BY <2>3, <3>5, <3>6, <3>9, <3>10 DEF DInv
  <2>5. CASE item' = NULL /\ nomem' = TRUE /\ pc' = "idle" /\ found' = NULL /\ UNCHANGED path
    <3>1. TypeOK'
      <4>1. nomem' \in BOOLEAN
        BY <2>5
      <4> QED
        BY <1>2, <1>5, <2>1, <2>2, <2>5, <4>1 DEF DInv, TypeOK
    <3>2. PathInv'
      BY <1>5, <2>5 DEF DInv, PathInv, Depth
    <3>3. NothingKept' /\ PartInv' /\ ScanInv' /\ LookupExact'
      BY <2>1, <2>5 DEF NothingKept, PartInv, ScanInv, LookupExact, OpensWhatIsNamed,
         FindsWithinReach, Refused
    <3> QED
      BY <2>3, <3>1, <3>2, <3>3 DEF DInv
  <2> QED
    BY <1>6, <1>13, <2>4, <2>5
<1> QED
  BY <1>6, <1>10, <1>11, <1>12, <1>13

(* The path is used up, and the item is what it names (fat16.c:557-567). *)
LEMMA OpenKeeps ==
  ASSUME DInv, fat16_open
  PROVE  DInv'
<1>1. /\ pc = "part" /\ path = <<>> /\ item' = NULL /\ pc' = "idle"
      /\ UNCHANGED <<volume, asked, path, folder, pos, eof>>
  BY DEF fat16_open, ItemFreed
<1>2. dirs' = dirs /\ asked' = asked /\ path' = path /\ folder' = folder /\ pos' = pos
  BY <1>1 DEF volume
<1>3. Arrived(item) /\ Depth = Len(asked) /\ asked \in Seq(Names)
  BY <1>1 DEF DInv, PartInv, Depth, TypeOK
<1>4. item # NULL /\ folder = NULL /\ item \in Dirs \cup {FILE, NULL}
  <2>1. item # NULL /\ item \in Dirs \cup {FILE, NULL}
    BY <1>3, DirAssumption DEF Arrived, Ends, FILE, NULL
  <2> QED
    BY <2>1 DEF DInv, NothingKept
<1>5. TypeOK'
  <2>1. eof' \in BOOLEAN /\ nomem' \in BOOLEAN
    BY DEF fat16_open, DInv, TypeOK
  <2> QED
    BY <1>1, <1>2, <1>4, <2>1 DEF fat16_open, DInv, TypeOK
<1>6. VolumeInv' /\ PathInv'
  BY <1>1, <1>2, SameVolume DEF DInv, PathInv, Depth
<1>7. NothingKept' /\ PartInv' /\ ScanInv'
  BY <1>1, <1>2, <1>4 DEF NothingKept, PartInv, ScanInv
<1>8. Denoted(asked, RootBytes) = {item}
  BY <1>3, WholePath DEF Arrived
<1>9. LookupExact'
  <2>1. Denoted(asked, RootBytes)' = {item}
    BY <1>1, <1>8, SameVolume
  <2>2. OpensWhatIsNamed'
    BY <2>1 DEF OpensWhatIsNamed, fat16_open
  <2>3. FindsWithinReach'
    BY <1>4 DEF FindsWithinReach, Refused, fat16_open
  <2> QED
    BY <2>2, <2>3 DEF LookupExact
<1> QED
  BY <1>5, <1>6, <1>7, <1>9 DEF DInv

LEMMA DInvKept == DInv /\ [Next]_vars => DInv'
<1> SUFFICES ASSUME DInv, [Next]_vars PROVE DInv'
  OBVIOUS
<1>1. CASE UNCHANGED vars
  <2>1. UNCHANGED <<volume, asked>> /\ dirs' = dirs /\ data_sector' = data_sector
    BY <1>1 DEF vars, volume
  <2>2. TypeOK' /\ NothingKept' /\ VolumeInv' /\ PathInv'
    BY <1>1, <2>1, SameVolume DEF vars, DInv, TypeOK, NothingKept, PathInv, Depth
  <2>3. \A u : Arrived(u)' <=> Arrived(u)
    BY <1>1, <2>1, SameVolume DEF vars, Arrived, Depth, Ends
  <2>4. PartInv' /\ ScanInv'
    BY <1>1, <2>1, <2>3 DEF vars, DInv, PartInv, ScanInv, Passed, AtEof, Matches
  <2>5. LookupExact'
    BY <1>1, <2>1, SameVolume DEF vars, DInv, LookupExact, OpensWhatIsNamed,
       FindsWithinReach, Refused
  <2> QED
    BY <2>2, <2>4, <2>5 DEF DInv
<1>2. CASE StaleEntry
  BY <1>1, <1>2 DEF StaleEntry
<1>3. CASE Next /\ ~StaleEntry
  BY <1>3, TraverseKeeps, OpenFolderKeeps, NotADirectoryKeeps, EndOfDirectoryKeeps,
     ReadEntryKeeps, OpenKeeps DEF Next, Step
<1> QED
  BY <1>1, <1>2, <1>3

(* Everything below rests on the one inductive invariant. *)
LEMMA Inductive == Spec => []DInv
  BY DInvInit, DInvKept, PTL DEF Spec

(* Every variable keeps its type: a search never reads past the end of a   *)
(* directory, however long it is (fat16.c:351-357).                        *)
THEOREM TypeCorrect == Spec => []TypeOK
  BY Inductive, PTL DEF DInv

(* A lookup opens what its path names, and refuses a path only if it names *)
(* nothing in the part of the root that is read, or memory is short: for   *)
(* every volume and every path (fat16.c:249-278, 325-391).                 *)
THEOREM LookupCorrect == Spec => []LookupExact
  BY Inductive, PTL DEF DInv

(* On every way out of traverse_path items and folders are freed           *)
(* (fat16.c:256-275, 563-565).                                             *)
THEOREM AllFreed == Spec => []NothingKept
  BY Inductive, PTL DEF DInv
=============================================================================
