---------------------------- MODULE DeviceProofs ----------------------------
(***************************************************************************)
(* The two device drivers.  What disk_read_sector returns, for registers   *)
(* of any width, sectors of any number of words and every address the      *)
(* registers have room for; and what becomes of the screen, for a screen   *)
(* of any size and messages of any length, when interrupt handlers print   *)
(* between the memory accesses of terminal_put_char.                       *)
(***************************************************************************)
EXTENDS DiskDriver, Termio, WellFoundedInduction, TLAPS

(* Quotient and remainder are what they were made of. *)
LEMMA DivMod ==
  ASSUME NEW w \in Nat \ {0}, NEW q \in Nat, NEW r \in 0..(w - 1)
  PROVE  (q * w + r) \div w = q /\ (q * w + r) % w = r
  OBVIOUS

LEMMA DivModOf ==
  ASSUME NEW w \in Nat \ {0}, NEW a \in Nat
  PROVE  /\ a \div w \in Nat /\ a % w \in 0..(w - 1)
         /\ a = (a \div w) * w + (a % w)
  OBVIOUS

(* A set of numbers has a least one. *)
LEMMA LeastNat ==
  ASSUME NEW S \in SUBSET Nat, S # {}
  PROVE  \E m \in S : \A k \in S : m <= k
<1> DEFINE R == OpToRel(<, Nat)
<1>1. IsWellFoundedOn(R, Nat)
  BY NatLessThanWellFounded
<1>2. \A x \in Nat, y \in Nat : y < x => <<y, x>> \in R
  BY DEF OpToRel
<1> HIDE DEF R
<1>3. PICK x \in S : \A y \in S : ~(<<y, x>> \in R)
  BY <1>1, WFMin
<1>4. \A y \in S : ~(y < x)
  BY <1>2, <1>3
<1>5. \A y \in S : x <= y
  BY <1>4
<1> QED
  BY <1>5

(* What holds at the start of a loop, and after a turn if it held before,  *)
(* holds after every turn.                                                 *)
LEMMA Induct ==
  ASSUME NEW S, NEW len \in Nat, 0 \in S, \A k \in 0..(len - 1) : k \in S => k + 1 \in S
  PROVE  0..len \subseteq S
<1> DEFINE T == (0..len) \ S
<1>1. SUFFICES ASSUME T # {} PROVE FALSE
  OBVIOUS
<1>2. T \in SUBSET Nat
  OBVIOUS
<1>3. PICK m \in T : \A k \in T : m <= k
  BY <1>1, <1>2, LeastNat
<1>4. m \in Nat /\ m # 0 /\ m \notin S /\ m <= len
  OBVIOUS
<1>5. m - 1 \in 0..(len - 1) /\ m - 1 \notin T /\ (m - 1) + 1 = m
  BY <1>3, <1>4
<1> QED
  BY <1>4, <1>5

(* A loop of len turns that takes each state to one state passes through one *)
(* sequence of states.                                                     *)
Loops(len, S) == [1..len -> [S -> S]]
Run(f, len, S, start, turn) ==
  f \in [0..len -> S] /\ f[0] = start /\ \A k \in 1..len : f[k] = turn[k][f[k - 1]]

LEMMA Loop ==
  ASSUME NEW len \in Nat, NEW S, NEW start \in S, NEW turn \in Loops(len, S)
  PROVE  \E f : Run(f, len, S, start, turn)
<1> DEFINE Upto(m) == \E f \in [0..m -> S] :
                        f[0] = start /\ \A k \in 1..m : f[k] = turn[k][f[k - 1]]
           G == {m \in 0..len : Upto(m)}
<1> USE DEF Loops
<1>1. Upto(0)
  <2> DEFINE f == [k \in 0..0 |-> start]
  <2>1. f \in [0..0 -> S] /\ f[0] = start /\ \A k \in 1..0 : f[k] = turn[k][f[k - 1]]
    OBVIOUS
  <2> QED
    BY <2>1
<1>2. ASSUME NEW m \in 0..(len - 1), Upto(m) PROVE Upto(m + 1)
  <2>1. PICK f \in [0..m -> S] : f[0] = start /\ \A k \in 1..m : f[k] = turn[k][f[k - 1]]
    BY <1>2
  <2> DEFINE g == [k \in 0..(m + 1) |-> IF k <= m THEN f[k] ELSE turn[m + 1][f[m]]]
  <2>2. f[m] \in S /\ m + 1 \in 1..len /\ turn[m + 1][f[m]] \in S
    OBVIOUS
  <2>3. g \in [0..(m + 1) -> S] /\ g[0] = start
    BY <2>1, <2>2
  <2>4. ASSUME NEW k \in 1..(m + 1) PROVE g[k] = turn[k][g[k - 1]]
    <3>1. k - 1 \in 0..m /\ g[k - 1] = f[k - 1]
      OBVIOUS
    <3>2. CASE k <= m
      BY <2>1, <3>1, <3>2
    <3>3. CASE k = m + 1
      BY <2>1, <3>1, <3>3
    <3> QED
      BY <3>2, <3>3
  <2> HIDE DEF g
  <2> QED
    BY <2>3, <2>4
<1> HIDE DEF Upto
<1>3. 0 \in G /\ \A k \in 0..(len - 1) : k \in G => k + 1 \in G
  BY <1>1, <1>2
<1> HIDE DEF G
<1>4. 0..len \subseteq G
  BY <1>3, Induct
<1>5. len \in G
  BY <1>4
<1> QED
  BY <1>5 DEF G, Upto, Run
-----------------------------------------------------------------------------
(* The disk driver. *)

(* Driver and drive are at the same word of the same sector, and agree on  *)
(* how many sectors are still to come.                                     *)
InStep ==
  /\ offset = i
  /\ phase \in {"idle", "settle"} => block = n /\ i = 0 /\ left = 0 /\ ~drq
  /\ phase \in {"poll", "data"} => block < n /\ left = n - block /\ sector = lba + block
  /\ phase = "poll" => i = 0 /\ ~(busy /\ drq)
  /\ phase = "data" => drq /\ ~busy

Stored == buf \in Seq(Nat \X Nat) /\ Len(buf) = block * WordsPerSector + i

KInv == ReadsSafe /\ InStep /\ Stored

LEMMA DivTwice ==
  ASSUME NEW v \in Nat \ {0}, NEW w \in Nat \ {0}, NEW a \in Nat
  PROVE  v * w \in Nat \ {0} /\ a \div (v * w) = (a \div v) \div w
<1> DEFINE q == a \div v
           r == a % v
           s == q \div w
           t == q % w
<1>1. q \in Nat /\ r \in 0..(v - 1) /\ a = q * v + r
  BY DivModOf
<1>2. s \in Nat /\ t \in 0..(w - 1) /\ q = s * w + t
  BY <1>1, DivModOf
<1> HIDE DEF q, r, s, t
<1>3. v * w \in Nat \ {0}
  OBVIOUS
<1>4. a = s * (v * w) + (t * v + r)
  BY <1>1, <1>2
<1>5. t * v + r \in 0..(v * w - 1)
  <2>1. t * v \in Nat /\ (w - 1 - t) * v \in Nat
    BY <1>2
  <2>2. t * v + (w - 1 - t) * v + v = v * w
    BY <1>2
  <2> QED
    BY <1>1, <1>2, <1>3, <2>1, <2>2
<1>6. (s * (v * w) + (t * v + r)) \div (v * w) = s
  BY <1>2, <1>3, <1>5, DivMod
<1> QED
  BY <1>3, <1>4, <1>6 DEF s, q

(* The four registers hold the whole address (disk.c:29-33). *)
LEMMA AddressKept ==
  ASSUME NEW address \in Nat
  PROVE  Addressed(AddressRegisters(address)) = address
<1> DEFINE b == address \div Base
           c == address \div (Base * Base)
           d == address \div (Base * Base * Base)
<1>1. Base \in Nat \ {0}
  BY DiskAssumption
<1>2. b \in Nat /\ address = b * Base + (address % Base)
  BY <1>1, DivModOf
<1>3. Base * Base \in Nat \ {0} /\ c = b \div Base
  BY <1>1, DivTwice
<1>4. d = c \div Base
  BY <1>1, <1>3, DivTwice
<1>5. c \in Nat /\ b = c * Base + (b % Base)
  BY <1>1, <1>2, <1>3, DivModOf
<1>6. c = d * Base + (c % Base)
  BY <1>1, <1>4, <1>5, DivModOf
<1> HIDE DEF b, c, d
<1>7. AddressRegisters(address) =
        [ drive_head |-> d, sector_number |-> address % Base,
          cylinder_low |-> b % Base, cylinder_high |-> c % Base ]
  BY DEF AddressRegisters, b, c, d
<1>8. Addressed(AddressRegisters(address)) =
        ((d * Base + (c % Base)) * Base + (b % Base)) * Base + (address % Base)
  BY <1>7 DEF Addressed
<1> QED
  BY <1>2, <1>5, <1>6, <1>8

(* A count of Base, which the register holds as 0, is not lost. *)
LEMMA CountKept ==
  ASSUME NEW count \in Counts
  PROVE  Counted(sector_count(count)) = count
<1>1. Base \in Nat \ {0} /\ count \in 1..Base
  BY DiskAssumption
<1>2. CASE count = Base
  BY <1>1, <1>2 DEF Counted, sector_count
<1>3. CASE count # Base
  BY <1>1, <1>3 DEF Counted, sector_count
<1> QED
  BY <1>2, <1>3
-----------------------------------------------------------------------------
LEMMA KInvInit == DiskInit => KInv
<1> SUFFICES ASSUME DiskInit PROVE KInv
  OBVIOUS
<1>1. DiskTypeOK
  <2>1. busy \in BOOLEAN /\ drq \in BOOLEAN /\ err \in BOOLEAN
    BY DEF DiskInit
  <2> QED
    BY <2>1, DiskAssumption DEF DiskInit, DiskTypeOK
<1>2. SectorsExact /\ DriveReleased /\ InStep /\ Stored
  BY DiskAssumption DEF DiskInit, SectorsExact, DriveReleased, InStep, Stored
<1> QED
  BY <1>1, <1>2 DEF KInv, ReadsSafe

(* The command finds a free drive, and starts it on the sectors that are   *)
(* asked for (disk.c:25-34).                                               *)
LEMMA CommandKeeps ==
  ASSUME KInv, NEW address \in Lbas, NEW count \in Counts,
         disk_read_block(address, count)
  PROVE  KInv'
<1>1. ~busy /\ ~drq /\ left = 0 /\ i = 0 /\ offset = 0
  BY DEF disk_read_block, KInv, ReadsSafe, DriveReleased, InStep
<1>2. /\ WordsPerSector \in Nat \ {0} /\ Base \in Nat \ {0}
      /\ address \in Nat /\ count \in 1..Base
  BY DiskAssumption
<1>3. /\ phase' = "poll" /\ lba' = address /\ n' = count /\ block' = 0 /\ i' = 0
      /\ buf' = <<>> /\ offset' = offset
      /\ sector' = address /\ left' = count
  BY <1>1, <1>2, AddressKept, CountKept DEF disk_read_block
<1>4. busy' = TRUE /\ drq' = drq /\ err' = err
  BY <1>1 DEF disk_read_block
<1>5. DiskTypeOK'
  <2>1. busy' \in BOOLEAN /\ drq' \in BOOLEAN /\ err' \in BOOLEAN
    BY <1>4 DEF KInv, ReadsSafe, DiskTypeOK
  <2> QED
    BY <1>1, <1>2, <1>3, <2>1 DEF DiskTypeOK
<1>6. SectorsExact' /\ Stored'
  BY <1>2, <1>3 DEF SectorsExact, Stored
<1>7. DriveReleased' /\ InStep'
  BY <1>1, <1>2, <1>3, <1>4 DEF DriveReleased, InStep
<1> QED
  BY <1>5, <1>6, <1>7 DEF KInv, ReadsSafe

(* The loops that only look at the status (disk.c:39-41, 55-57). *)
LEMMA PollKeeps ==
  ASSUME KInv, Poll \/ Settle
  PROVE  KInv'
<1>1. UNCHANGED <<lba, n, block, i, buf, busy, drq, err, sector, left, offset>>
  BY DEF Poll, Settle, status, drive
<1>2. CASE Poll
  <2>1. phase' \in {"poll", "data"} /\ (phase' = "data" => ~busy /\ drq) /\ phase = "poll"
    BY <1>2 DEF Poll, DataReady
  <2>2. DiskTypeOK'
    BY <1>1, <2>1 DEF KInv, ReadsSafe, DiskTypeOK
  <2>3. SectorsExact' /\ DriveReleased' /\ InStep' /\ Stored'
    BY <1>1, <2>1 DEF KInv, ReadsSafe, SectorsExact, DriveReleased, InStep, Stored
  <2> QED
    BY <2>2, <2>3 DEF KInv, ReadsSafe
<1>3. CASE Settle
  <2>1. phase' \in {"settle", "idle"} /\ (phase' = "idle" => ~busy) /\ phase = "settle"
    BY <1>3 DEF Settle, Settled
  <2>2. DiskTypeOK'
    BY <1>1, <2>1 DEF KInv, ReadsSafe, DiskTypeOK
  <2>3. SectorsExact' /\ DriveReleased' /\ InStep' /\ Stored'
    BY <1>1, <2>1 DEF KInv, ReadsSafe, SectorsExact, DriveReleased, InStep, Stored
  <2> QED
    BY <2>2, <2>3 DEF KInv, ReadsSafe
<1> QED
  BY <1>2, <1>3

(* A word is taken: the next one of the sector, or the first of the next   *)
(* sector (disk.c:43-52).                                                  *)
LEMMA InswKeeps ==
  ASSUME KInv, insw
  PROVE  KInv'
<1>1. phase = "data" /\ drq /\ ~busy
  BY DEF insw, KInv, InStep
<1>2. /\ WordsPerSector \in Nat \ {0} /\ Base \in Nat \ {0}
      /\ n \in {0} \cup Counts /\ Counts \subseteq 1..Base
      /\ lba \in {0} \cup Lbas /\ Lbas \subseteq Nat
  BY DiskAssumption DEF KInv, ReadsSafe, DiskTypeOK
<1>3. /\ i \in 0..(WordsPerSector - 1) /\ offset = i /\ block \in 0..n /\ block < n
      /\ left = n - block /\ sector = lba + block /\ lba \in Nat /\ n \in Nat
      /\ sector \in Nat /\ n <= Base
  BY <1>1, <1>2 DEF KInv, ReadsSafe, DiskTypeOK, InStep
<1>4. buf \in Seq(Nat \X Nat) /\ Len(buf) = block * WordsPerSector + i
  BY DEF KInv, Stored
<1>5. buf' = Append(buf, <<sector, offset>>) /\ lba' = lba /\ n' = n
  BY <1>1 DEF insw
<1>6. /\ buf' \in Seq(Nat \X Nat) /\ Len(buf') = Len(buf) + 1
      /\ \A k \in 1..Len(buf) : buf'[k] = buf[k]
      /\ buf'[Len(buf) + 1] = <<sector, offset>>
  BY <1>3, <1>4, <1>5
<1>7. \A k \in 1..Len(buf') :
        buf'[k] = <<lba + (k - 1) \div WordsPerSector, (k - 1) % WordsPerSector>>
  <2>1. \A k \in 1..Len(buf) :
          buf[k] = <<lba + (k - 1) \div WordsPerSector, (k - 1) % WordsPerSector>>
    BY DEF KInv, ReadsSafe, SectorsExact
  <2>2. Len(buf) \div WordsPerSector = block /\ Len(buf) % WordsPerSector = i
    <3>1. block \in Nat
      BY <1>3
    <3> QED
      BY <1>2, <1>3, <1>4, <3>1, DivMod
  <2> SUFFICES ASSUME NEW k \in 1..Len(buf')
               PROVE  buf'[k] = <<lba + (k - 1) \div WordsPerSector,
                                  (k - 1) % WordsPerSector>>
    OBVIOUS
  <2>3. CASE k \in 1..Len(buf)
    BY <1>6, <2>1, <2>3
  <2>4. CASE k = Len(buf) + 1
    <3>1. k - 1 = Len(buf)
      BY <1>4, <2>4
    <3>2. (k - 1) \div WordsPerSector = block /\ (k - 1) % WordsPerSector = i
      BY <2>2, <3>1
    <3>3. buf'[k] = <<lba + block, i>>
      BY <1>3, <1>6, <2>4
    <3> QED
      BY <3>2, <3>3
  <2>5. k \in 1..Len(buf) \/ k = Len(buf) + 1
    BY <1>4, <1>6
  <2> QED
    BY <2>3, <2>4, <2>5
<1>8. err' = err /\ err \in BOOLEAN
  BY DEF insw, KInv, ReadsSafe, DiskTypeOK
<1>9. CASE i + 1 < WordsPerSector
  <2>1. /\ i' = i + 1 /\ block' = block /\ phase' = phase /\ offset' = offset + 1
        /\ drq' = drq /\ busy' = busy /\ left' = left /\ sector' = sector
    <3>1. MoreWords(i + 1) /\ ~(offset + 1 = WordsPerSector)
      BY <1>2, <1>3, <1>9 DEF MoreWords
    <3> QED
      BY <1>1, <3>1, Zenon DEF insw
  <2>2. DiskTypeOK'
    <3>1. busy' \in BOOLEAN /\ drq' \in BOOLEAN /\ err' \in BOOLEAN
      BY <1>8, <2>1 DEF KInv, ReadsSafe, DiskTypeOK
    <3> QED
      BY <1>2, <1>3, <1>5, <1>9, <2>1, <3>1 DEF KInv, ReadsSafe, DiskTypeOK
  <2>3. Stored'
    <3>1. block * WordsPerSector \in Nat
      BY <1>2, <1>3
    <3>2. Len(buf') = block' * WordsPerSector + i'
      BY <1>3, <1>4, <1>6, <2>1, <3>1
    <3> QED
      BY <1>6, <3>2 DEF Stored
  <2>4. SectorsExact' /\ DriveReleased'
    BY <1>1, <1>5, <1>7, <2>1 DEF SectorsExact, DriveReleased
  <2>5. InStep'
    BY <1>1, <1>3, <1>5, <2>1 DEF InStep
  <2> QED
    BY <2>2, <2>3, <2>4, <2>5 DEF KInv, ReadsSafe
<1>10. CASE ~(i + 1 < WordsPerSector)
  <2>1. i + 1 = WordsPerSector
    BY <1>2, <1>3, <1>10
  <2>2. /\ i' = 0 /\ block' = block + 1 /\ offset' = 0
        /\ left' = left - 1 /\ sector' = sector + 1
        /\ phase' = IF block + 1 < n THEN "poll" ELSE "settle"
    BY <1>1, <1>3, <1>10, <2>1 DEF insw, MoreWords, MoreBlocks
  <2>3. drq' = FALSE /\ busy' = TRUE
    BY <1>1, <1>3, <2>1 DEF insw
  <2>4. DiskTypeOK'
    <3>1. busy' \in BOOLEAN /\ drq' \in BOOLEAN /\ err' \in BOOLEAN
      BY <1>8, <2>3
    <3> QED
      BY <1>2, <1>3, <1>5, <2>2, <3>1 DEF DiskTypeOK
  <2>5. Len(buf') = block' * WordsPerSector
    <3>1. (block + 1) * WordsPerSector = block * WordsPerSector + WordsPerSector
      BY <1>2, <1>3
    <3> QED
      BY <1>2, <1>3, <1>4, <1>6, <2>1, <2>2, <3>1
  <2>6. Stored'
    <3>1. (block + 1) * WordsPerSector \in Nat
      BY <1>2, <1>3
    <3>2. Len(buf') = block' * WordsPerSector + i'
      BY <2>2, <2>5, <3>1
    <3> QED
      BY <1>6, <3>2 DEF Stored
  <2>7. phase' = "settle" => block' = n'
    BY <1>3, <1>5, <2>2
  <2>8. SectorsExact' /\ DriveReleased'
    BY <1>5, <1>7, <2>2, <2>5, <2>7 DEF SectorsExact, DriveReleased
  <2>9. InStep'
    BY <1>3, <1>5, <2>2, <2>3, <2>7 DEF InStep
  <2> QED
    BY <2>4, <2>6, <2>8, <2>9 DEF KInv, ReadsSafe
<1> QED
  BY <1>9, <1>10

(* What the drive does on its own. *)
LEMMA DriveKeeps ==
  ASSUME KInv, Drive
  PROVE  KInv'
<1>1. UNCHANGED <<phase, lba, n, block, i, buf, sector, left, offset>>
  BY DEF Drive, SectorRead, CommandEnds, Fails, driver, drive
<1>2. busy /\ ~busy' /\ phase \in {"poll", "settle"}
  BY DEF Drive, SectorRead, CommandEnds, Fails, KInv, ReadsSafe, DiskTypeOK, DriveReleased, InStep
<1>3. phase = "settle" => drq' = drq
  BY <1>1 DEF Drive, SectorRead, CommandEnds, Fails, KInv, InStep
<1>4. DiskTypeOK'
  <2>1. busy' \in BOOLEAN /\ drq' \in BOOLEAN /\ err' \in BOOLEAN
    BY DEF Drive, SectorRead, CommandEnds, Fails, KInv, ReadsSafe, DiskTypeOK
  <2> QED
    BY <1>1, <2>1 DEF KInv, ReadsSafe, DiskTypeOK
<1>5. SectorsExact' /\ DriveReleased' /\ InStep' /\ Stored'
  BY <1>1, <1>2, <1>3 DEF KInv, ReadsSafe, SectorsExact, DriveReleased, InStep, Stored
<1> QED
  BY <1>4, <1>5 DEF KInv, ReadsSafe

LEMMA KInvKept == KInv /\ [DiskNext]_disk_vars => KInv'
<1> SUFFICES ASSUME KInv, [DiskNext]_disk_vars PROVE KInv'
  OBVIOUS
<1>1. CASE UNCHANGED disk_vars
  BY <1>1 DEF disk_vars, driver, status, drive, KInv, ReadsSafe, DiskTypeOK, SectorsExact,
     DriveReleased, InStep, Stored
<1>2. CASE DiskNext
  BY <1>2, CommandKeeps, PollKeeps, InswKeeps, DriveKeeps DEF DiskNext, Driver
<1> QED
  BY <1>1, <1>2

(* disk_read_sector returns the sectors that were asked for, word for      *)
(* word, and a drive that takes the next command: for every address the    *)
(* registers have room for, every count up to the one that is held as 0,   *)
(* and every size of a sector (disk.c:25-60).                              *)
THEOREM ReadsCorrect == DiskSpec => []ReadsSafe
<1>1. DiskSpec => []KInv
  BY KInvInit, KInvKept, PTL DEF DiskSpec
<1>2. KInv => ReadsSafe
  BY DEF KInv
<1> QED
  BY <1>1, <1>2, PTL
-----------------------------------------------------------------------------
(* The terminal. *)

(* What the task has loaded: a column left of the margin, and a glyph to   *)
(* put there.                                                              *)
Loaded ==
  /\ pc = "idle" => ~clash /\ row = None
  /\ pc \in {"increment", "incremented"} => col \in 0..(VGA_WIDTH - 1)
  /\ pc \in {"args", "increment", "incremented"} => char \in Glyphs

(* Until a handler prints, what the task loaded is still so. *)
InTouch ==
  ~clash => /\ row # None /\ pc # "newline_column" => row = terminal_row
            /\ pc = "increment" => terminal_column = col
            /\ pc = "incremented" => terminal_column = col + 1
            /\ pc = "wrap_column" => terminal_column = VGA_WIDTH
            /\ pc = "wrap" => terminal_column = 0

TInv == CursorSafe /\ Loaded /\ InTouch

(* Cells. *)

W == VGA_WIDTH
H == VGA_HEIGHT
M == VGA_WIDTH * VGA_HEIGHT

LEMMA Sizes ==
  /\ W \in Nat \ {0} /\ H \in Nat \ {0} /\ M \in Nat \ {0}
  /\ M = H * W /\ Cells = 0..(M - 1)
<1>1. W \in Nat \ {0} /\ H \in Nat \ {0}
  BY TermioAssumption DEF W, H
<1>2. \A a, b \in Nat \ {0} : a * b \in Nat \ {0} /\ a * b = b * a
  OBVIOUS
<1> QED
  BY <1>1, <1>2 DEF W, H, M, Cells

LEMMA RowsFit ==
  ASSUME NEW y \in 0..(H - 1)
  PROVE  y * W \in Nat /\ y * W + W <= M /\ (y = H - 1 => y * W + W = M)
         /\ (y # H - 1 => (y + 1) * W = y * W + W /\ y * W + W \in 0..(M - 1))
<1>1. W \in Nat \ {0} /\ H \in Nat \ {0} /\ M = H * W /\ M \in Nat
  BY Sizes
<1> DEFINE z == H - 1 - y
<1>2. z \in Nat /\ H = y + z + 1
  BY <1>1
<1> HIDE DEF z
<1>3. M = y * W + z * W + W
  BY <1>1, <1>2
<1>4. y * W \in Nat /\ z * W \in Nat /\ (z = 0 => z * W = 0) /\ (z # 0 => z * W >= 1)
  BY <1>1, <1>2
<1>5. (y + 1) * W = y * W + W
  BY <1>1
<1> QED
  BY <1>1, <1>2, <1>3, <1>4, <1>5

(* Within the line the cells are counted row by row. *)
LEMMA CellInLine ==
  ASSUME NEW y \in 0..(H - 1), NEW x \in 0..(W - 1)
  PROVE  Cell(x, y) = y * W + x /\ Cell(x, y) \in Cells
<1>1. W \in Nat \ {0} /\ M \in Nat \ {0} /\ M = H * W /\ Cells = 0..(M - 1)
  BY Sizes
<1>2. y * W \in Nat /\ y * W + W <= M
  BY RowsFit
<1>3. y * W + x \in 0..(M - 1)
  BY <1>1, <1>2
<1>4. PICK a \in 0..(M - 1) : a = y * W + x
  BY <1>3
<1>5. a % M = a
  BY <1>1
<1>6. Cell(x, y) = a % M
  BY <1>1, <1>4 DEF Cell, W, H
<1> QED
  BY <1>1, <1>4, <1>5, <1>6

LEMMA CellOnScreen ==
  ASSUME NEW y \in 0..(H - 1), NEW x \in Nat
  PROVE  Cell(x, y) \in Cells
<1>1. W \in Nat \ {0} /\ M \in Nat \ {0} /\ M = H * W /\ Cells = 0..(M - 1)
  BY Sizes
<1>2. y * W \in Nat
  BY <1>1
<1>3. PICK a \in Nat : a = y * W + x
  BY <1>2
<1>4. a % M \in 0..(M - 1)
  BY <1>1
<1> QED
  BY <1>1, <1>3, <1>4 DEF Cell, W, H

(* The remainder of a successor. *)
LEMMA NextMod ==
  ASSUME NEW m \in Nat \ {0}, NEW a \in Nat
  PROVE  (a + 1) % m = ((a % m) + 1) % m
<1>1. PICK q \in Nat, r \in 0..(m - 1) : q = a \div m /\ r = a % m /\ a = q * m + r
  BY DivModOf
<1>2. CASE r < m - 1
  <2>1. r + 1 \in 0..(m - 1) /\ a + 1 = q * m + (r + 1)
    BY <1>1, <1>2
  <2>2. (q * m + (r + 1)) % m = r + 1
    BY <2>1, DivMod
  <2>3. (r + 1) % m = r + 1
    BY <2>1
  <2> QED
    BY <1>1, <2>1, <2>2, <2>3
<1>3. CASE r = m - 1
  <2>1. q + 1 \in Nat /\ 0 \in 0..(m - 1) /\ (q + 1) * m = q * m + m
    BY <1>1
  <2>2. ((q + 1) * m + 0) % m = 0
    BY <2>1, DivMod
  <2>3. a + 1 = (q + 1) * m + 0
    BY <1>1, <1>3, <2>1
  <2>4. (r + 1) % m = 0
    BY <1>3
  <2> QED
    BY <1>1, <2>2, <2>3, <2>4
<1> QED
  BY <1>2, <1>3

(* A column to the right is one cell further. *)
LEMMA CellRight ==
  ASSUME NEW y \in 0..(H - 1), NEW x \in Nat
  PROVE  Cell(x + 1, y) = (Cell(x, y) + 1) % M
<1>1. W \in Nat \ {0} /\ M \in Nat \ {0} /\ M = H * W
  BY Sizes
<1>2. y * W \in Nat
  BY <1>1
<1>3. PICK a \in Nat : a = y * W + x
  BY <1>2
<1>4. a + 1 = y * W + (x + 1)
  BY <1>2, <1>3
<1>5. (a + 1) % M = ((a % M) + 1) % M
  BY <1>1, NextMod
<1>6. Cell(x, y) = a % M /\ Cell(x + 1, y) = (a + 1) % M
  BY <1>1, <1>3, <1>4 DEF Cell, W, H
<1> QED
  BY <1>5, <1>6

LEMMA RowAfterIs ==
  ASSUME NEW y \in 0..(H - 1)
  PROVE  RowAfter(y) \in 0..(H - 1) /\ RowAfter(y) = IF y = H - 1 THEN 0 ELSE y + 1
<1>1. H \in Nat \ {0}
  BY Sizes
<1>2. CASE y = H - 1
  <2>1. (y + 1) % H = 0
    BY <1>1, <1>2
  <2> QED
    BY <1>1, <1>2, <2>1 DEF RowAfter, H
<1>3. CASE y # H - 1
  <2>1. (y + 1) % H = y + 1
    BY <1>1, <1>3
  <2> QED
    BY <1>1, <1>3, <2>1 DEF RowAfter, H
<1> QED
  BY <1>2, <1>3

(* Past the margin is the beginning of the next line. *)
LEMMA CellWraps ==
  ASSUME NEW y \in 0..(H - 1)
  PROVE  Cell(W, y) = Cell(0, RowAfter(y)) /\ (y * W + W) % M = Cell(0, RowAfter(y))
<1>1. W \in Nat \ {0} /\ H \in Nat \ {0} /\ M \in Nat \ {0} /\ M = H * W
  BY Sizes
<1>2. Cell(W, y) = (y * W + W) % M
  BY <1>1 DEF Cell, W, H
<1>3. 0 \in 0..(W - 1) /\ RowAfter(y) \in 0..(H - 1)
  BY <1>1, RowAfterIs
<1>4. Cell(0, RowAfter(y)) = RowAfter(y) * W + 0
  BY <1>3, CellInLine
<1>5. PICK a \in Nat : a = y * W + W
  BY <1>1, RowsFit
<1>6. CASE y = H - 1
  <2>1. a = M
    BY <1>5, <1>6, RowsFit
  <2>2. a % M = 0
    BY <1>1, <2>1
  <2>3. RowAfter(y) = 0 /\ 0 * W + 0 = 0
    BY <1>1, <1>6, RowAfterIs
  <2> QED
    BY <1>2, <1>4, <1>5, <2>2, <2>3
<1>7. CASE y # H - 1
  <2>1. a \in 0..(M - 1) /\ (y + 1) * W = a
    BY <1>5, <1>7, RowsFit
  <2>2. a % M = a
    BY <1>1, <2>1
  <2>3. RowAfter(y) = y + 1 /\ (y + 1) * W + 0 = a
    BY <1>1, <1>7, <2>1, RowAfterIs
  <2> QED
    BY <1>2, <1>4, <1>5, <2>2, <2>3
<1> QED
  BY <1>6, <1>7

(* The teletype's next line is the next row. *)
LEMMA LineAfterIs ==
  ASSUME NEW y \in 0..(H - 1), NEW x \in 0..(W - 1)
  PROVE  Promised!LineAfter(Cell(x, y)) = Cell(0, RowAfter(y))
<1>1. W \in Nat \ {0} /\ H \in Nat \ {0} /\ M \in Nat \ {0}
  BY Sizes
<1>2. Cell(x, y) = y * W + x
  BY CellInLine
<1>3. (y * W + x) \div W = y
  BY <1>1, DivMod
<1>4. (y + 1) * W = y * W + W
  BY <1>1
<1> QED
  BY <1>2, <1>3, <1>4, CellWraps DEF Promised!LineAfter, Promised!Wrap, W, M
-----------------------------------------------------------------------------
(* A message. *)

Terminals == [screen : [Cells -> Glyphs], row : 0..(H - 1), col : Nat]

LEMMA PutNewline ==
  ASSUME NEW t \in Terminals
  PROVE  /\ PutChar(t, NL) \in Terminals
         /\ PutChar(t, NL).col = 0 /\ PutChar(t, NL).screen = t.screen
         /\ PutChar(t, NL).row = RowAfter(t.row)
<1>1. /\ t.screen \in [Cells -> Glyphs] /\ t.row \in 0..(H - 1)
      /\ t = [screen |-> t.screen, row |-> t.row, col |-> t.col]
  BY DEF Terminals
<1>2. RowAfter(t.row) \in 0..(H - 1)
  BY <1>1, RowAfterIs
<1>3. PutChar(t, NL) = [screen |-> t.screen, row |-> RowAfter(t.row), col |-> 0]
  BY <1>1 DEF PutChar
<1> QED
  BY <1>1, <1>2, <1>3 DEF Terminals

LEMMA PutGlyph ==
  ASSUME NEW t \in Terminals, NEW c \in Glyphs
  PROVE  /\ PutChar(t, c) \in Terminals
         /\ PutChar(t, c).screen = [t.screen EXCEPT ![Cell(t.col, t.row)] = c]
         /\ PutChar(t, c).col = IF t.col + 1 = W THEN 0 ELSE t.col + 1
         /\ PutChar(t, c).row = IF t.col + 1 = W THEN RowAfter(t.row) ELSE t.row
<1> DEFINE s == [t.screen EXCEPT ![Cell(t.col, t.row)] = c]
           x == IF t.col + 1 = W THEN 0 ELSE t.col + 1
           y == IF t.col + 1 = W THEN RowAfter(t.row) ELSE t.row
<1>1. t.screen \in [Cells -> Glyphs] /\ t.row \in 0..(H - 1) /\ t.col \in Nat /\ c # NL
  BY TermioAssumption DEF Terminals
<1>2. PutChar(t, c) = [screen |-> s, col |-> x, row |-> y]
  <2>1. AtMargin(t.col + 1) <=> t.col + 1 = W
    BY DEF AtMargin, W
  <2>2. CASE t.col + 1 = W
    BY <1>1, <2>1, <2>2 DEF PutChar
  <2>3. CASE t.col + 1 # W
    BY <1>1, <2>1, <2>3 DEF PutChar
  <2> QED
    BY <2>2, <2>3
<1>3. s \in [Cells -> Glyphs]
  BY <1>1
<1>4. x \in Nat
  BY <1>1
<1>5. y \in 0..(H - 1)
  BY <1>1, RowAfterIs
<1> HIDE DEF s, x, y
<1>6. PutChar(t, c) \in Terminals
  BY <1>2, <1>3, <1>4, <1>5 DEF Terminals
<1>7. PutChar(t, c).screen = s /\ PutChar(t, c).col = x /\ PutChar(t, c).row = y
  BY <1>2
<1> QED
  BY <1>6, <1>7 DEF s, x, y

(* Every character moves the terminal on by one cell. *)
LEMMA PutCharMoves ==
  ASSUME NEW t \in Terminals, NEW c \in Glyphs
  PROVE  Cell(PutChar(t, c).col, PutChar(t, c).row) = (Cell(t.col, t.row) + 1) % M
<1>1. t.row \in 0..(H - 1) /\ t.col \in Nat /\ c # NL
  BY TermioAssumption DEF Terminals
<1>2. Cell(t.col + 1, t.row) = (Cell(t.col, t.row) + 1) % M
  BY <1>1, CellRight
<1>3. CASE t.col + 1 = W
  <2>1. PutChar(t, c).col = 0 /\ PutChar(t, c).row = RowAfter(t.row)
    BY <1>1, <1>3, PutGlyph
  <2>2. Cell(W, t.row) = Cell(0, RowAfter(t.row))
    BY <1>1, CellWraps
  <2> QED
    BY <1>2, <1>3, <2>1, <2>2
<1>4. CASE t.col + 1 # W
  BY <1>1, <1>2, <1>4, PutGlyph
<1> QED
  BY <1>3, <1>4

(* The states of the terminal between the characters of a message.         *)
Between(t, line, terminal) ==
  /\ t \in [0..Len(line) -> Terminals]
  /\ t[0] = terminal
  /\ \A k \in 1..Len(line) : t[k] = PutChar(t[k - 1], line[k])

LEMMA PrintedIs ==
  ASSUME NEW terminal \in Terminals, NEW line \in Seq(Glyphs \union {NL})
  PROVE  \E t : Between(t, line, terminal) /\ Printed(terminal, line) = t[Len(line)]
<1> DEFINE len == Len(line)
           turn == [k \in 1..len |-> [s \in Terminals |-> PutChar(s, line[k])]]
<1>1. len \in Nat
  OBVIOUS
<1>2. \A k \in 1..len : line[k] \in Glyphs \union {NL}
  OBVIOUS
<1>3. turn \in Loops(len, Terminals)
  BY <1>2, PutGlyph, PutNewline DEF Loops
<1>4. \A k \in 1..len, s \in Terminals : turn[k][s] = PutChar(s, line[k])
  OBVIOUS
<1> HIDE DEF turn
<1>5. PICK f \in [0..len -> Terminals] :
        f[0] = terminal /\ \A k \in 1..len : f[k] = turn[k][f[k - 1]]
  <2> HIDE DEF len
  <2>1. \E f : Run(f, len, Terminals, terminal, turn)
    BY <1>1, <1>3, Loop
  <2> QED
    BY <2>1 DEF Run
<1>6. ASSUME NEW k \in 1..len PROVE f[k] = PutChar(f[k - 1], line[k])
  <2>1. k - 1 \in 0..len
    BY <1>1
  <2>2. f[k - 1] \in Terminals
    BY <2>1
  <2> QED
    BY <1>4, <1>5, <2>2
<1> DEFINE F(t) == [k \in 0..len |-> IF k = 0 THEN terminal ELSE PutChar(t[k - 1], line[k])]
<1>7. f = F(f)
  <2>1. \A k \in 0..len : f[k] = F(f)[k]
    BY <1>1, <1>5, <1>6
  <2> QED
    BY <2>1
<1> DEFINE t == CHOOSE t : t = F(t)
<1>8. t = F(t)
  BY <1>7
<1>9. Printed(terminal, line) = t[len]
  BY DEF Printed
<1> HIDE DEF t
<1>10. DOMAIN t = 0..len /\ t[0] = terminal
  BY <1>1, <1>8
<1>11. ASSUME NEW k \in 1..len PROVE t[k] = PutChar(t[k - 1], line[k])
  BY <1>1, <1>8
<1> HIDE DEF F
<1> DEFINE G == {k \in 0..len : t[k] \in Terminals}
<1>12. 0 \in G
  BY <1>1, <1>10
<1>13. ASSUME NEW k \in 0..(len - 1), k \in G PROVE k + 1 \in G
  <2>1. k + 1 \in 1..len /\ (k + 1) - 1 = k
    BY <1>1
  <2>2. t[k + 1] = PutChar(t[k], line[k + 1])
    BY <1>11, <2>1
  <2>3. PutChar(t[k], line[k + 1]) \in Terminals
    BY <1>2, <1>13, <2>1, PutGlyph, PutNewline
  <2> QED
    BY <2>1, <2>2, <2>3
<1>14. \A k \in 0..len : t[k] \in Terminals
  <2>1. \A k \in 0..(len - 1) : k \in G => k + 1 \in G
    BY <1>13
  <2> HIDE DEF G
  <2>2. 0..len \subseteq G
    BY <1>1, <1>12, <2>1, Induct
  <2> QED
    BY <2>2 DEF G
<1>15. t \in [0..len -> Terminals]
  <2>1. t = [k \in 0..len |-> t[k]]
    BY <1>8 DEF F
  <2> QED
    BY <1>14, <2>1
<1> QED
  BY <1>9, <1>10, <1>11, <1>15 DEF Between

(* The screen after the first k glyphs of text were written from cell p on. *)
Places(p, k, c) == {j \in 1..k : (p + j - 1) % M = c}
Latest(S) == CHOOSE j \in S : \A h \in S : h <= j
WrittenUpto(text, p, k) ==
  [c \in Cells |-> IF Places(p, k, c) = {} THEN video_memory[c]
                   ELSE text[Latest(Places(p, k, c))]]

LEMMA OneMore ==
  ASSUME NEW text, NEW p \in Nat, NEW k \in Nat, video_memory \in [Cells -> Glyphs]
  PROVE  WrittenUpto(text, p, k + 1) =
           [WrittenUpto(text, p, k) EXCEPT ![(p + k) % M] = text[k + 1]]
<1>1. p + (k + 1) - 1 = p + k
  OBVIOUS
<1>2. ASSUME NEW c \in Cells
      PROVE  WrittenUpto(text, p, k + 1)[c] =
               [WrittenUpto(text, p, k) EXCEPT ![(p + k) % M] = text[k + 1]][c]
  <2>1. CASE c = (p + k) % M
    <3> DEFINE S == Places(p, k + 1, c)
    <3>1. k + 1 \in S /\ \A h \in S : h \in Nat /\ h <= k + 1
      BY <1>1, <2>1 DEF Places
    <3> HIDE DEF S
    <3>2. \A j \in S : (\A h \in S : h <= j) => j = k + 1
      BY <3>1
    <3>3. Latest(S) = k + 1
      BY <3>1, <3>2 DEF Latest
    <3> QED
      BY <2>1, <3>1, <3>3 DEF WrittenUpto, S
  <2>2. CASE c # (p + k) % M
    <3>1. Places(p, k + 1, c) = Places(p, k, c)
      <4>1. ASSUME NEW j \in 1..(k + 1), (p + j - 1) % M = c PROVE j \in 1..k
        BY <1>1, <2>2, <4>1
      <4> QED
        BY <4>1 DEF Places
    <3> QED
      BY <2>2, <3>1 DEF WrittenUpto
  <2> QED
    BY <2>1, <2>2
<1> DEFINE f == WrittenUpto(text, p, k + 1)
           g == WrittenUpto(text, p, k)
<1>3. f = [c \in Cells |-> f[c]] /\ g = [c \in Cells |-> g[c]]
  BY DEF WrittenUpto
<1> HIDE DEF f, g
<1>4. \A c \in Cells : f[c] = [g EXCEPT ![(p + k) % M] = text[k + 1]][c]
  BY <1>2 DEF f, g
<1> QED
  BY <1>3, <1>4 DEF f, g

Terminal == [screen |-> video_memory, row |-> terminal_row, col |-> terminal_column]

(* A message goes to consecutive cells from where the terminal is, and     *)
(* leaves it at the beginning of the line after its last character.        *)
LEMMA MessagePrinted ==
  ASSUME TypeOK, NEW text \in Texts
  PROVE  LET t == Printed(Terminal, Line(text))
             p == Cell(terminal_column, terminal_row)
         IN  /\ t \in Terminals /\ t.col = 0
             /\ t.screen = WrittenUpto(text, p, Len(text))
             /\ terminal_column < W =>
                  Cell(0, t.row) = Promised!LineAfter((p + Len(text)) % M)
<1> DEFINE p == Cell(terminal_column, terminal_row)
           len == Len(text)
           line == Line(text)
<1>1. text \in Seq(Glyphs) /\ len \in Nat /\ \A k \in 1..len : text[k] \in Glyphs /\ text[k] # NL
  BY TermioAssumption
<1>2. /\ line \in Seq(Glyphs \union {NL}) /\ Len(line) = len + 1
      /\ \A k \in 1..len : line[k] = text[k]
      /\ line[len + 1] = NL
  BY <1>1 DEF Line
<1>3. /\ video_memory \in [Cells -> Glyphs] /\ terminal_row \in 0..(H - 1)
      /\ terminal_column \in Nat
  BY DEF TypeOK, H
<1>4. Terminal \in Terminals
  BY <1>3 DEF Terminal, Terminals
<1>5. p \in Nat /\ p \in 0..(M - 1) /\ M \in Nat \ {0} /\ W \in Nat \ {0}
  BY <1>3, CellOnScreen, Sizes
<1>6. PICK t : Between(t, line, Terminal) /\ Printed(Terminal, line) = t[len + 1]
  BY <1>2, <1>4, PrintedIs
<1>7. /\ \A k \in 0..(len + 1) : t[k] \in Terminals
      /\ t[0] = Terminal
      /\ \A k \in 1..(len + 1) : t[k] = PutChar(t[k - 1], line[k])
  BY <1>2, <1>6 DEF Between
<1> HIDE DEF p, len, line
<1>8. \A k \in 0..(len - 1) : t[k + 1] = PutChar(t[k], text[k + 1]) /\ text[k + 1] \in Glyphs
                            /\ text[k + 1] # NL
  <2> SUFFICES ASSUME NEW k \in 0..(len - 1)
               PROVE  t[k + 1] = PutChar(t[k], text[k + 1]) /\ text[k + 1] \in Glyphs
                      /\ text[k + 1] # NL
    OBVIOUS
  <2>1. k + 1 \in 1..(len + 1) /\ k + 1 \in 1..len /\ (k + 1) - 1 = k
    BY <1>1
  <2> QED
    BY <1>1, <1>2, <1>7, <2>1
<1>9. t[len + 1] = PutChar(t[len], NL) /\ t[len] \in Terminals
  <2>1. len + 1 \in 1..(len + 1) /\ len \in 0..(len + 1) /\ (len + 1) - 1 = len
    BY <1>1
  <2> QED
    BY <1>2, <1>7, <2>1
<1> DEFINE Good(k) ==
             /\ Cell(t[k].col, t[k].row) = (p + k) % M
             /\ t[k].screen = WrittenUpto(text, p, k)
             /\ terminal_column < W => t[k].col < W
           G == {k \in 0..len : Good(k)}
<1>10. Good(0)
  <2>1. t[0].col = terminal_column /\ t[0].row = terminal_row /\ t[0].screen = video_memory
    BY <1>7 DEF Terminal
  <2>2. (p + 0) % M = p
    BY <1>5
  <2>3. WrittenUpto(text, p, 0) = video_memory
    <3>1. \A c \in Cells : Places(p, 0, c) = {}
      BY DEF Places
    <3> QED
      BY <1>3, <3>1 DEF WrittenUpto
  <2> QED
    BY <2>1, <2>2, <2>3 DEF p
<1>11. ASSUME NEW k \in 0..(len - 1), Good(k) PROVE Good(k + 1)
  <2>1. k \in 0..(len + 1) /\ k \in Nat /\ p + (k + 1) = (p + k) + 1 /\ p + k \in Nat
    BY <1>1, <1>5
  <2>2. /\ t[k] \in Terminals /\ t[k + 1] = PutChar(t[k], text[k + 1])
        /\ text[k + 1] \in Glyphs /\ text[k + 1] # NL
    BY <1>7, <1>8, <2>1
  <2>3. Cell(t[k + 1].col, t[k + 1].row) = (Cell(t[k].col, t[k].row) + 1) % M
    BY <2>2, PutCharMoves
  <2>4. ((p + k) + 1) % M = (((p + k) % M) + 1) % M
    BY <1>5, <2>1, NextMod
  <2>5. Cell(t[k + 1].col, t[k + 1].row) = (p + (k + 1)) % M
    BY <1>11, <2>1, <2>3, <2>4
  <2>6. /\ t[k + 1].screen = [t[k].screen EXCEPT ![Cell(t[k].col, t[k].row)] = text[k + 1]]
        /\ t[k + 1].col = IF t[k].col + 1 = W THEN 0 ELSE t[k].col + 1
    BY <2>2, PutGlyph
  <2>7. t[k + 1].screen = WrittenUpto(text, p, k + 1)
    <3>1. WrittenUpto(text, p, k + 1) =
            [WrittenUpto(text, p, k) EXCEPT ![(p + k) % M] = text[k + 1]]
      BY <1>3, <1>5, <2>1, OneMore
    <3>2. t[k].screen = WrittenUpto(text, p, k) /\ Cell(t[k].col, t[k].row) = (p + k) % M
      BY <1>11
    <3> QED
      BY <2>6, <3>1, <3>2
  <2>8. terminal_column < W => t[k + 1].col < W
    <3>1. PICK x \in Nat : x = t[k].col
      BY <2>2 DEF Terminals
    <3>2. t[k + 1].col = IF x + 1 = W THEN 0 ELSE x + 1
      BY <2>6, <3>1
    <3>3. terminal_column < W => x < W
      BY <1>11, <3>1
    <3> QED
      BY <1>5, <3>2, <3>3
  <2> QED
    BY <2>5, <2>7, <2>8
<1> HIDE DEF Good
<1>12. Good(len)
  <2>1. 0 \in G /\ \A k \in 0..(len - 1) : k \in G => k + 1 \in G
    BY <1>1, <1>10, <1>11
  <2> HIDE DEF G
  <2>2. 0..len \subseteq G
    BY <1>1, <2>1, Induct
  <2> QED
    BY <1>1, <2>2 DEF G
<1>13. /\ t[len + 1] \in Terminals /\ t[len + 1].col = 0 /\ t[len + 1].screen = t[len].screen
       /\ t[len + 1].row = RowAfter(t[len].row)
  BY <1>9, PutNewline
<1>14. ASSUME terminal_column < W
       PROVE  Cell(0, t[len + 1].row) = Promised!LineAfter((p + len) % M)
  <2>1. t[len].row \in 0..(H - 1) /\ t[len].col \in Nat /\ t[len].col < W
    BY <1>9, <1>12, <1>14 DEF Good, Terminals
  <2>2. t[len].col \in 0..(W - 1)
    BY <1>5, <2>1
  <2>3. Promised!LineAfter(Cell(t[len].col, t[len].row)) = Cell(0, RowAfter(t[len].row))
    BY <2>1, <2>2, LineAfterIs
  <2> QED
    BY <1>12, <1>13, <2>3 DEF Good
<1>15. t[len + 1].screen = WrittenUpto(text, p, len)
  BY <1>12, <1>13 DEF Good
<1> QED
  BY <1>6, <1>13, <1>14, <1>15 DEF p, len, line
-----------------------------------------------------------------------------
(* The steps. *)

(* What the teletype sees of the terminal. *)
Pos == IF clash THEN 0 ELSE Position
Harm == IF ~clash THEN "no" ELSE IF Unwritten THEN "before" ELSE "after"
seen == <<video_memory, Pos, Harm>>

LEMMA TInvTypes ==
  ASSUME TInv
  PROVE  /\ video_memory \in [Cells -> Glyphs]
         /\ terminal_row \in 0..(H - 1) /\ terminal_column \in 0..W
         /\ (terminal_column = W => pc \in {"incremented", "test", "wrap_column"})
         /\ clash \in BOOLEAN
         /\ row \in 0..(H - 1) \union {None} /\ col \in Nat \union {None}
         /\ W \in Nat \ {0} /\ H \in Nat \ {0} /\ 0 \in 0..(W - 1)
<1>1. W \in Nat \ {0} /\ H \in Nat \ {0}
  BY Sizes
<1> QED
  BY <1>1 DEF TInv, CursorSafe, TypeOK, ColumnInLine, W, H

LEMMA TInvInit == Init => TInv /\ Promised!Init
<1> SUFFICES ASSUME Init PROVE TInv /\ Promised!Init
  OBVIOUS
<1>1. W \in Nat \ {0} /\ H \in Nat \ {0} /\ M \in Nat \ {0}
  BY Sizes
<1>2. clash = FALSE /\ clash \in BOOLEAN
  BY DEF Init
<1>3. video_memory \in [Cells -> Glyphs]
  BY TermioAssumption DEF Init
<1>4. TypeOK
  BY <1>1, <1>2, <1>3, TermioAssumption DEF Init, TypeOK, W, H
<1>5. ColumnInLine
  BY <1>1 DEF Init, ColumnInLine, W
<1>6. Loaded /\ InTouch
  BY <1>2 DEF Init, Loaded, InTouch
<1>7. Position = Cell(0, 0)
  BY DEF Init, Position
<1>8. 0 \in 0..(H - 1) /\ 0 \in 0..(W - 1) /\ 0 * W + 0 = 0
  BY <1>1
<1>9. Cell(0, 0) = 0
  BY <1>8, CellInLine
<1>10. Promised!Init
  BY <1>2, <1>3, <1>7, <1>9 DEF Promised!Init, Promised!Cells, Cells
<1> QED
  BY <1>4, <1>5, <1>6, <1>10 DEF TInv, CursorSafe

OnScreen == Pos \in Cells /\ 0 \in Cells

LEMMA PosOnScreen == TInv => OnScreen
<1> SUFFICES ASSUME TInv PROVE Pos \in Cells /\ 0 \in Cells
  BY DEF OnScreen
<1>1. /\ terminal_row \in 0..(H - 1) /\ terminal_column \in 0..W /\ clash \in BOOLEAN
      /\ W \in Nat \ {0} /\ 0 \in Nat
  BY TInvTypes
<1>2. 0 \in Cells
  BY Sizes
<1>3. CASE clash
  BY <1>2, <1>3 DEF Pos
<1>4. CASE ~clash
  <2>1. RowAfter(terminal_row) \in 0..(H - 1)
    BY <1>1, RowAfterIs
  <2>2. pc = "incremented" => terminal_column - 1 \in Nat
    BY <1>1, <1>4 DEF TInv, InTouch, Loaded
  <2>3. Position \in Cells
    BY <1>1, <2>1, <2>2, CellOnScreen DEF Position
  <2> QED
    BY <1>2, <1>4, <2>3 DEF Pos
<1> QED
  BY <1>1, <1>3, <1>4

LEMMA BeginSteps ==
  ASSUME TInv, NEW c \in Glyphs \union {NL}, terminal_put_char(c)
  PROVE  TInv' /\ UNCHANGED seen
<1> USE DEF terminal_put_char
<1>1. clash = FALSE /\ clash' = FALSE /\ pc = "idle" /\ pc' \in {"newline", "args"}
  BY DEF TInv, Loaded
<1>2. terminal_column # W
  BY <1>1, TInvTypes
<1>3. TypeOK'
  BY DEF TInv, CursorSafe, TypeOK
<1>4. ColumnInLine'
  BY <1>1, <1>2 DEF TInv, CursorSafe, ColumnInLine, W
<1>5. Loaded'
  BY <1>1 DEF TInv, Loaded
<1>6. InTouch'
  BY <1>1 DEF TInv, InTouch, Loaded
<1>7. Pos' = Pos /\ Harm' = Harm
  BY <1>1 DEF Pos, Harm, Position
<1> QED
  BY <1>3, <1>4, <1>5, <1>6, <1>7 DEF TInv, CursorSafe, seen

LEMMA LoadRowSteps ==
  ASSUME TInv, LoadRow
  PROVE  TInv' /\ UNCHANGED seen
<1> USE DEF LoadRow
<1>1. UNCHANGED <<video_memory, terminal_row, terminal_column, pc, char, col, clash>>
  OBVIOUS
<1>2. TypeOK'
  BY DEF TInv, CursorSafe, TypeOK
<1>3. ColumnInLine'
  BY <1>1 DEF TInv, CursorSafe, ColumnInLine
<1>4. Loaded'
  BY <1>1 DEF TInv, Loaded
<1>5. InTouch'
  BY <1>1 DEF TInv, InTouch
<1>6. UNCHANGED seen
  BY <1>1 DEF seen, Pos, Harm, Position, Unwritten
<1> QED
  BY <1>2, <1>3, <1>4, <1>5, <1>6 DEF TInv, CursorSafe

LEMMA StoreNewRowSteps ==
  ASSUME TInv, StoreNewRow
  PROVE  TInv' /\ (Promised!NewLine \/ Promised!Stray)
<1> USE DEF StoreNewRow, Goto
<1>1. /\ pc = "newline" /\ pc' = "newline_column" /\ row # None
      /\ terminal_row' = RowAfter(row) /\ clash' = clash
      /\ UNCHANGED <<video_memory, terminal_column, row, col, char>>
  OBVIOUS
<1>2. /\ row \in 0..(H - 1) /\ terminal_row \in 0..(H - 1) /\ terminal_column \in 0..(W - 1)
      /\ clash \in BOOLEAN /\ video_memory \in [Cells -> Glyphs] /\ W \in Nat \ {0}
  BY <1>1, TInvTypes
<1>3. RowAfter(row) \in 0..(H - 1)
  BY <1>2, RowAfterIs
<1>4. TypeOK'
  BY <1>1, <1>3 DEF TInv, CursorSafe, TypeOK, H
<1>5. ColumnInLine'
  BY <1>1, <1>2 DEF TInv, CursorSafe, ColumnInLine, W
<1>6. Loaded' /\ InTouch'
  BY <1>1 DEF Loaded, InTouch
<1>7. CASE clash
  <2>1. Harm = "before" /\ Harm' = "after" /\ Pos' = 0
    BY <1>1, <1>7 DEF Harm, Pos, Unwritten
  <2>2. 0 \in Cells /\ video_memory[0] \in Glyphs
    BY <1>2, PosOnScreen DEF OnScreen
  <2>3. video_memory' = [video_memory EXCEPT ![0] = video_memory[0]]
    BY <1>1, <1>2, <2>2
  <2>4. Promised!Stray
    BY <2>1, <2>2, <2>3 DEF Promised!Stray, Promised!Cells, Cells, Harm, Pos
  <2> QED
    BY <1>4, <1>5, <1>6, <2>4 DEF TInv, CursorSafe
<1>8. CASE ~clash
  <2>1. row = terminal_row
    BY <1>1, <1>8 DEF TInv, InTouch
  <2>2. Pos = Cell(terminal_column, terminal_row) /\ Pos' = Cell(0, RowAfter(terminal_row))
    BY <1>1, <1>8, <2>1 DEF Pos, Position
  <2>3. Pos' = Promised!LineAfter(Pos)
    BY <1>2, <2>2, LineAfterIs
  <2>4. Harm = "no" /\ Harm' = "no"
    BY <1>1, <1>8 DEF Harm
  <2>5. Promised!NewLine
    BY <1>1, <2>3, <2>4 DEF Promised!NewLine, Harm, Pos
  <2> QED
    BY <1>4, <1>5, <1>6, <2>5 DEF TInv, CursorSafe
<1> QED
  BY <1>2, <1>7, <1>8

(* The end of an output: of one that was interrupted, or an invisible step. *)
LEMMA EndSteps ==
  ASSUME TInv, TInv', clash \in BOOLEAN, clash' = FALSE, video_memory' = video_memory,
         ~clash => Pos' = Pos
  PROVE  Promised!Stray \/ UNCHANGED seen
<1>1. Pos' \in Cells
  <2>1. OnScreen'
    BY PosOnScreen, PTL
  <2> QED
    BY <2>1 DEF OnScreen
<1>2. Harm' = "no"
  BY DEF Harm
<1>3. CASE clash
  <2>1. Harm # "no"
    BY <1>3 DEF Harm
  <2>2. Promised!Stray
    BY <1>1, <1>2, <2>1 DEF Promised!Stray, Promised!Cells, Cells, Harm, Pos
  <2> QED
    BY <2>2
<1>4. CASE ~clash
  <2>1. Harm = "no"
    BY <1>4 DEF Harm
  <2> QED
    BY <1>2, <1>4, <2>1 DEF seen
<1> QED
  BY <1>3, <1>4

LEMMA StoreNewColumnSteps ==
  ASSUME TInv, StoreNewColumn
  PROVE  TInv' /\ (Promised!Stray \/ UNCHANGED seen)
<1> USE DEF StoreNewColumn, Return
<1>1. /\ pc = "newline_column" /\ pc' = "idle" /\ clash' = FALSE /\ terminal_column' = 0
      /\ char' = Blank /\ row' = None /\ col' = None
      /\ UNCHANGED <<video_memory, terminal_row>>
  OBVIOUS
<1>2. clash \in BOOLEAN /\ W \in Nat \ {0}
  BY TInvTypes
<1>3. TypeOK'
  <2>1. clash' \in BOOLEAN /\ char' \in Glyphs
    BY <1>1, TermioAssumption
  <2> QED
    BY <1>1, <2>1 DEF TInv, CursorSafe, TypeOK
<1>4. ColumnInLine'
  BY <1>1, <1>2 DEF ColumnInLine, W
<1>5. Loaded' /\ InTouch'
  BY <1>1 DEF Loaded, InTouch
<1>6. ~clash => Pos' = Pos
  BY <1>1 DEF Pos, Position
<1>7. TInv'
  BY <1>3, <1>4, <1>5 DEF TInv, CursorSafe
<1> QED
  BY <1>1, <1>2, <1>6, <1>7, EndSteps

LEMMA LoadColumnSteps ==
  ASSUME TInv, LoadColumn
  PROVE  TInv' /\ UNCHANGED seen
<1> USE DEF LoadColumn, Goto
<1>1. /\ pc = "args" /\ pc' = "increment" /\ col' = terminal_column
      /\ UNCHANGED <<video_memory, terminal_row, terminal_column, row, char, clash>>
  OBVIOUS
<1>2. terminal_column \in 0..(W - 1)
  BY <1>1, TInvTypes
<1>3. TypeOK'
  BY <1>1 DEF TInv, CursorSafe, TypeOK
<1>4. ColumnInLine'
  BY <1>1, <1>2 DEF TInv, CursorSafe, ColumnInLine, W
<1>5. Loaded'
  BY <1>1, <1>2 DEF TInv, Loaded, W
<1>6. InTouch'
  BY <1>1 DEF TInv, InTouch
<1>7. UNCHANGED seen
  BY <1>1 DEF seen, Pos, Harm, Position, Unwritten
<1> QED
  BY <1>3, <1>4, <1>5, <1>6, <1>7 DEF TInv, CursorSafe

LEMMA IncrementColumnSteps ==
  ASSUME TInv, IncrementColumn
  PROVE  TInv' /\ UNCHANGED seen
<1> USE DEF IncrementColumn, Goto
<1>1. /\ pc = "increment" /\ pc' = "incremented" /\ terminal_column' = col + 1
      /\ UNCHANGED <<video_memory, terminal_row, row, col, char, clash>>
  OBVIOUS
<1>2. col \in 0..(W - 1) /\ W \in Nat \ {0} /\ clash \in BOOLEAN /\ (col + 1) - 1 = col
  BY <1>1, TInvTypes DEF TInv, Loaded, W
<1>3. TypeOK'
  BY <1>1, <1>2 DEF TInv, CursorSafe, TypeOK
<1>4. ColumnInLine'
  BY <1>1, <1>2 DEF ColumnInLine, W
<1>5. Loaded'
  BY <1>1 DEF TInv, Loaded
<1>6. InTouch'
  BY <1>1 DEF TInv, InTouch
<1>7. Pos' = Pos
  <2>1. CASE clash
    BY <1>1, <2>1 DEF Pos
  <2>2. CASE ~clash
    <3>1. terminal_column = col
      BY <1>1, <2>2 DEF TInv, InTouch
    <3>2. Position = Cell(col, terminal_row) /\ Position' = Cell(col, terminal_row)
      BY <1>1, <1>2, <3>1 DEF Position
    <3> QED
      BY <1>1, <2>2, <3>2 DEF Pos
  <2> QED
    BY <2>1, <2>2
<1>8. UNCHANGED seen
  BY <1>1, <1>7 DEF seen, Harm, Unwritten
<1> QED
  BY <1>3, <1>4, <1>5, <1>6, <1>8 DEF TInv, CursorSafe

LEMMA PrintCharSteps ==
  ASSUME TInv, terminal_print_char_x_y
  PROVE  TInv' /\ (Promised!Char \/ Promised!Stray)
<1> USE DEF terminal_print_char_x_y, Goto
<1>1. /\ pc = "incremented" /\ pc' = "test" /\ row # None /\ row' = None /\ col' = None
      /\ video_memory' = [video_memory EXCEPT ![Cell(col, row)] = char]
      /\ UNCHANGED <<terminal_row, terminal_column, char, clash>>
  OBVIOUS
<1>2. /\ row \in 0..(H - 1) /\ col \in 0..(W - 1) /\ col \in Nat /\ char \in Glyphs
      /\ terminal_row \in 0..(H - 1) /\ terminal_column \in 0..W
      /\ video_memory \in [Cells -> Glyphs] /\ W \in Nat \ {0} /\ clash \in BOOLEAN
  BY <1>1, TInvTypes DEF TInv, Loaded, W
<1>3. Cell(col, row) \in Cells
  BY <1>2, CellOnScreen
<1>4. TypeOK'
  BY <1>1, <1>2 DEF TInv, CursorSafe, TypeOK
<1>5. ColumnInLine'
  BY <1>1 DEF TInv, CursorSafe, ColumnInLine
<1>6. Loaded' /\ InTouch'
  BY <1>1 DEF Loaded, InTouch
<1>7. TInv'
  BY <1>4, <1>5, <1>6 DEF TInv, CursorSafe
<1>8. CASE clash
  <2>1. Harm = "before" /\ Harm' = "after" /\ Pos' = 0 /\ 0 \in Cells
    BY <1>1, <1>8, PosOnScreen DEF OnScreen, Harm, Pos, Unwritten
  <2>2. Promised!Stray
    BY <1>1, <1>2, <1>3, <2>1 DEF Promised!Stray, Promised!Cells, Cells, Harm, Pos
  <2> QED
    BY <1>7, <2>2
<1>9. CASE ~clash
  <2>1. row = terminal_row /\ terminal_column = col + 1 /\ (col + 1) - 1 = col
    BY <1>1, <1>2, <1>9 DEF TInv, InTouch
  <2>2. Pos = Cell(col, row) /\ Pos' = Cell(col + 1, row)
    BY <1>1, <1>9, <2>1 DEF Pos, Position
  <2>3. Harm = "no" /\ Harm' = "no"
    BY <1>1, <1>9 DEF Harm
  <2>4. Pos' = Promised!Wrap(Pos + 1)
    BY <1>2, <2>2, CellRight DEF Promised!Wrap, M
  <2>5. video_memory' = [video_memory EXCEPT ![Pos] = char]
    BY <1>1, <2>2
  <2>6. Promised!Char
    BY <1>2, <2>3, <2>4, <2>5 DEF Promised!Char, Harm, Pos
  <2> QED
    BY <1>7, <2>6
<1> QED
  BY <1>2, <1>8, <1>9

LEMMA TestColumnSteps ==
  ASSUME TInv, TestColumn
  PROVE  TInv' /\ (Promised!Stray \/ UNCHANGED seen)
<1> USE DEF TestColumn, Goto, Return
<1>1. pc = "test" /\ UNCHANGED <<video_memory, terminal_row, terminal_column>>
  OBVIOUS
<1>2. clash \in BOOLEAN /\ W \in Nat \ {0} /\ terminal_column \in 0..W
  BY TInvTypes
<1>3. CASE terminal_column = W
  <2>1. pc' = "wrap_column" /\ UNCHANGED <<row, col, char, clash>>
    BY <1>3 DEF AtMargin, W
  <2>2. TypeOK'
    BY <1>1, <2>1 DEF TInv, CursorSafe, TypeOK
  <2>3. ColumnInLine'
    BY <1>1, <2>1 DEF TInv, CursorSafe, ColumnInLine
  <2>4. Loaded'
    BY <1>1, <2>1 DEF TInv, Loaded
  <2>5. InTouch'
    BY <1>1, <1>3, <2>1 DEF TInv, InTouch, W
  <2>6. UNCHANGED seen
    BY <1>1, <2>1 DEF seen, Pos, Harm, Position, Unwritten
  <2> QED
    BY <2>2, <2>3, <2>4, <2>5, <2>6 DEF TInv, CursorSafe
<1>4. CASE terminal_column # W
  <2>1. /\ pc' = "idle" /\ clash' = FALSE
        /\ char' = Blank /\ row' = None /\ col' = None
    BY <1>4 DEF AtMargin, W
  <2>2. TypeOK'
    BY <1>1, <2>1, TermioAssumption DEF TInv, CursorSafe, TypeOK
  <2>3. ColumnInLine'
    BY <1>1, <1>2, <1>4, <2>1 DEF ColumnInLine, W
  <2>4. Loaded' /\ InTouch'
    BY <2>1 DEF Loaded, InTouch
  <2>5. ~clash => Pos' = Pos
    BY <1>1, <2>1 DEF Pos, Position
  <2>6. TInv'
    BY <2>2, <2>3, <2>4 DEF TInv, CursorSafe
  <2> QED
    BY <1>1, <1>2, <2>1, <2>5, <2>6, EndSteps
<1> QED
  BY <1>3, <1>4

LEMMA StoreWrapColumnSteps ==
  ASSUME TInv, StoreWrapColumn
  PROVE  TInv' /\ UNCHANGED seen
<1> USE DEF StoreWrapColumn, Goto
<1>1. /\ pc = "wrap_column" /\ pc' = "wrap" /\ terminal_column' = 0
      /\ UNCHANGED <<video_memory, terminal_row, row, col, char, clash>>
  OBVIOUS
<1>2. clash \in BOOLEAN /\ W \in Nat \ {0} /\ terminal_row \in 0..(H - 1)
  BY TInvTypes
<1>3. TypeOK'
  BY <1>1 DEF TInv, CursorSafe, TypeOK
<1>4. ColumnInLine'
  BY <1>1, <1>2 DEF ColumnInLine, W
<1>5. Loaded'
  BY <1>1 DEF TInv, Loaded
<1>6. InTouch'
  BY <1>1 DEF TInv, InTouch
<1>7. Pos' = Pos
  <2>1. CASE clash
    BY <1>1, <2>1 DEF Pos
  <2>2. CASE ~clash
    <3>1. terminal_column = W
      BY <1>1, <2>2 DEF TInv, InTouch, W
    <3>2. Position = Cell(W, terminal_row) /\ Position' = Cell(0, RowAfter(terminal_row))
      BY <1>1, <3>1 DEF Position
    <3>3. Cell(W, terminal_row) = Cell(0, RowAfter(terminal_row))
      BY <1>2, CellWraps
    <3> QED
      BY <1>1, <2>2, <3>2, <3>3 DEF Pos
  <2> QED
    BY <2>1, <2>2
<1>8. UNCHANGED seen
  BY <1>1, <1>7 DEF seen, Harm, Unwritten
<1> QED
  BY <1>3, <1>4, <1>5, <1>6, <1>8 DEF TInv, CursorSafe

LEMMA StoreWrapRowSteps ==
  ASSUME TInv, StoreWrapRow
  PROVE  TInv' /\ (Promised!Stray \/ UNCHANGED seen)
<1> USE DEF StoreWrapRow, Return
<1>1. /\ pc = "wrap" /\ row # None /\ terminal_row' = RowAfter(row)
      /\ pc' = "idle" /\ clash' = FALSE /\ char' = Blank /\ row' = None /\ col' = None
      /\ UNCHANGED <<video_memory, terminal_column>>
  OBVIOUS
<1>2. clash \in BOOLEAN /\ row \in 0..(H - 1) /\ terminal_column # W
  BY <1>1, TInvTypes
<1>3. RowAfter(row) \in 0..(H - 1)
  BY <1>2, RowAfterIs
<1>4. TypeOK'
  BY <1>1, <1>3, TermioAssumption DEF TInv, CursorSafe, TypeOK, H
<1>5. ColumnInLine'
  BY <1>1, <1>2 DEF TInv, CursorSafe, ColumnInLine, W
<1>6. Loaded' /\ InTouch'
  BY <1>1 DEF Loaded, InTouch
<1>7. ASSUME ~clash PROVE Pos' = Pos
  <2>1. row = terminal_row /\ terminal_column = 0
    BY <1>1, <1>7 DEF TInv, InTouch
  <2> QED
    BY <1>1, <1>7, <2>1 DEF Pos, Position
<1>8. TInv'
  BY <1>4, <1>5, <1>6 DEF TInv, CursorSafe
<1> QED
  BY <1>1, <1>2, <1>7, <1>8, EndSteps

(* A message of a handler, whatever the task is doing. *)
LEMMA MessageSteps ==
  ASSUME TInv, NEW text \in Texts, print(text)
  PROVE  TInv' /\ Promised!Message
<1> DEFINE t == Printed(Terminal, Line(text))
           p == Cell(terminal_column, terminal_row)
<1>1. /\ video_memory' = t.screen /\ terminal_row' = t.row /\ terminal_column' = t.col
      /\ clash' = (pc # "idle") /\ UNCHANGED <<pc, char, row, col>>
  BY DEF print, Terminal
<1>2. TypeOK
  BY DEF TInv, CursorSafe
<1>3. /\ t \in Terminals /\ t.col = 0
      /\ t.screen = WrittenUpto(text, p, Len(text))
      /\ terminal_column < W => Cell(0, t.row) = Promised!LineAfter((p + Len(text)) % M)
  BY <1>2, MessagePrinted
<1> HIDE DEF t
<1>4. /\ terminal_row \in 0..(H - 1) /\ terminal_column \in 0..W /\ terminal_column \in Nat
      /\ clash \in BOOLEAN /\ W \in Nat \ {0}
      /\ terminal_column = W => pc # "idle"
  BY TInvTypes
<1>5. p \in Cells
  BY <1>4, CellOnScreen
<1>6. clash' \in BOOLEAN
  BY <1>1
<1>7. TypeOK'
  <2>1. t.screen \in [Cells -> Glyphs] /\ t.row \in 0..(H - 1) /\ t.col \in Nat
    BY <1>3 DEF Terminals
  <2> QED
    BY <1>1, <1>2, <1>6, <2>1 DEF TypeOK, H
<1>8. ColumnInLine'
  BY <1>1, <1>3, <1>4 DEF ColumnInLine, W
<1>9. Loaded'
  BY <1>1 DEF TInv, Loaded
<1>10. InTouch'
  <2>1. CASE pc = "idle"
    <3>1. row = None /\ row' = None /\ pc' = "idle"
      BY <1>1, <2>1 DEF TInv, Loaded
    <3> QED
      BY <3>1 DEF InTouch
  <2>2. CASE pc # "idle"
    BY <1>1, <2>2 DEF InTouch
  <2> QED
    BY <2>1, <2>2
<1>11. TInv'
  BY <1>7, <1>8, <1>9, <1>10 DEF TInv, CursorSafe
<1>12. video_memory' = Promised!Written(text, p)
  <2>1. Cells = Promised!Cells
    BY DEF Cells, Promised!Cells
  <2> QED
    BY <1>1, <1>3, <2>1 DEF WrittenUpto, Places, Latest, Promised!Written, Promised!Wrap, M
<1>13. CASE pc = "idle"
  <2>1. clash = FALSE /\ clash' = FALSE /\ terminal_column < W
    BY <1>1, <1>4, <1>13 DEF TInv, Loaded
  <2>2. Harm = "no" /\ Harm' = "no"
    BY <2>1 DEF Harm
  <2>3. Pos = p /\ Pos' = Cell(0, t.row)
    BY <1>1, <1>3, <1>13, <2>1 DEF Pos, Position
  <2>4. Pos' = Promised!LineAfter(Promised!Wrap(Pos + Len(text)))
    BY <1>3, <2>1, <2>3 DEF Promised!Wrap, M
  <2>5. Promised!Message
    BY <1>5, <1>12, <2>2, <2>3, <2>4 DEF Promised!Message, Promised!Cells, Cells, Harm, Pos
  <2> QED
    BY <1>11, <2>5
<1>14. CASE pc # "idle"
  <2>1. clash' = TRUE
    BY <1>1, <1>14
  <2>2. Pos' = 0 /\ 0 \in Cells
    BY <2>1, PosOnScreen DEF OnScreen, Pos
  <2>3. Harm' \in (IF Harm = "no" THEN {"before", "after"} ELSE {Harm})
    BY <1>1, <1>4, <2>1 DEF Harm, Unwritten
  <2>4. Promised!Message
    BY <1>5, <1>12, <2>2, <2>3 DEF Promised!Message, Promised!Cells, Cells, Harm, Pos
  <2> QED
    BY <1>11, <2>4
<1> QED
  BY <1>13, <1>14

LEMMA TInvKept ==
  ASSUME TInv, [Next]_vars
  PROVE  TInv' /\ [Promised!Next]_seen
<1>1. CASE UNCHANGED vars
  <2>1. TInv'
    BY <1>1 DEF vars, TInv, CursorSafe, TypeOK, ColumnInLine, Loaded, InTouch
  <2>2. UNCHANGED seen
    BY <1>1 DEF vars, seen, Pos, Harm, Position, Unwritten
  <2> QED
    BY <2>1, <2>2
<1>2. CASE Next
  BY <1>2, BeginSteps, LoadRowSteps, StoreNewRowSteps, StoreNewColumnSteps, LoadColumnSteps,
     IncrementColumnSteps, PrintCharSteps, TestColumnSteps, StoreWrapColumnSteps,
     StoreWrapRowSteps, MessageSteps DEF Next, Task, Promised!Next
<1> QED
  BY <1>1, <1>2

(* Wherever a handler's message falls into terminal_put_char, the cursor   *)
(* stays on the screen and the column within the line, for a screen of any *)
(* size and messages of any length (termio.c:26-45, 56-66).                *)
THEOREM CursorStaysOnScreen == Spec => []CursorSafe
<1>1. TInv /\ [Next]_vars => TInv'
  BY TInvKept
<1>2. Spec => []TInv
  BY <1>1, TInvInit, PTL DEF Spec
<1> QED
  BY <1>2, PTL DEF TInv

(* The terminal is a teletype: each step of the code is a step of the      *)
(* abstract terminal or invisible to it, also when messages fall into the  *)
(* output of a character (termio.c:26-45, 56-66).                          *)
THEOREM TerminalIsTeletype == Spec => TeletypeSpec
<1>1. TInv /\ [Next]_vars => TInv' /\ [Promised!Next]_seen
  BY TInvKept
<1> QED
  BY <1>1, TInvInit, PTL DEF Spec, TeletypeSpec, Promised!Spec, seen, Pos, Harm
=============================================================================
