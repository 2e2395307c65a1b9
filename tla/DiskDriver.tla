----------------------------- MODULE DiskDriver ----------------------------
(***************************************************************************)
(* The ATA driver, disk/disk.c: disk_read_sector programs the registers of *)
(* the primary channel, polls for data and takes it word by word, while    *)
(* the drive works on its own.  The drive (external) is what the ATA       *)
(* protocol makes it: busy until a sector is in its buffer, then           *)
(* requesting data until the buffer is empty; it may fail instead and      *)
(* reports that with ERR, neither busy nor requesting data.                *)
(***************************************************************************)
EXTENDS Integers, Sequences

CONSTANTS
  Base,            \* the values of an 8-bit register, 256
  HeadValues,      \* what drive_head has room for beside the drive's flags, 16
  WordsPerSector,  \* 256
  Lbas,            \* sectors that are read
  Counts           \* how many at once; the kernel only uses 1

ASSUME DiskAssumption ==
  /\ Base \in Nat \ {0} /\ WordsPerSector \in Nat \ {0}
  /\ Lbas \subseteq Nat /\ Counts \subseteq 1..Base
  (* Else the address would run into the drive's flags. *)
  /\ \A address \in Lbas : address \div (Base * Base * Base) < HeadValues

VARIABLES
  phase, lba, n, block, i,  \* disk_read_sector
  buf,                      \* what it stored, word after word
  busy, drq, err,           \* the drive's status register
  sector, left, offset      \* sector in the drive's buffer, sectors left, next word

driver    == <<phase, lba, n, block, i, buf>>
status    == <<busy, drq, err>>
drive     == <<sector, left, offset>>
disk_vars == <<driver, status, drive>>

DiskInit ==
  /\ phase = "idle" /\ lba = 0 /\ n = 0 /\ block = 0 /\ i = 0 /\ buf = <<>>
  /\ busy = FALSE /\ drq = FALSE /\ err = FALSE
  /\ sector = 0 /\ left = 0 /\ offset = 0
-----------------------------------------------------------------------------
(* The driver. *)

(* The address and count registers, a byte each. *)
BUG_NoHigh(address) ==
  [ drive_head    |-> address \div (Base * Base * Base),
    sector_number |-> address % Base,
    cylinder_low  |-> (address \div Base) % Base,
    cylinder_high |-> 0 ]

AddressRegisters(address) ==
  [ drive_head    |-> address \div (Base * Base * Base),
    sector_number |-> address % Base,
    cylinder_low  |-> (address \div Base) % Base,
    cylinder_high |-> (address \div (Base * Base)) % Base ]

sector_count(count) == count % Base

(* What the drive makes of the registers; count 0 stands for 256. *)
Addressed(r) ==
  ((r.drive_head * Base + r.cylinder_high) * Base + r.cylinder_low) * Base + r.sector_number

Counted(c) == IF c = 0 THEN Base ELSE c

(* Up to the command ATA_COMMAND_READ_SECTORS.  The test for -ENOMEDIUM    *)
(* never holds: disk_get hands out &disks[0] and nothing else.             *)
disk_read_block(address, count) ==
  /\ phase = "idle"
  /\ phase' = "poll" /\ lba' = address /\ n' = count
  /\ block' = 0 /\ i' = 0 /\ buf' = <<>>
  /\ IF ~busy /\ ~drq
     THEN /\ busy' = TRUE
          /\ sector' = Addressed(AddressRegisters(address))
          /\ left' = Counted(sector_count(count))
     ELSE UNCHANGED <<busy, sector, left>>
  /\ UNCHANGED <<drq, err, offset>>

DataReady == ~busy /\ drq

Poll ==
  /\ phase = "poll"
  /\ phase' = IF DataReady THEN "data" ELSE "poll"
  /\ UNCHANGED <<lba, n, block, i, buf, status, drive>>

BUG_OneBlockMore(b) == b <= n
MoreBlocks(b) == b < n

MoreWords(k) == k < WordsPerSector

(* insw takes a word out of the drive's buffer; the drive withdraws its    *)
(* request with the last one and is busy with the next sector, or with     *)
(* ending the command.                                                     *)
insw ==
  /\ phase = "data"
  /\ buf' = Append(buf, IF drq THEN <<sector, offset>> ELSE <<>>)
  /\ IF MoreWords(i + 1) THEN i' = i + 1 /\ UNCHANGED <<block, phase>>
     ELSE /\ i' = 0 /\ block' = block + 1
          /\ phase' = IF MoreBlocks(block + 1) THEN "poll" ELSE "settle"
  /\ IF drq /\ offset + 1 = WordsPerSector
     THEN /\ drq' = FALSE /\ busy' = TRUE
          /\ offset' = 0 /\ left' = left - 1 /\ sector' = sector + 1
     ELSE /\ offset' = IF drq THEN offset + 1 ELSE offset
          /\ UNCHANGED <<drq, busy, left, sector>>
  /\ UNCHANGED <<lba, n, err>>

Settled == ~busy

(* The last loop reads the alternate status. *)
Settle ==
  /\ phase = "settle"
  /\ phase' = IF Settled THEN "idle" ELSE "settle"
  /\ UNCHANGED <<lba, n, block, i, buf, status, drive>>
-----------------------------------------------------------------------------
(* The drive. *)

SectorRead ==
  /\ busy /\ left > 0
  /\ busy' = FALSE /\ drq' = TRUE
  /\ UNCHANGED <<driver, err, drive>>

CommandEnds ==
  /\ busy /\ left = 0
  /\ busy' = FALSE
  /\ UNCHANGED <<driver, drq, err, drive>>

Fails ==
  /\ busy /\ left > 0
  /\ busy' = FALSE /\ err' = TRUE
  /\ UNCHANGED <<driver, drq, drive>>
-----------------------------------------------------------------------------
Driver == Poll \/ insw \/ Settle
Drive  == SectorRead \/ CommandEnds \/ Fails

DiskNext ==
  \/ \E address \in Lbas, count \in Counts : disk_read_block(address, count)
  \/ Driver
  \/ Drive

(* The processor executes the loops, and the drive answers a command, with *)
(* data or with an error.                                                  *)
DiskSpec ==
  DiskInit /\ [][DiskNext]_disk_vars /\ WF_disk_vars(Driver) /\ WF_disk_vars(Drive)
-----------------------------------------------------------------------------
DiskTypeOK ==
  /\ phase \in {"idle", "poll", "data", "settle"}
  /\ n \in {0} \union Counts /\ lba \in {0} \union Lbas
  /\ block \in 0..n /\ i \in 0..(WordsPerSector - 1)
  /\ busy \in BOOLEAN /\ drq \in BOOLEAN /\ err \in BOOLEAN
  /\ left \in 0..Base /\ offset \in 0..(WordsPerSector - 1) /\ sector \in Nat

(* What has been stored is, word for word, the beginning of the sectors    *)
(* that were asked for, and all of them when disk_read_sector returns: the *)
(* four address registers and the count, the end of a sector in the middle *)
(* of a command, and a count of 256, which the register holds as 0.        *)
SectorsExact ==
  /\ \A k \in 1..Len(buf) :
       buf[k] = <<lba + (k - 1) \div WordsPerSector, (k - 1) % WordsPerSector>>
  /\ phase \in {"settle", "idle"} => Len(buf) = n * WordsPerSector

(* When the driver returns, the drive has ended the command: the next one  *)
(* is not written to a busy drive, which would ignore it.                  *)
DriveReleased == phase = "idle" => ~busy /\ ~drq

(* disk_read_sector returns what was asked for, to the word, and leaves a  *)
(* drive that takes the next command (disk.c:25-60).                       *)
ReadsSafe == DiskTypeOK /\ SectorsExact /\ DriveReleased

(* A read returns unless the drive reports an error, which the loop at     *)
(* line 39 does not look at: it then polls for ever.                       *)
ReadEnds == phase # "idle" ~> (phase = "idle" \/ err)
=============================================================================
