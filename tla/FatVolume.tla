----------------------------- MODULE FatVolume -----------------------------
(***************************************************************************)
(* The geometry of a FAT16 volume as fs/fat16.c computes it: sectors,      *)
(* clusters, byte addresses on the disk and the values of a FAT entry.     *)
(***************************************************************************)
EXTENDS Integers

CONSTANTS
  SectorSize,          \* DISK_SECTOR_SIZE, and the header's bytes_per_sector
  SectorsPerCluster,   \* sectors_per_cluster
  ReservedSectors,     \* reserved_sectors: the FAT starts here
  DataSector,          \* data_sector: cluster 2 starts here
  MaxCluster           \* the last cluster of the volume

(* The 16-bit values of a FAT entry that are no cluster (fat16.h). *)
FREE     == 0
RESERVED == 65526
BAD      == 65527
END      == 65528      \* FAT16_CLUSTER_CHAIN_END_BEGIN

ASSUME VolumeAssumption ==
  /\ SectorSize \in Nat \ {0} /\ SectorsPerCluster \in Nat \ {0}
  /\ ReservedSectors \in Nat \ {0}
  /\ DataSector \in Nat /\ DataSector > ReservedSectors
  /\ MaxCluster \in 2..(RESERVED - 1)

Clusters == 2..MaxCluster

bytes_per_cluster == SectorSize * SectorsPerCluster

fat16_cluster_number_to_data_sector(cluster) ==
  IF cluster < 2 THEN 0 ELSE DataSector + (cluster - 2) * SectorsPerCluster

fat16_sector_to_cluster_number(sector) ==
  2 + (sector - DataSector) \div SectorsPerCluster

(* Where the FAT entry of a cluster lies; an entry has two bytes. *)
FatAddress(cluster) == ReservedSectors * SectorSize + cluster * 2
FatEntrySize        == 2

(* fat16_read_fat over the FAT on the disk. *)
fat16_read_fat(fat, cluster) == IF cluster >= END THEN END ELSE fat[cluster]

Lesser(a, b) == IF a < b THEN a ELSE b
=============================================================================
