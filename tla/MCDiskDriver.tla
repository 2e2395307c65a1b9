---------------------------- MODULE MCDiskDriver ---------------------------
(***************************************************************************)
(* The driver with registers of two bits and sectors of three words:       *)
(* addresses that need every register, and counts up to the register's     *)
(* limit.                                                                  *)
(***************************************************************************)
EXTENDS DiskDriver

MCLbas == {0, 3, 6, 27, 63, 118}
=============================================================================
