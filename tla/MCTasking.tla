----------------------------- MODULE MCTasking -----------------------------
(***************************************************************************)
(* The system task, the idle task and three programs; two lines of the     *)
(* slave PIC, the real-time clock's and the disk's.                        *)
(***************************************************************************)
EXTENDS Tasking

MCSlaveIRQs == {8, 14}
=============================================================================
