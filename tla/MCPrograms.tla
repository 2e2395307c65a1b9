----------------------------- MODULE MCPrograms ----------------------------
(***************************************************************************)
(* The list and the buffer on four nodes and a buffer of three slots.      *)
(***************************************************************************)
EXTENDS Programs

CONSTANTS n1, n2, n3, n4

MCNodes == {n1, n2, n3, n4}
=============================================================================
