------------------------------ MODULE MCFiles ------------------------------
(***************************************************************************)
(* Files on a table of three slots and five FILE addresses: the table      *)
(* fills, an fopen fails with -EMFILE, and freed addresses are used again. *)
(***************************************************************************)
EXTENDS Files

CONSTANTS a1, a2, a3, a4, a5

MCAddresses == {a1, a2, a3, a4, a5}
=============================================================================
