------------------------------ MODULE MCPaging ------------------------------
(* Paging for TLC: room for three processes, while a fourth runs out of       *)
(* mapped memory at one of its allocations.                                *)
EXTENDS Paging

MCCodeSizes == {1, 2, 3}
=============================================================================
