------------------------------ MODULE Programs -----------------------------
(***************************************************************************)
(* The two programs that are kept beside the kernel, the circular list of  *)
(* list.c and the buffer of buffer.c.  Each runs alone: a behaviour is a   *)
(* behaviour of one of them, chosen at the start.                          *)
(***************************************************************************)
EXTENDS RingBuffer, FiniteSets

CONSTANT Nodes

ASSUME NodesAssumption == IsFiniteSet(Nodes) /\ NULL \notin Nodes

VARIABLES program, next, prev, list, live, held, call, torn

List  == INSTANCE CircularList
lvars == <<next, prev, list, live, held, call, torn>>

ProgramInit ==
  /\ program \in {"list", "buffer"}
  /\ init
  /\ List!Init

ProgramNext ==
  \/ program = "list" /\ List!Next /\ UNCHANGED <<program, bvars>>
  \/ program = "buffer" /\ BufferNext /\ UNCHANGED <<program, lvars>>

ProgramSpec == ProgramInit /\ [][ProgramNext]_<<program, bvars, lvars>>

(* Both structures are whole after any sequence of calls: the buffer's     *)
(* head, end and count agree; the list's walks come back both ways, and no *)
(* node is lost or freed twice (buffer.c:31-53, list.c:14-274).            *)
StructuresSound ==
  /\ BufferTypeOK /\ IndicesAgree
  /\ List!TypeOK /\ List!WalksAgree /\ List!NothingLost

(* list.c implements a sequence (stated in CircularList). *)
ListSpec == List!ListSpec
=============================================================================
