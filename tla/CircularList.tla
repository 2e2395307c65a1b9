---------------------------- MODULE CircularList ---------------------------
(***************************************************************************)
(* The doubly linked circular list of list.c: every function that changes  *)
(* it is an action, its stores in the order of the code.  A node stands    *)
(* for its payload as well, which is stored once, when the node is made.   *)
(* The caller of a function that takes a node out frees it, as main does.  *)
(* malloc is not tested in the code: pushes are bounded by Nodes, and the  *)
(* links of a node that is not allocated are never read.                   *)
(***************************************************************************)
EXTENDS Integers, FiniteSets, FiniteSetsExt

CONSTANTS Nodes, NULL

VARIABLES
  next, prev,  \* struct node
  list,        \* the head, NULL for the empty list
  live,        \* the nodes that are allocated
  held,        \* the node a caller took out and has not freed
  call,        \* the function called last, with its index
  torn         \* swap was called on a node and the one right before it

links == <<next, prev>>
vars  == <<next, prev, list, live, held, call, torn>>

Init ==
  /\ next = [n \in Nodes |-> n] /\ prev = [n \in Nodes |-> n]
  /\ list = NULL /\ live = {} /\ held = NULL
  /\ call = <<"main">> /\ torn = FALSE
-----------------------------------------------------------------------------
(* Walks. *)

(* The node i steps from the head, by next and by prev. *)
NextFrom[i \in 0..Cardinality(Nodes)] ==
  IF i = 0 THEN list ELSE next[NextFrom[i - 1]]

PrevFrom[i \in 0..Cardinality(Nodes)] ==
  IF i = 0 THEN list ELSE prev[PrevFrom[i - 1]]

(* The turns of `do ... while (list != ptr)': zero when the walk never     *)
(* comes back to the head.                                                 *)
Turns ==
  LET back == {i \in 1..Cardinality(Nodes) : NextFrom[i] = list}
  IN  IF list = NULL \/ back = {} THEN 0 ELSE Min(back)

(* What print_list and print_list_reverse show. *)
print_list == [k \in 1..Turns |-> NextFrom[k - 1]]
print_list_reverse == [k \in 1..Turns |-> PrevFrom[k]]

InList == {NextFrom[i] : i \in 0..(Turns - 1)}

find_index(i) == IF i < Turns THEN NextFrom[i] ELSE NULL
-----------------------------------------------------------------------------
(* Insertion. *)

malloc(n) ==
  /\ ~torn
  /\ n \in Nodes \ live
  /\ live' = live \union {n}
  /\ UNCHANGED <<held, torn>>

(* The links after n was put before the node p points to. *)
BUG_NoBackLink(p, n) ==
  IF p = NULL
  THEN next' = [next EXCEPT ![n] = n] /\ prev' = [prev EXCEPT ![n] = n]
  ELSE /\ next' = [next EXCEPT ![n] = p, ![prev[p]] = n]
       /\ prev' = [prev EXCEPT ![n] = prev[p]]

add_node_before(p, n) ==
  IF p = NULL
  THEN next' = [next EXCEPT ![n] = n] /\ prev' = [prev EXCEPT ![n] = n]
  ELSE /\ next' = [next EXCEPT ![n] = p, ![prev[p]] = n]
       /\ prev' = [prev EXCEPT ![n] = prev[p], ![p] = n]

push_back(n) ==
  /\ malloc(n) /\ call' = <<"push_back">>
  /\ add_node_before(list, n)
  /\ list' = IF list = NULL THEN n ELSE list

PushFront(n) == malloc(n) /\ add_node_before(list, n) /\ list' = n

push_front(n) == PushFront(n) /\ call' = <<"push_front">>

(* The loop ends on the node with the index, or on the head with i = len;  *)
(* an index beyond that, or any but 0 on the empty list, is refused.       *)
push_index(i, n) ==
  /\ IF i = 0 THEN PushFront(n)
     ELSE /\ list # NULL /\ i <= Turns
          /\ malloc(n)
          /\ add_node_before(NextFrom[i], n)
          /\ list' = list
  /\ call' = <<"push_index", i>>
-----------------------------------------------------------------------------
(* Removal. *)

(* The links after the node p was unlinked; it is left linked to itself. *)
extract(p) ==
  IF next[p] = p THEN UNCHANGED links
  ELSE /\ next' = [next EXCEPT ![prev[p]] = next[p], ![p] = p]
       /\ prev' = [prev EXCEPT ![next[p]] = prev[p], ![p] = p]

TakeOut(p) == ~torn /\ held = NULL /\ held' = p /\ extract(p) /\ UNCHANGED <<live, torn>>

(* The head after it was itself extracted: the next node, if there is one. *)
BUG_StaleHead == list
HeadExtracted == IF next[list] = list THEN NULL ELSE next[list]

extract_node ==
  /\ list # NULL /\ TakeOut(list) /\ list' = HeadExtracted
  /\ call' = <<"extract_node">>

(* extract_node gets the head itself only when it is the one node left. *)
pop_back ==
  /\ list # NULL /\ call' = <<"pop_back">>
  /\ LET ptr == prev[list] IN
       TakeOut(ptr) /\ list' = IF next[ptr] = ptr THEN NULL ELSE list

(* The head moves on, and what is now last is popped. *)
pop_front ==
  /\ list # NULL /\ call' = <<"pop_front">>
  /\ LET head == next[list]
         ptr  == prev[head]
     IN  TakeOut(ptr) /\ list' = IF next[ptr] = ptr THEN NULL ELSE head

pop_index(i) ==
  /\ list # NULL /\ find_index(i) # NULL /\ call' = <<"pop_index", i>>
  /\ TakeOut(find_index(i))
  /\ list' = IF find_index(i) = list THEN HeadExtracted ELSE list

free_if_not_null ==
  /\ held # NULL /\ call' = <<"free">>
  /\ held' = NULL /\ live' = live \ {held}
  /\ UNCHANGED <<next, prev, list, torn>>

(* Every node of one turn is freed, its successor having been read before. *)
Deleted == InList

delete_list ==
  /\ ~torn /\ list # NULL /\ call' = <<"delete_list">>
  /\ live' = live \ Deleted
  /\ list' = NULL
  /\ UNCHANGED <<next, prev, held, torn>>
-----------------------------------------------------------------------------
(* Exchange of two nodes. *)

(* The stores of swap(&n1, &n2), of which a and b are the nodes: reads see *)
(* the stores before them, which may be to the same nodes.                 *)
Swapped(a, b) ==
  LET n1_prev == prev[a]
      n2_next == next[b]
      nx == [next EXCEPT ![n1_prev] = b]
      pv == [prev EXCEPT ![n2_next] = a]
      adjacent == nx[a] = b \/ pv[a] = b
      pv1 == [pv EXCEPT ![nx[a]] = b]
      nx1 == [nx EXCEPT ![pv1[b]] = a]
      pv2 == IF adjacent THEN [pv EXCEPT ![a] = b] ELSE [pv1 EXCEPT ![a] = pv1[b]]
      nx2 == IF adjacent THEN [nx EXCEPT ![b] = a] ELSE [nx1 EXCEPT ![b] = nx1[a]]
  IN  next' = [nx2 EXCEPT ![a] = n2_next] /\ prev' = [pv2 EXCEPT ![b] = n1_prev]

(* The pointers that were passed change too: the head moves when it was    *)
(* passed itself, and stays with its node when another pointer was.        *)
swap(a, b) ==
  /\ ~torn
  /\ a \in InList /\ b \in InList /\ call' = <<"swap">>
  /\ Swapped(a, b)
  /\ \/ list' = list
     \/ list = a /\ list' = b
     \/ list = b /\ list' = a
  /\ torn' = (a # b /\ prev[a] = b)
  /\ UNCHANGED <<live, held>>

(* The model ends where swap tears the ring.  In the code the functions    *)
(* with a loop do not come back from such a ring; those without one        *)
(* (push_back, push_front, extract_node, pop_back, pop_front, swap) go on  *)
(* with its broken links, and nothing is claimed of what they then do.     *)
Hang == torn /\ UNCHANGED vars
-----------------------------------------------------------------------------
Index == 0..Cardinality(Nodes)

Next ==
  \/ \E n \in Nodes : push_back(n) \/ push_front(n) \/ \E i \in Index : push_index(i, n)
  \/ extract_node \/ pop_back \/ pop_front
  \/ \E i \in Index : pop_index(i)
  \/ free_if_not_null
  \/ delete_list
  \/ \E a, b \in Nodes : swap(a, b)
  \/ Hang

Spec == Init /\ [][Next]_vars
-----------------------------------------------------------------------------
TypeOK ==
  /\ next \in [Nodes -> Nodes] /\ prev \in [Nodes -> Nodes]
  /\ list \in Nodes \union {NULL} /\ held \in Nodes \union {NULL}
  /\ live \subseteq Nodes /\ torn \in BOOLEAN

(* The walk from the head comes back to it both ways and meets the same    *)
(* nodes in opposite orders (print_list, print_list_reverse), after any    *)
(* sequence of insertions, removals and exchanges, exactly until swap is   *)
(* called on a node and the one right before it: that links nodes to       *)
(* themselves, also in every list of two nodes.                            *)
WalksAgree ==
  list # NULL =>
    (~torn <=> /\ Turns > 0
               /\ \A k \in 1..Turns : print_list_reverse[k] = print_list[Turns + 1 - k])

(* Every allocated node is in the list, once, or in the hands of a caller, *)
(* and no node of the list was freed: main's frees after each removal and  *)
(* delete_list leave nothing behind and free nothing twice.                *)
NothingLost ==
  ~torn => /\ live = InList \union ({held} \ {NULL})
           /\ held \notin InList

Shown == INSTANCE Ring WITH seq <- print_list

(* list.c implements a sequence, with indices counted from the head: what  *)
(* each function inserts, removes or exchanges is what its name says.      *)
ListSpec == Shown!Init /\ [][torn' \/ Shown!Next]_<<print_list, held, call>>
=============================================================================
