------------------------------- MODULE Ring --------------------------------
(***************************************************************************)
(* What the list of list.c promises, without pointers: a sequence of       *)
(* nodes, and the node last taken out of it until its owner frees it.      *)
(***************************************************************************)
EXTENDS SequencesExt

CONSTANTS Nodes,  \* node identities
          NULL    \* no node

VARIABLES seq,    \* the nodes from the head on
          held,   \* the node that was taken out and not yet freed
          call    \* the function called last, with its index

Init == seq = <<>> /\ held = NULL /\ call = <<"main">>

(* A new node comes to stand at place i, the nodes from i on move back. *)
Insert(i) ==
  /\ \E n \in Nodes \ (ToSet(seq) \union {held}) : seq' = InsertAt(seq, i, n)
  /\ held' = held

Take(i) == seq # <<>> /\ held = NULL /\ held' = seq[i] /\ seq' = RemoveAt(seq, i)

(* The sequence that starts at place i and goes once around. *)
From(s, i) == SubSeq(s, i, Len(s)) \o SubSeq(s, 1, i - 1)

Exchanged(s, i, j) == [s EXCEPT ![i] = s[j], ![j] = s[i]]

(* Two nodes change places; when the head is one of them, the list starts  *)
(* at the node that took its place, or still at the old head.              *)
Exchange(i, j) ==
  /\ \/ seq' = Exchanged(seq, i, j)
     \/ i = 1 /\ seq' = From(Exchanged(seq, i, j), j)
  /\ held' = held

Places == 1..Len(seq)

Next ==
  \/ call' = <<"push_back">>  /\ Insert(Len(seq) + 1)
  \/ call' = <<"push_front">> /\ Insert(1)
  \/ \E i \in Places \union {Len(seq) + 1} : call' = <<"push_index", i - 1>> /\ Insert(i)
  \/ call' = <<"pop_back">> /\ Take(Len(seq))
  \/ call' \in {<<"pop_front">>, <<"extract_node">>} /\ Take(1)
  \/ \E i \in Places : call' = <<"pop_index", i - 1>> /\ Take(i)
  \/ call' = <<"swap">> /\ \E i, j \in Places : Exchange(i, j)
  \/ call' = <<"free">> /\ held # NULL /\ held' = NULL /\ seq' = seq
  \/ call' = <<"delete_list">> /\ seq # <<>> /\ seq' = <<>> /\ held' = held

Spec == Init /\ [][Next]_<<seq, held, call>>
=============================================================================
