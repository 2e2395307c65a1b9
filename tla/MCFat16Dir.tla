----------------------------- MODULE MCFat16Dir -----------------------------
(***************************************************************************)
(* Volumes with a root of four entries, or of as many as the header of     *)
(* boot/fat16_header.inc declares, and one subdirectory of two entries.    *)
(***************************************************************************)
EXTENDS Fat16Dir, TLC

CONSTANTS root, sub, n, m

MCDirs  == {root, sub}
MCNames == {n, m}
MCPaths == {<<>>, <<n>>, <<n, m>>}

Skip(x)  == [kind |-> "skip", name |-> x, to |-> FILE]
Last(x)  == [kind |-> "end", name |-> x, to |-> FILE]
File(x)  == [kind |-> "file", name |-> x, to |-> FILE]
Dir(x)   == [kind |-> "dir", name |-> x, to |-> sub]

(* Any root of four entries, and a subdirectory that is full or ends. *)
SmallRoot  == [1..4 -> {Skip(n), Last(m), File(n), File(m), Dir(n)}]
SmallSub   == {<<File(n), File(m)>>, <<Skip(m), Last(m)>>}
MCVolumes  == {root :> r @@ sub :> s : r \in SmallRoot, s \in SmallSub}

(* A root of 64 entries, one of which is the file asked for. *)
MCFullRoot ==
  {root :> [[k \in 1..64 |-> File(m)] EXCEPT ![i] = File(n)] @@ sub :> <<Last(n), Last(n)>> :
     i \in 1..64}
=============================================================================
