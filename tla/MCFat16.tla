------------------------------ MODULE MCFat16 ------------------------------
(***************************************************************************)
(* Two files over five clusters of two sectors of two bytes, read through  *)
(* two descriptors.                                                        *)
(***************************************************************************)
EXTENDS Fat16, TLC

CONSTANTS f1, f2, d1, d2

MCFiles       == {f1, f2}
MCDescriptors == {d1, d2}
MCSymmetry    == Permutations(MCDescriptors)

(* A fragmented file beside a small one, one that runs backwards and stops *)
(* at the last cluster, and an empty one.                                  *)
MCLayouts     == {f1 :> <<3, 5, 2>> @@ f2 :> <<4>>,
                  f1 :> <<5, 3>>    @@ f2 :> <<2, 4>>,
                  f1 :> <<2, 3>>    @@ f2 :> <<>>}
MCSizes       == {0, 4, 5, 8, 9}
(* 3, 6, and 18 bytes, which is 2 in a word of 16 values. *)
MCRequests    == {<<1, 3>>, <<3, 2>>, <<6, 3>>}
=============================================================================
