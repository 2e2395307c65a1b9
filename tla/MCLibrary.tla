----------------------------- MODULE MCLibrary -----------------------------
(***************************************************************************)
(* Buffers of nine bytes, so that two dwords and a byte are reached, ints  *)
(* of eight bits, and paths beyond MAX_PATH_LEN.                           *)
(***************************************************************************)
EXTENDS Library

(* Paths: everything short, and a valid beginning followed by every text   *)
(* of slashes, dots, blanks and a letter.                                  *)
Spelt(S, n) == UNION {[1..k -> S] : k \in 0..n}
MCPaths == Spelt({48, COLON, SLASH, 65}, 4)
           \union {<<48, COLON, SLASH>> \o s : s \in Spelt({SLASH, DOT, SPACE, 65}, 5)}
           \union {<<48, COLON, SLASH>> \o s : s \in Spelt({SLASH, 65}, 6)}

MCOld     == [k \in 1..9 |-> k]
MCSource  == [k \in 1..9 |-> 100 + k]
MCTexts   == Spelt({65, 200}, 3) \union {<<66, 65>>, SubSeq(MCSource, 1, 8), MCSource}
MCNumbers == (-IntHalf)..(2 * IntHalf - 1)
MCBases   == {0, 27, 228, Short * Short - 1}
MCLimits  == 0..(Short * Short - 1)
=============================================================================
