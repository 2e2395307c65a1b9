------------------------------ MODULE MCTermio -----------------------------
(***************************************************************************)
(* The terminal on a screen of two lines of three cells: a text of one     *)
(* glyph and one that fills the line, tasks' output marked apart from      *)
(* handlers'.                                                              *)
(***************************************************************************)
EXTENDS Termio

CONSTANTS x, m, newline

MCTexts == {<<m>>, <<m, m, m, m>>}
=============================================================================
