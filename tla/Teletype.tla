------------------------------ MODULE Teletype -----------------------------
(***************************************************************************)
(* What the terminal promises: one position that runs through the cells of *)
(* the screen, in reading order, and starts over at the top.  A character  *)
(* goes to the cell at the position; a message of an interrupt handler     *)
(* goes to consecutive cells.  When a message falls into the output of a   *)
(* character, that character may land in any one cell and the position is  *)
(* anyone's guess until the output is over.                                *)
(***************************************************************************)
EXTENDS Integers, Sequences

CONSTANTS Width, Height, Glyphs, Texts

VARIABLES screen, pos,
          clash   \* a message fell into the output of a character, before
                  \* or after the cell was written; "no" when none did

Cells == 0..(Width * Height - 1)

Init == screen \in [Cells -> Glyphs] /\ pos = 0 /\ clash = "no"

Wrap(p) == p % (Width * Height)

LineAfter(p) == Wrap((p \div Width + 1) * Width)

(* The screen after the glyphs of text were written from cell p on. *)
Written(text, p) ==
  [c \in Cells |-> LET at == {k \in 1..Len(text) : Wrap(p + k - 1) = c} IN
     IF at = {} THEN screen[c] ELSE text[CHOOSE k \in at : \A j \in at : j <= k]]

Char ==
  /\ clash = "no"
  /\ \E g \in Glyphs : screen' = [screen EXCEPT ![pos] = g]
  /\ pos' = Wrap(pos + 1) /\ clash' = clash

NewLine == clash = "no" /\ pos' = LineAfter(pos) /\ UNCHANGED <<screen, clash>>

(* A handler prints a text and a newline. *)
Message ==
  \E text \in Texts, p \in Cells :
    /\ screen' = Written(text, p)
    /\ \/ /\ clash = "no" /\ clash' = "no"
          /\ p = pos /\ pos' = LineAfter(Wrap(pos + Len(text)))
       \/ /\ clash' \in (IF clash = "no" THEN {"before", "after"} ELSE {clash})
          /\ pos' \in Cells

(* The rest of the output that was interrupted. *)
Stray ==
  /\ \/ /\ clash = "before" /\ clash' \in {"after", "no"}
        /\ \E c \in Cells, g \in Glyphs : screen' = [screen EXCEPT ![c] = g]
     \/ clash # "no" /\ clash' = "no" /\ screen' = screen
  /\ pos' \in Cells

Next == Char \/ NewLine \/ Message \/ Stray

Spec == Init /\ [][Next]_<<screen, pos, clash>>
=============================================================================
