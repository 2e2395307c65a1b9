------------------------------- MODULE Termio ------------------------------
(***************************************************************************)
(* The text terminal, termio/termio.c.  Its row and column are shared by   *)
(* the system task, which prints with interrupts on, and the interrupt     *)
(* handlers, which print with interrupts off: every load and store of      *)
(* terminal_put_char is a step of the task, and a handler's whole message  *)
(* can fall between any two of them.  The arguments of the call at line 39 *)
(* are evaluated in an unspecified order: the row may be loaded before,    *)
(* between or after the load and the store of the column.                  *)
(***************************************************************************)
EXTENDS Integers, Sequences

CONSTANTS
  VGA_WIDTH, VGA_HEIGHT,
  Glyphs,   \* characters, blank among them
  Blank,
  NL,       \* the newline character
  Texts     \* what interrupt handlers print, newline excepted

ASSUME TermioAssumption ==
  /\ VGA_WIDTH \in Nat \ {0} /\ VGA_HEIGHT \in Nat \ {0}
  /\ Blank \in Glyphs /\ NL \notin Glyphs
  /\ \A text \in Texts : text \in Seq(Glyphs)

VARIABLES
  video_memory, terminal_row, terminal_column,
  pc,       \* where the task is in terminal_put_char
  char,     \* its argument
  row, col, \* what it loaded; None before
  clash     \* a handler printed since the call began

vars == <<video_memory, terminal_row, terminal_column, pc, char, row, col, clash>>

Cells == 0..(VGA_WIDTH * VGA_HEIGHT - 1)
None  == -1

(* terminal_init *)
Init ==
  /\ video_memory = [c \in Cells |-> Blank]
  /\ terminal_row = 0 /\ terminal_column = 0
  /\ pc = "idle" /\ char = Blank /\ row = None /\ col = None /\ clash = FALSE

Cell(x, y) == (y * VGA_WIDTH + x) % (VGA_HEIGHT * VGA_WIDTH)

RowAfter(y) == (y + 1) % VGA_HEIGHT
-----------------------------------------------------------------------------
(* terminal_put_char of the task, one memory access after the other. *)

Goto(label) == pc' = label /\ UNCHANGED <<char, clash>>

Return ==
  /\ pc' = "idle" /\ char' = Blank /\ row' = None /\ col' = None /\ clash' = FALSE

terminal_put_char(c) ==
  /\ pc = "idle"
  /\ pc' = (IF c = NL THEN "newline" ELSE "args") /\ char' = c
  /\ UNCHANGED <<video_memory, terminal_row, terminal_column, row, col, clash>>

LoadRow ==
  /\ pc \in {"newline", "wrap", "args", "increment", "incremented"} /\ row = None
  /\ row' = terminal_row
  /\ UNCHANGED <<video_memory, terminal_row, terminal_column, pc, char, col, clash>>

StoreNewRow ==
  /\ pc = "newline" /\ row # None
  /\ terminal_row' = RowAfter(row)
  /\ Goto("newline_column")
  /\ UNCHANGED <<video_memory, terminal_column, row, col>>

StoreNewColumn ==
  /\ pc = "newline_column"
  /\ terminal_column' = 0
  /\ Return
  /\ UNCHANGED <<video_memory, terminal_row>>

LoadColumn ==
  /\ pc = "args"
  /\ col' = terminal_column
  /\ Goto("increment")
  /\ UNCHANGED <<video_memory, terminal_row, terminal_column, row>>

IncrementColumn ==
  /\ pc = "increment"
  /\ terminal_column' = col + 1
  /\ Goto("incremented")
  /\ UNCHANGED <<video_memory, terminal_row, row, col>>

terminal_print_char_x_y ==
  /\ pc = "incremented" /\ row # None
  /\ video_memory' = [video_memory EXCEPT ![Cell(col, row)] = char]
  /\ row' = None /\ col' = None
  /\ Goto("test")
  /\ UNCHANGED <<terminal_row, terminal_column>>

BUG_TestPast(column) == column = VGA_WIDTH + 1
AtMargin(column) == column = VGA_WIDTH

TestColumn ==
  /\ pc = "test"
  /\ \/ AtMargin(terminal_column) /\ Goto("wrap_column") /\ UNCHANGED <<row, col>>
     \/ ~AtMargin(terminal_column) /\ Return
  /\ UNCHANGED <<video_memory, terminal_row, terminal_column>>

StoreWrapColumn ==
  /\ pc = "wrap_column"
  /\ terminal_column' = 0
  /\ Goto("wrap")
  /\ UNCHANGED <<video_memory, terminal_row, row, col>>

StoreWrapRow ==
  /\ pc = "wrap" /\ row # None
  /\ terminal_row' = RowAfter(row)
  /\ Return
  /\ UNCHANGED <<video_memory, terminal_column>>
-----------------------------------------------------------------------------
(* print in an interrupt handler: terminal_put_char for each character,    *)
(* with nothing in between.                                                *)

PutChar(t, c) ==
  IF c = NL THEN [t EXCEPT !.row = RowAfter(t.row), !.col = 0]
  ELSE LET wrap == AtMargin(t.col + 1) IN
       [ screen |-> [t.screen EXCEPT ![Cell(t.col, t.row)] = c],
         col    |-> IF wrap THEN 0 ELSE t.col + 1,
         row    |-> IF wrap THEN RowAfter(t.row) ELSE t.row ]

(* Every message of a handler that returns ends with a newline. *)
BUG_NoNewline(text) == text
Line(text) == Append(text, NL)

(* The terminal after the characters of line, one after the other. *)
Printed(terminal, line) ==
  LET t[k \in 0..Len(line)] == IF k = 0 THEN terminal ELSE PutChar(t[k - 1], line[k])
  IN  t[Len(line)]

print(text) ==
  LET t == Printed([screen |-> video_memory, row |-> terminal_row, col |-> terminal_column],
                   Line(text))
  IN  /\ video_memory' = t.screen /\ terminal_row' = t.row /\ terminal_column' = t.col
      /\ clash' = (pc # "idle")
      /\ UNCHANGED <<pc, char, row, col>>
-----------------------------------------------------------------------------
Task ==
  \/ \E c \in Glyphs \union {NL} : terminal_put_char(c)
  \/ LoadRow \/ StoreNewRow \/ StoreNewColumn
  \/ LoadColumn \/ IncrementColumn \/ terminal_print_char_x_y
  \/ TestColumn \/ StoreWrapColumn \/ StoreWrapRow

Next == Task \/ \E text \in Texts : print(text)

Spec == Init /\ [][Next]_vars
-----------------------------------------------------------------------------
TypeOK ==
  /\ video_memory \in [Cells -> Glyphs]
  /\ terminal_row \in 0..(VGA_HEIGHT - 1) /\ terminal_column \in Nat
  /\ pc \in {"idle", "newline", "newline_column", "args", "increment",
             "incremented", "test", "wrap_column", "wrap"}
  /\ char \in Glyphs \union {NL} /\ clash \in BOOLEAN
  /\ row \in 0..(VGA_HEIGHT - 1) \union {None} /\ col \in Nat \union {None}

(* The wrap of terminal_put_char happens only when the column equals       *)
(* VGA_WIDTH exactly: it would never happen again once the column got past *)
(* it.  A handler that comes between the increment and the test does step  *)
(* over it, but leaves column 0 behind with its newline, and what the task *)
(* stores later was loaded left of the margin: the column stays within the *)
(* line, and outside of terminal_put_char left of the margin.              *)
ColumnInLine ==
  /\ terminal_column <= VGA_WIDTH
  /\ terminal_column = VGA_WIDTH => pc \in {"incremented", "test", "wrap_column"}

(* No store of the task or of a handler, in any order, takes the cursor or *)
(* a character off the screen (termio.c:26-45).                            *)
CursorSafe == TypeOK /\ ColumnInLine

(* The teletype's position.  The output of a character takes effect when   *)
(* the cell is written, a newline and a wrap when the row is.              *)
Position ==
  CASE pc = "incremented"    -> Cell(terminal_column - 1, terminal_row)
    [] pc = "newline_column" -> Cell(0, terminal_row)
    [] pc = "wrap"           -> Cell(0, RowAfter(terminal_row))
    [] OTHER                 -> Cell(terminal_column, terminal_row)

Unwritten == pc \in {"newline", "args", "increment", "incremented"}

Promised == INSTANCE Teletype WITH
              Width <- VGA_WIDTH, Height <- VGA_HEIGHT,
              screen <- video_memory, pos <- IF clash THEN 0 ELSE Position,
              clash <- IF ~clash THEN "no" ELSE IF Unwritten THEN "before" ELSE "after"

(* The terminal is a teletype, and a message that falls into the output of *)
(* a character does no other harm than to misplace that one character and  *)
(* the text after it: the message goes whole to consecutive cells, no      *)
(* other cell is lost, and printing goes on at some cell of the screen.    *)
TeletypeSpec == Promised!Spec
=============================================================================
