SPECIFICATION Spec
CONSTANTS
  x = x
  m = m
  newline = newline
  VGA_WIDTH = 3
  VGA_HEIGHT = 2
  Blank = blank
  NL = newline
  Glyphs = {x, m, blank}
  Texts <- MCTexts
INVARIANT CursorSafe
PROPERTY TeletypeSpec
