----------------------------- MODULE PathParser ----------------------------
(***************************************************************************)
(* pathparser_path_parse and pathparse_path_free, fs/path_parser.c, and    *)
(* what fat16.c makes of a part: fat16_split_entry_name and the comparison *)
(* with a directory entry in fat16_find_entry_in_dir.  One action per turn *)
(* of the parser's loop.  kzalloc succeeds for the first `memory' requests *)
(* of a parse and fails from then on; the code tests only the first        *)
(* result.  Characters are ASCII codes, a pointer into the path an index.  *)
(***************************************************************************)
EXTENDS CString, SequencesExt

CONSTANTS
  MAX_PATH_LEN,
  Paths,             \* strings that are parsed
  MaxMemory,         \* bound on `memory'
  NameLen, ExtLen,   \* the widths of an entry's fields, 8 and 3
  Letters            \* characters of the names in directories

VARIABLES
  pc, path,
  path_ptr,
  parts,             \* the parts that can be reached from path_root.first
  memory,            \* requests kzalloc can still serve
  blocks,            \* blocks the parser holds
  low                \* kzalloc returned NULL and was written through

vars == <<pc, path, path_ptr, parts, memory, blocks, low>>

COLON == 58
SLASH == 47
DOT   == 46
SPACE == 32

(* Characters are not NUL, and a drive with a colon and a slash fits. *)
ASSUME ParserAssumption ==
  /\ MAX_PATH_LEN \in Nat /\ MAX_PATH_LEN >= 3
  /\ Paths \subseteq Seq(1..255)
  /\ MaxMemory \in Nat
  /\ NameLen \in Nat \ {0} /\ ExtLen \in Nat \ {0}
  /\ Letters \subseteq (1..255) \ {SLASH, DOT, SPACE}

path_end == strnlen(path, MAX_PATH_LEN) + 1

pathparser_path_is_valid(p) ==
  /\ strnlen(p, MAX_PATH_LEN) >= 3
  /\ is_digit(p[1])
  /\ memcmp(<<COLON, SLASH>>, SubSeq(p, 2, 3), 2) = 0

Init ==
  /\ pc = "idle" /\ path = <<>> /\ path_ptr = 1 /\ parts = <<>>
  /\ memory = 0 /\ blocks = 0 /\ low = FALSE

(* The call, up to the loop; it returns NULL for an invalid path and when  *)
(* there is no memory for the root.                                        *)
pathparser_path_parse(p, budget) ==
  /\ pc = "idle"
  /\ path' = p /\ path_ptr' = 4 /\ parts' = <<>> /\ low' = FALSE
  /\ IF pathparser_path_is_valid(p) /\ budget > 0
     THEN pc' = "loop" /\ memory' = budget - 1 /\ blocks' = 1
     ELSE pc' = "null" /\ memory' = budget /\ blocks' = 0

BUG_WithSlash ==
  LET slash == memchr(SubSeq(path, path_ptr, path_end - 1), SLASH, path_end - path_ptr)
  IN  IF slash # 0 THEN slash ELSE path_end - path_ptr

(* The length of the part at path_ptr: up to the next slash or the end. *)
part_len ==
  LET slash == memchr(SubSeq(path, path_ptr, path_end - 1), SLASH, path_end - path_ptr)
  IN  IF slash # 0 THEN slash - 1 ELSE path_end - path_ptr

(* The part is linked to the list only through the segment that kzalloc    *)
(* gave for it; without one the part is written to address 0 and the next  *)
(* segment to a field of a structure there.                                *)
ParsePart ==
  /\ pc = "loop" /\ path_ptr <= path_end /\ part_len # 0
  /\ LET segment == memory >= 1
         part    == memory >= 2
     IN  /\ parts' = IF ~segment THEN parts
                     ELSE Append(parts, IF part THEN SubSeq(path, path_ptr, path_ptr + part_len - 1)
                                        ELSE <<>>)
         /\ memory' = IF part THEN memory - 2 ELSE 0
         /\ blocks' = blocks + memory - memory'
         /\ low' = (low \/ ~part)
  /\ path_ptr' = path_ptr + part_len + 1
  /\ UNCHANGED <<pc, path>>

ParseEnds ==
  /\ pc = "loop" /\ (path_ptr > path_end \/ part_len = 0)
  /\ pc' = "parsed"
  /\ UNCHANGED <<path, path_ptr, parts, memory, blocks, low>>

BUG_KeepNames == 1 + Len(parts)
(* The root, and each segment with its name if it has one. *)
Freed == 1 + Len(parts) + Cardinality({k \in DOMAIN parts : parts[k] # <<>>})

pathparse_path_free ==
  /\ pc = "parsed"
  /\ pc' = "freed" /\ blocks' = blocks - Freed
  /\ UNCHANGED <<path, path_ptr, parts, memory, low>>

(* The caller is done with the result. *)
Done ==
  /\ pc \in {"null", "freed"}
  /\ pc' = "idle" /\ path' = <<>> /\ path_ptr' = 1 /\ parts' = <<>>
  /\ memory' = 0 /\ low' = FALSE
  /\ UNCHANGED blocks

Next ==
  \/ \E p \in Paths, budget \in 0..MaxMemory : pathparser_path_parse(p, budget)
  \/ ParsePart \/ ParseEnds \/ pathparse_path_free \/ Done

Spec == Init /\ [][Next]_vars
-----------------------------------------------------------------------------
(* Names in directories. *)

Spaces(n) == memset([k \in 1..n |-> 0], SPACE, n)

BUG_ForgetDot(name) ==
  LET len   == strnlen(name, NameLen + ExtLen)
      point == memchr(name, DOT, len)
  IN  IF point = 0 THEN [stem |-> len, ext |-> 0, from |-> 1]
      ELSE [stem |-> point - 1, ext |-> len - point, from |-> point + 1]

(* How many characters fat16_split_entry_name copies to filename_out and   *)
(* to extension_out, and where the latter start: it does not compare these *)
(* lengths with those of the arrays.                                       *)
SplitLengths(name) ==
  LET len   == strnlen(name, NameLen + 1 + ExtLen)
      point == memchr(name, DOT, len)
  IN  IF point = 0 THEN [stem |-> len, ext |-> 0, from |-> 1]
      ELSE [stem |-> point - 1, ext |-> len - point, from |-> point + 1]

fat16_split_entry_name(name) ==
  LET l == SplitLengths(name) IN
  [ filename  |-> memcpy(Spaces(NameLen), name, 1, l.stem),
    extension |-> memcpy(Spaces(ExtLen), name, l.from, l.ext) ]

(* fat16_find_entry_in_dir pads once more and compares both fields. *)
Matches(name, entry) ==
  LET s == fat16_split_entry_name(name)
      padded_filename  == memcpy(Spaces(NameLen), s.filename, 1, strnlen(s.filename, NameLen))
      padded_extension == memcpy(Spaces(ExtLen), s.extension, 1, strnlen(s.extension, ExtLen))
  IN  /\ strncmp(padded_filename, entry.filename, NameLen) = 0
      /\ strncmp(padded_extension, entry.extension, ExtLen) = 0

(* The arrays of traverse_path are not overrun. *)
Fits(name) ==
  LET l == SplitLengths(name) IN l.stem <= NameLen /\ l.ext <= ExtLen
-----------------------------------------------------------------------------
TypeOK ==
  /\ pc \in {"idle", "loop", "parsed", "freed", "null"}
  /\ path_ptr \in 1..(MAX_PATH_LEN + 2)
  /\ memory \in 0..MaxMemory /\ blocks \in Nat /\ low \in BOOLEAN

Plain(s) == s # <<>> /\ \A k \in DOMAIN s : s[k] # SLASH

(* The names with a slash before each. *)
Joined == FlattenSeq([k \in DOMAIN parts |-> <<SLASH>> \o parts[k]])

(* The path from the slash after the colon on, cut at MAX_PATH_LEN. *)
Tree == SubSeq(path, 3, path_end - 1)

Rooted == \E d \in 48..57 : IsPrefix(<<d, COLON, SLASH>>, path)

(* The parts are the names between the slashes of the first MAX_PATH_LEN   *)
(* characters, in order and complete: what follows them is nothing, one    *)
(* slash, or two slashes in a row, where the parser stops.  And a path     *)
(* without a digit, a colon and a slash in front is refused.               *)
PartsExact ==
  /\ pc = "parsed" /\ ~low =>
       /\ \A k \in DOMAIN parts : Plain(parts[k])
       /\ \/ Tree \in {Joined, Joined \o <<SLASH>>}
          \/ IsPrefix(Joined \o <<SLASH, SLASH>>, Tree)
  /\ pc \in {"loop", "parsed"} => Rooted
  /\ pc = "null" /\ memory > 0 => ~Rooted

(* When memory runs out in the middle of a path the parser writes through  *)
(* NULL and returns a path all the same: its names are the first ones of   *)
(* the path, the last of them possibly without its name, so that the       *)
(* caller opens a directory on the way instead of failing.                 *)
ShortensOnly ==
  pc = "parsed" /\ low =>
    \E n \in 0..Len(parts) :
      /\ n >= Len(parts) - 1
      /\ \A k \in 1..n : Plain(parts[k])
      /\ IsStrictPrefix(FlattenSeq([k \in 1..n |-> <<SLASH>> \o parts[k]]), Tree)

(* The result of a parse is the path, or its beginning when memory ran out *)
(* (path_parser.c:22-66).                                                  *)
PathsExact == TypeOK /\ PartsExact /\ ShortensOnly

(* pathparse_path_free releases every block of the parse, and parses that  *)
(* fail keep none, wherever memory ran out.                                *)
NothingKept == pc \in {"idle", "null", "freed"} => blocks = 0

(* The entries a directory may hold: a stem and an extension, padded. *)
Words(from, to) == UNION {[1..n -> Letters] : n \in from..to}
Padded(s, n) == [k \in 1..n |-> IF k <= Len(s) THEN s[k] ELSE SPACE]

(* Up to width characters of w, the rest of them blanks. *)
Blanked(w, width) == {Padded(w, n) : n \in Len(w)..width}

(* The names of an entry: stem, dot, extension, each of them with blanks   *)
(* up to its width; the dot is optional when there is no extension.        *)
Names(stem, ext) ==
  {s \o <<DOT>> \o e : s \in Blanked(stem, NameLen), e \in Blanked(ext, ExtLen)}
  \union (IF ext = <<>> THEN Blanked(stem, NameLen) ELSE {})

(* What fat16_split_entry_name looks at. *)
Cut(name) == SubSeq(name, 1, Min({NameLen + 1 + ExtLen, Len(name)}))

(* A part finds the entry that its first NameLen + 1 + ExtLen characters   *)
(* name and no other, if it fits the fields of an entry; only a part that  *)
(* names no possible entry does not fit, and then it is written past the   *)
(* arrays of traverse_path (fat16.c:42-58, 257-275, 325-385).              *)
NamesResolve ==
  pc = "parsed" /\ ~low =>
    \A k \in DOMAIN parts, stem \in Words(1, NameLen), ext \in Words(0, ExtLen) :
      LET named == Cut(parts[k]) \in Names(stem, ext)
          entry == [filename |-> Padded(stem, NameLen), extension |-> Padded(ext, ExtLen)]
      IN  IF Fits(parts[k]) THEN Matches(parts[k], entry) <=> named ELSE ~named
=============================================================================
