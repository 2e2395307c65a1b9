------------------------------- MODULE Library -----------------------------
(***************************************************************************)
(* Sequential code that is held against reference definitions: the path    *)
(* parser and the names of directory entries step by step, and the         *)
(* functions of string.c and the descriptors of gdt.c as calls whose       *)
(* arguments come from given sets and whose result is kept.                *)
(***************************************************************************)
EXTENDS PathParser, GdtEntry

CONSTANTS
  Old, Source,    \* what is in two buffers of one size
  Texts,          \* strings
  Numbers,        \* what itoa prints
  IntHalf,        \* half the values of an int, 2^31
  Bases, Limits   \* of segments

ASSUME LibraryAssumption ==
  /\ Old \in Seq(0..255) /\ Source \in Seq(0..255) /\ Len(Old) = Len(Source)
  /\ Texts \subseteq Seq(1..255)
  /\ Numbers \subseteq Int /\ IntHalf \in Nat \ {0}
  /\ Bases \subseteq 0..(Short * Short - 1) /\ Limits \subseteq 0..(Short * Short - 1)

VARIABLE called   \* the library call made last

NoCall == [f |-> "none"]
Sizes  == 0..Len(Old)
Bytes  == 0..255

Copies   == {[f |-> "memcpy", n |-> n, r |-> memcpy(Old, Source, 1, n)] : n \in Sizes}
Fills    == {[f |-> "memset", c |-> c, n |-> n, r |-> memset(Old, c, n)] : c \in Bytes, n \in Sizes}
Strings  == {[f |-> "strncpy", s |-> s, n |-> n, r |-> strncpy(Old, s, n)] : s \in Texts, n \in Sizes}
Compares == {[f |-> "strncmp", s |-> s, t |-> t, n |-> n, r |-> strncmp(s, t, n)] :
               s \in Texts, t \in Texts, n \in Sizes}
Prints   == {[f |-> "itoa", c |-> c, r |-> itoa(c, IntHalf)] : c \in Numbers}
Segments == {[f |-> "gdt", base |-> base, limit |-> limit,
              r |-> gdt_structure_to_native(base, limit, 0)] : base \in Bases, limit \in Limits}

Calls == Copies \union Fills \union Strings \union Compares \union Prints \union Segments

LibraryInit == Init /\ called = NoCall

LibraryNext ==
  \/ called = NoCall /\ Next /\ UNCHANGED called
  \/ pc = "idle" /\ called = NoCall /\ called' \in Calls /\ UNCHANGED vars
  \/ pc = "idle" /\ called # NoCall /\ called' = NoCall /\ UNCHANGED vars

LibrarySpec == LibraryInit /\ [][LibraryNext]_<<vars, called>>
-----------------------------------------------------------------------------
(* memcpy, memset and strncpy change the first n bytes and no other, also  *)
(* when n is not a multiple of four, and fill them as they should; memset  *)
(* does not for bytes from 0x80 on, other than 0xFF, in whole dwords,      *)
(* because it widens a signed char.                                        *)
BuffersExact ==
  called.f \in {"memcpy", "memset", "strncpy"} => \A k \in 1..Len(Old) :
    called.r[k] =
      IF k > called.n THEN Old[k]
      ELSE CASE called.f = "memcpy"  -> Source[k]
             [] called.f = "strncpy" -> IF k <= Len(called.s) THEN called.s[k] ELSE 0
             [] called.f = "memset"  ->
                  IF called.c \in 128..254 /\ k <= 4 * (called.n \div 4) /\ k % 4 # 1
                  THEN 255 ELSE called.c

(* strncmp is zero exactly for strings that agree, up to the NUL or in     *)
(* their first n characters, and negative exactly when the first string    *)
(* has the smaller signed character where they first differ; n = 0         *)
(* compares whole strings.                                                 *)
ComparesPrefixes ==
  called.f = "strncmp" =>
    LET compared == {k \in 1..(Len(called.s) + 1) : called.n = 0 \/ k <= called.n} IN
    /\ called.r = 0 <=> \A k \in compared : At(called.s, k) = At(called.t, k)
    /\ called.r < 0 <=> \E k \in compared :
                          /\ Signed(At(called.s, k)) < Signed(At(called.t, k))
                          /\ \A j \in 1..(k - 1) : At(called.s, j) = At(called.t, j)

(* The number that decimal digits denote. *)
ValueOf(digits) ==
  LET v[k \in 0..Len(digits)] ==
        IF k = 0 THEN 0 ELSE 10 * v[k - 1] + numeric_char_to_digit(digits[k])
  IN  v[Len(digits)]

(* The decimal text itoa writes denotes its argument as an int, without    *)
(* leading zeros; addresses above the middle of the address space come out *)
(* negative, and the least int, which has no opposite, with the letter E   *)
(* of digit_to_char for every digit other than 0.                          *)
Printed(c, text) ==
  LET negative == text[1] = 45
      digits   == IF negative THEN Tail(text) ELSE text
      int      == ToInt(c, IntHalf)
  IN  /\ negative <=> int < 0
      /\ IF int = -IntHalf
         THEN digits[1] = 69 /\ \A k \in 1..Len(digits) : digits[k] \in {48, 69}
         ELSE /\ ValueOf(digits) = IF negative THEN -int ELSE int
              /\ \A k \in 1..Len(digits) : is_digit(digits[k])
              /\ Len(digits) > 1 => digits[1] # 48

PrintsItsNumber == called.f = "itoa" => Printed(called.c, called.r)

(* The processor reads back the base and the limit that were encoded; what *)
(* has no encoding is refused.                                             *)
DescriptorExact ==
  called.f = "gdt" /\ ~called.r.panic =>
    called.limit = LimitRead(called.r) /\ called.base = BaseRead(called.r)

(* Every call of a library function returns what its reference definition  *)
(* says (string.c:6-269, gdt.c:66-100).                                    *)
CallsExact == BuffersExact /\ ComparesPrefixes /\ PrintsItsNumber /\ DescriptorExact
=============================================================================
