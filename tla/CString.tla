------------------------------ MODULE CString ------------------------------
(***************************************************************************)
(* The functions of string/string.c that the kernel calls.  A C string is  *)
(* the sequence of its characters before the NUL, a buffer the sequence of *)
(* its bytes; a pointer into one is an index, 0 the null pointer.          *)
(***************************************************************************)
EXTENDS Integers, Sequences, FiniteSetsExt

(* The character at index k, NUL after the last one. *)
At(s, k) == IF k \in DOMAIN s THEN s[k] ELSE 0

strnlen(s, max_len) == Min({max_len} \union {k \in 0..Len(s) : At(s, k + 1) = 0})

memchr(s, c, n) ==
  LET found == {k \in 1..n : s[k] = c} IN IF found = {} THEN 0 ELSE Min(found)

memcmp(s1, s2, n) == IF \E k \in 1..n : s1[k] # s2[k] THEN 1 ELSE 0

(* A char is signed. *)
Signed(c) == IF c >= 128 THEN c - 256 ELSE c

(* The loop stops at the end of either string, at a difference, or when n  *)
(* characters were compared; with n = 0 that last test never holds.        *)
strncmp(s1, s2, n) ==
  LET stop == Min({k \in 1..(Len(s1) + 1) :
                     At(s1, k) = 0 \/ At(s2, k) = 0 \/ s1[k] # s2[k] \/ k = n})
  IN  Signed(At(s1, stop)) - Signed(At(s2, stop))

(* Whole dwords first, then the bytes that remain. *)
BUG_RoundUp(n) == 0..(4 * ((n + 3) \div 4) - 1)
Touched(n) ==
  LET dwords == n \div 4 IN
  {4 * d + b : d \in 0..(dwords - 1), b \in 0..3} \union
  {4 * dwords + b : b \in 0..((n % 4) - 1)}

(* memcpy to dest of n bytes of src, from its index `from' on. *)
memcpy(dest, src, from, n) ==
  [k \in DOMAIN dest |-> IF k - 1 \in Touched(n) THEN src[from + k - 1] ELSE dest[k]]

(* Byte b, counted from the low end, of the dword byte << 24 | ... | byte: *)
(* a char is signed, so one from 0x80 on fills all bytes above it with     *)
(* ones.                                                                   *)
DwordByte(byte, b) == IF b > 0 /\ byte >= 128 THEN 255 ELSE byte

memset(s, c, n) ==
  LET byte == c % 256 IN
  [k \in DOMAIN s |->
     IF k - 1 \notin Touched(n) THEN s[k]
     ELSE IF k - 1 < 4 * (n \div 4) THEN DwordByte(byte, (k - 1) % 4)
     ELSE byte]

(* One loop copies up to the NUL or to n characters, the other goes on     *)
(* from the index i where the first one stopped and stores NULs up to n.   *)
strncpy(dest, src, n) ==
  LET i      == Min({k \in 0..n : k = n \/ At(src, k + 1) = 0})
      copied == [k \in DOMAIN dest |-> IF k <= i THEN src[k] ELSE dest[k]]
  IN  [k \in DOMAIN dest |-> IF k \in (i + 1)..n THEN 0 ELSE copied[k]]

is_digit(c) == c \in 48..57
numeric_char_to_digit(c) == c - 48
digit_to_char(d) == IF d \in 0..9 THEN 48 + d ELSE 69
-----------------------------------------------------------------------------
(* itoa, for an int from -half to half - 1, half being 2^31; / and % of C  *)
(* round towards zero.                                                     *)

ToInt(c, half) == LET m == c % (2 * half) IN IF m < half THEN m ELSE m - 2 * half

Quotient(a, b)  == IF a < 0 THEN -((-a) \div b) ELSE a \div b
Remainder(a, b) == a - b * Quotient(a, b)

(* The values of shifter in the loops, which end when it is zero: after as *)
(* many turns as it counts at the latest.                                  *)
Shifts(shifter) ==
  LET last == 1 + IF shifter < 0 THEN -shifter ELSE shifter
      s[k \in 0..last] == IF k = 0 THEN shifter ELSE Quotient(s[k - 1], 10)
  IN  s

DigitCount(shifter) == Min({k \in DOMAIN Shifts(shifter) \ {0} : Shifts(shifter)[k] = 0})

itoa(c, half) ==
  LET negative == ToInt(c, half) < 0
      shifter  == ToInt(IF negative THEN -c ELSE c, half)
      count    == DigitCount(shifter)
      digits   == [k \in 1..count |->
                     digit_to_char(Remainder(Shifts(shifter)[count - k], 10))]
  IN  IF negative THEN <<45>> \o digits ELSE digits
=============================================================================
