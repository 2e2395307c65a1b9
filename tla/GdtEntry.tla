------------------------------ MODULE GdtEntry -----------------------------
(***************************************************************************)
(* gdt_structure_to_native, kernel/gdt.c: the encoding of a segment's base *)
(* and limit into the eight bytes of a descriptor.  All widths are counted *)
(* in digits of base Nibble, which is 16.                                  *)
(***************************************************************************)
EXTENDS Integers

CONSTANT Nibble

ASSUME GdtAssumption == Nibble \in Nat /\ Nibble > 1

Byte  == Nibble * Nibble
Page  == Nibble * Byte      \* 4096, the unit of a large limit
Short == Byte * Byte        \* 65536

(* The byte of a number whose lowest bit has the weight `unit'. *)
ByteAt(number, unit) == (number \div unit) % Byte

Encodable(limit) == limit > Short => limit % Page = Page - 1

(* The limit is shifted in place when it is large. *)
gdt_structure_to_native(base, limit, type) ==
  LET large   == limit > Short
      shifted == IF large THEN limit \div Page ELSE limit
  IN  [ panic       |-> ~Encodable(limit),
        limit       |-> <<ByteAt(shifted, 1), ByteAt(shifted, Byte)>>,
        granularity |-> large,
        limit_high  |-> (shifted \div Short) % Nibble,
        base        |-> <<ByteAt(base, 1), ByteAt(base, Byte), ByteAt(base, Short),
                          ByteAt(base, Byte * Short)>>,
        type        |-> type ]

(* The base and the limit that the processor reads from a descriptor. *)
BaseRead(d) == d.base[1] + Byte * d.base[2] + Short * d.base[3] + Byte * Short * d.base[4]

LimitRead(d) ==
  LET field == d.limit[1] + Byte * d.limit[2] + Short * d.limit_high
  IN  IF d.granularity THEN field * Page + Page - 1 ELSE field
=============================================================================
