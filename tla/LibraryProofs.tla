---------------------------- MODULE LibraryProofs ----------------------------
(***************************************************************************)
(* The sequential code: the circular buffer of buffer.c is a bounded queue *)
(* whatever its size and the linked list of list.c a sequence whatever its *)
(* length, the path parser splits every path exactly and frees what it     *)
(* allocates, the names of directory entries resolve, and the functions of *)
(* string.c and the descriptors of gdt.c do what their reference           *)
(* definitions say.                                                        *)
(***************************************************************************)
EXTENDS Programs, Library, FiniteSetTheorems, WellFoundedInduction, TLAPS

(* The circular buffer. *)

RInv == BufferTypeOK /\ IndicesAgree
-----------------------------------------------------------------------------
(* An index is never further than one turn away. *)
LEMMA Wrapped ==
  ASSUME NEW m \in Nat \ {0}, NEW x \in 0..(2 * m - 1)
  PROVE  x % m = (IF x < m THEN x ELSE x - m) /\ x % m \in 0..(m - 1)
  OBVIOUS

(* The k-th slot after end is the (k-1)-th after the next one. *)
LEMMA NextSlot ==
  ASSUME NEW e \in Slots, NEW k \in 0..(BUFFER_SIZE - 1)
  PROVE  /\ (Advanced(e) + k) % BUFFER_SIZE = (e + k + 1) % BUFFER_SIZE
         /\ Advanced(e) \in Slots
         /\ (e + k) % BUFFER_SIZE \in Slots
         /\ Advanced((e + k) % BUFFER_SIZE) = (e + k + 1) % BUFFER_SIZE
<1> DEFINE m == BUFFER_SIZE
<1>1. m \in Nat \ {0} /\ e \in 0..(m - 1) /\ k \in 0..(m - 1)
  BY BufferAssumption DEF Slots
<1> HIDE DEF m
<1>2. (e + 1) % m = IF e + 1 < m THEN e + 1 ELSE e + 1 - m
  BY <1>1
<1>3. (e + k) % m = IF e + k < m THEN e + k ELSE e + k - m
  BY <1>1
<1>4. (e + k + 1) % m = IF e + k + 1 < m THEN e + k + 1 ELSE e + k + 1 - m
  BY <1>1
<1>5. (e + 1) % m \in 0..(m - 1) /\ (e + k) % m \in 0..(m - 1)
  BY <1>1, <1>2, <1>3
<1>6. ((e + 1) % m) + k \in 0..(2 * m - 1) /\ ((e + k) % m) + 1 \in 0..(2 * m - 1)
  BY <1>1, <1>5
<1>7. (((e + 1) % m) + k) % m = (e + k + 1) % m
  <2>1. PICK x \in 0..(2 * m - 1) : x = ((e + 1) % m) + k
    BY <1>6
  <2>2. x % m = IF x < m THEN x ELSE x - m
    BY <1>1, Wrapped
  <2> QED
    BY <1>1, <1>2, <1>4, <2>1, <2>2
<1>8. (((e + k) % m) + 1) % m = (e + k + 1) % m
  <2>1. PICK x \in 0..(2 * m - 1) : x = ((e + k) % m) + 1
    BY <1>6
  <2>2. x % m = IF x < m THEN x ELSE x - m
    BY <1>1, Wrapped
  <2> QED
    BY <1>1, <1>3, <1>4, <2>1, <2>2
<1> QED
  BY <1>5, <1>7, <1>8 DEF Advanced, Slots, m

(* Different slots of one turn are different. *)
LEMMA SlotsDiffer ==
  ASSUME NEW e \in Slots, NEW j \in 0..(BUFFER_SIZE - 1), NEW k \in 0..(BUFFER_SIZE - 1),
         j # k
  PROVE  (e + j) % BUFFER_SIZE # (e + k) % BUFFER_SIZE
<1> DEFINE m == BUFFER_SIZE
<1>1. m \in Nat \ {0} /\ e \in 0..(m - 1) /\ j \in 0..(m - 1) /\ k \in 0..(m - 1)
  BY BufferAssumption DEF Slots
<1> HIDE DEF m
<1>2. (e + j) % m = IF e + j < m THEN e + j ELSE e + j - m
  BY <1>1
<1>3. (e + k) % m = IF e + k < m THEN e + k ELSE e + k - m
  BY <1>1
<1>4. (e + j) % m # (e + k) % m
  BY <1>1, <1>2, <1>3
<1> QED
  BY <1>4 DEF m
-----------------------------------------------------------------------------
LEMMA RInvInit == init => RInv
<1> SUFFICES ASSUME init PROVE RInv
  OBVIOUS
<1>1. BufferTypeOK
  BY BufferAssumption DEF init, BufferTypeOK, Slots
<1>2. (0 + 0) % BUFFER_SIZE = 0
  BY BufferAssumption
<1>3. IndicesAgree
  BY <1>2 DEF init, IndicesAgree
<1> QED
  BY <1>1, <1>3 DEF RInv

(* What is in the buffer, as a sequence. *)
LEMMA ContentsAre ==
  ASSUME RInv
  PROVE  /\ Contents \in Seq(Values) /\ Len(Contents) = count
         /\ \A k \in 1..count : Contents[k] = buffer[(end + k - 1) % BUFFER_SIZE]
<1>1. count \in Nat /\ end \in Int
  BY BufferAssumption DEF RInv, BufferTypeOK, Slots
<1>2. \A k \in 1..count : buffer[(end + k - 1) % BUFFER_SIZE] \in Values
  <2> SUFFICES ASSUME NEW k \in 1..count
               PROVE  buffer[(end + k - 1) % BUFFER_SIZE] \in Values
    OBVIOUS
  <2>1. k - 1 \in 0..(count - 1) /\ end + (k - 1) = end + k - 1
    BY <1>1
  <2>2. buffer[(end + (k - 1)) % BUFFER_SIZE] \in Values
    BY <2>1 DEF RInv, IndicesAgree
  <2> QED
    BY <2>1, <2>2
<1> QED
  BY <1>1, <1>2 DEF Contents

(* A push puts its value behind the others and moves none of them, also    *)
(* when head wraps (buffer.c:31-41).                                       *)
LEMMA PushSteps ==
  ASSUME RInv, NEW value \in Values, push_back(value)
  PROVE  RInv' /\ Promised!Push(value)
<1>1. /\ BUFFER_SIZE \in Nat \ {0} /\ count \in 0..BUFFER_SIZE
      /\ head \in Slots /\ end \in Slots /\ end \in Int
      /\ buffer \in [Slots -> Values \cup {NULL}]
  BY BufferAssumption DEF RInv, BufferTypeOK, Slots
<1>2. Contents \in Seq(Values) /\ Len(Contents) = count
  BY ContentsAre
<1>3. CASE count = BUFFER_SIZE
  <2>1. ret' = 0 /\ UNCHANGED <<buffer, head, end, count>>
    BY <1>3 DEF push_back, full
  <2>2. RInv'
    BY <2>1 DEF RInv, BufferTypeOK, IndicesAgree
  <2>3. Contents' = Contents
    BY <2>1 DEF Contents
  <2> QED
    BY <1>2, <1>3, <2>1, <2>2, <2>3 DEF Promised!Push
<1>4. CASE count # BUFFER_SIZE
  <2>1. /\ buffer' = [buffer EXCEPT ![head] = value] /\ head' = Advanced(head)
        /\ count' = count + 1 /\ ret' = 1 /\ end' = end
    BY <1>4 DEF push_back, full
  <2>2. count \in 0..(BUFFER_SIZE - 1)
    BY <1>1, <1>4
  <2>3. head = (end + count) % BUFFER_SIZE
    BY DEF RInv, IndicesAgree
  <2>4. Advanced(head) \in Slots /\ Advanced(head) = (end + count + 1) % BUFFER_SIZE
    BY <1>1, <2>2, <2>3, NextSlot
  <2>5. BufferTypeOK'
    BY <1>1, <2>1, <2>2, <2>4 DEF BufferTypeOK
  <2>6. \A k \in 0..(count - 1) :
          buffer'[(end + k) % BUFFER_SIZE] = buffer[(end + k) % BUFFER_SIZE]
    <3> SUFFICES ASSUME NEW k \in 0..(count - 1)
                 PROVE  buffer'[(end + k) % BUFFER_SIZE] = buffer[(end + k) % BUFFER_SIZE]
      OBVIOUS
    <3>1. k \in 0..(BUFFER_SIZE - 1) /\ k # count
      BY <1>1, <2>2
    <3>2. (end + k) % BUFFER_SIZE \in Slots /\ (end + k) % BUFFER_SIZE # head
      BY <1>1, <2>2, <2>3, <3>1, NextSlot, SlotsDiffer
    <3> QED
      BY <1>1, <2>1, <3>2
  <2>7. buffer'[(end + count) % BUFFER_SIZE] = value
    BY <1>1, <2>1, <2>3
  <2>8. IndicesAgree'
    <3>1. end + (count + 1) = end + count + 1
      BY <1>1
    <3>2. head' = (end' + count') % BUFFER_SIZE
      BY <2>1, <2>4, <3>1
    <3>3. ASSUME NEW k \in 0..(count' - 1)
          PROVE  buffer'[(end' + k) % BUFFER_SIZE] \in Values
      <4>1. k = count \/ k \in 0..(count - 1)
        BY <2>1, <2>2
      <4> QED
        BY <2>1, <2>6, <2>7, <4>1 DEF RInv, IndicesAgree
    <3> QED
      BY <3>2, <3>3 DEF IndicesAgree
  <2>9. RInv'
    BY <2>5, <2>8 DEF RInv
  <2>10. Contents' = Append(Contents, value)
    <3>1. /\ Contents' \in Seq(Values) /\ Len(Contents') = count + 1
          /\ \A k \in 1..(count + 1) : Contents'[k] = buffer'[(end + k - 1) % BUFFER_SIZE]
      <4>1. count + 1 \in Nat
        BY <2>2
      <4>2. Contents' = [k \in 1..(count + 1) |-> buffer'[(end + k - 1) % BUFFER_SIZE]]
        BY <2>1 DEF Contents
      <4>3. \A k \in 1..(count + 1) : buffer'[(end + k - 1) % BUFFER_SIZE] \in Values
        <5> SUFFICES ASSUME NEW k \in 1..(count + 1)
                     PROVE  buffer'[(end + k - 1) % BUFFER_SIZE] \in Values
          OBVIOUS
        <5>1. k - 1 \in 0..(count' - 1) /\ end' + (k - 1) = end + k - 1
          BY <1>1, <2>1, <2>2
        <5> QED
          BY <2>8, <5>1 DEF IndicesAgree
      <4> QED
        BY <4>1, <4>2, <4>3
    <3>2. ASSUME NEW k \in 1..(count + 1)
          PROVE  Contents'[k] = Append(Contents, value)[k]
      <4>1. CASE k = count + 1
        <5>1. end + k - 1 = end + count
          BY <1>1, <2>2, <4>1
        <5>2. Contents'[k] = value
          BY <2>7, <3>1, <5>1
        <5> QED
          BY <1>2, <4>1, <5>2
      <4>2. CASE k # count + 1
        <5>1. k \in 1..count /\ k - 1 \in 0..(count - 1) /\ end + (k - 1) = end + k - 1
          BY <1>1, <2>2, <4>2
        <5>2. buffer'[(end + (k - 1)) % BUFFER_SIZE] = buffer[(end + (k - 1)) % BUFFER_SIZE]
          BY <2>6, <5>1
        <5>3. Contents'[k] = Contents[k]
          BY <3>1, <5>1, <5>2, ContentsAre
        <5> QED
          BY <1>2, <5>1, <5>3
      <4> QED
        BY <4>1, <4>2
    <3> QED
      BY <1>2, <2>2, <3>1, <3>2
  <2>11. Len(Contents) < BUFFER_SIZE
    BY <1>1, <1>2, <2>2
  <2> QED
    BY <2>1, <2>9, <2>10, <2>11 DEF Promised!Push
<1> QED
  BY <1>3, <1>4

(* A pop takes the oldest value, and leaves the others where they are      *)
(* (buffer.c:43-53).                                                       *)
LEMMA PopSteps ==
  ASSUME RInv, pop_front
  PROVE  RInv' /\ Promised!Pop
<1>1. /\ BUFFER_SIZE \in Nat \ {0} /\ count \in 0..BUFFER_SIZE
      /\ head \in Slots /\ end \in Slots /\ end \in Int
      /\ buffer \in [Slots -> Values \cup {NULL}]
  BY BufferAssumption DEF RInv, BufferTypeOK, Slots
<1>2. /\ Contents \in Seq(Values) /\ Len(Contents) = count
      /\ \A k \in 1..count : Contents[k] = buffer[(end + k - 1) % BUFFER_SIZE]
  BY ContentsAre
<1>3. CASE count = 0
  <2>1. ret' = NULL /\ UNCHANGED <<buffer, head, end, count>>
    BY <1>3 DEF pop_front, empty
  <2>2. RInv'
    BY <2>1 DEF RInv, BufferTypeOK, IndicesAgree
  <2>3. Contents' = Contents
    BY <2>1 DEF Contents
  <2>4. Contents = <<>>
    BY <1>2, <1>3
  <2> QED
    BY <2>1, <2>2, <2>3, <2>4 DEF Promised!Pop
<1>4. CASE count # 0
  <2>1. /\ ret' = buffer[end] /\ end' = Advanced(end) /\ count' = count - 1
        /\ buffer' = buffer /\ head' = head
    BY <1>4 DEF pop_front, empty
  <2>2. count - 1 \in 0..(BUFFER_SIZE - 1) /\ count \in 1..BUFFER_SIZE
    BY <1>1, <1>4
  <2>3. ASSUME NEW k \in 0..(count - 1)
        PROVE  (Advanced(end) + k) % BUFFER_SIZE = (end + k + 1) % BUFFER_SIZE
    <3>1. k \in 0..(BUFFER_SIZE - 1)
      BY <1>1, <2>2
    <3> QED
      BY <1>1, <3>1, NextSlot
  <2>4. Advanced(end) \in Slots
    BY <1>1, <2>2, NextSlot
  <2>5. Contents # <<>> /\ Head(Contents) = buffer[end]
    <3>1. (end + 1 - 1) % BUFFER_SIZE = end
      BY <1>1 DEF Slots
    <3>2. 1 \in 1..count
      BY <2>2
    <3> QED
      BY <1>2, <2>2, <3>1, <3>2
  <2>6. ret' \in Values
    <3>1. Contents[1] \in Values
      BY <1>2, <2>2
    <3> QED
      BY <1>2, <2>1, <2>5, <3>1
  <2>7. BufferTypeOK'
    BY <1>1, <2>1, <2>2, <2>4, <2>6 DEF BufferTypeOK
  <2>8. IndicesAgree'
    <3>1. head = (end + count) % BUFFER_SIZE
      BY DEF RInv, IndicesAgree
    <3>2. end + (count - 1) + 1 = end + count /\ count - 1 \in 0..(count - 1)
      BY <1>1, <2>2
    <3>3. head' = (end' + count') % BUFFER_SIZE
      BY <2>1, <2>3, <3>1, <3>2
    <3>4. ASSUME NEW k \in 0..(count' - 1)
          PROVE  buffer'[(end' + k) % BUFFER_SIZE] \in Values
      <4>1. k \in 0..(count - 1) /\ k + 1 \in 0..(count - 1) /\ end + (k + 1) = end + k + 1
        BY <1>1, <2>1, <2>2
      <4>2. buffer[(end + (k + 1)) % BUFFER_SIZE] \in Values
        BY <4>1 DEF RInv, IndicesAgree
      <4> QED
        BY <2>1, <2>3, <4>1, <4>2
    <3> QED
      BY <3>3, <3>4 DEF IndicesAgree
  <2>9. Contents' = Tail(Contents)
    <3>1. Contents' = [k \in 1..(count - 1) |-> buffer[(Advanced(end) + k - 1) % BUFFER_SIZE]]
      BY <2>1 DEF Contents
    <3>2. \A k \in 1..(count - 1) :
            buffer[(Advanced(end) + k - 1) % BUFFER_SIZE] = Contents[k + 1]
      <4> SUFFICES ASSUME NEW k \in 1..(count - 1)
                   PROVE  buffer[(Advanced(end) + k - 1) % BUFFER_SIZE] = Contents[k + 1]
        OBVIOUS
      <4>1. /\ k - 1 \in 0..(count - 1) /\ k + 1 \in 1..count
            /\ Advanced(end) + (k - 1) = Advanced(end) + k - 1
            /\ end + (k - 1) + 1 = end + (k + 1) - 1
        BY <1>1, <2>2, <2>4 DEF Slots
      <4>2. (Advanced(end) + (k - 1)) % BUFFER_SIZE = (end + (k - 1) + 1) % BUFFER_SIZE
        BY <2>3, <4>1
      <4> QED
        BY <1>2, <4>1, <4>2
    <3>3. /\ Tail(Contents) \in Seq(Values) /\ Len(Tail(Contents)) = count - 1
          /\ \A k \in 1..(count - 1) : Tail(Contents)[k] = Contents[k + 1]
      BY <1>2, <2>2, <2>5
    <3>4. /\ Contents' \in Seq(Values) /\ Len(Contents') = count - 1
          /\ \A k \in 1..(count - 1) : Contents'[k] = Contents[k + 1]
      <4>1. \A k \in 1..(count - 1) : Contents[k + 1] \in Values
        BY <1>2, <2>2
      <4>2. count - 1 \in Nat
        BY <2>2
      <4> QED
        BY <3>1, <3>2, <4>1, <4>2
    <3> QED
      BY <2>2, <3>3, <3>4
  <2> QED
    BY <2>1, <2>5, <2>7, <2>8, <2>9 DEF RInv, Promised!Pop
<1> QED
  BY <1>3, <1>4

LEMMA RInvKept ==
  ASSUME RInv, [BufferNext]_bvars
  PROVE  RInv' /\ [Promised!Next]_<<Contents, ret>>
<1>1. CASE UNCHANGED bvars
  <2>1. RInv'
    BY <1>1 DEF bvars, RInv, BufferTypeOK, IndicesAgree
  <2>2. UNCHANGED <<Contents, ret>>
    BY <1>1 DEF bvars, Contents
  <2> QED
    BY <2>1, <2>2
<1>2. CASE BufferNext
  BY <1>2, PushSteps, PopSteps DEF BufferNext, Promised!Next
<1> QED
  BY <1>1, <1>2

(* head, end and count agree after any sequence of calls, for a buffer of  *)
(* any size (buffer.c:31-53).                                              *)
THEOREM BufferSound == BufferSpec => [](BufferTypeOK /\ IndicesAgree)
<1>1. RInv /\ [BufferNext]_bvars => RInv'
  BY RInvKept
<1>2. BufferSpec => []RInv
  BY <1>1, RInvInit, PTL DEF BufferSpec
<1> QED
  BY <1>2, PTL DEF RInv

(* buffer.c implements a bounded first-in first-out queue, for a buffer of *)
(* any size and any values (buffer.c:11-53).                               *)
THEOREM BufferIsQueue == BufferSpec => QueueSpec
<1>1. init => Promised!Init
  <2> SUFFICES ASSUME init PROVE Promised!Init
    OBVIOUS
  <2>1. Contents = <<>> /\ ret = NULL
    BY DEF init, Contents
  <2> QED
    BY <2>1 DEF Promised!Init
<1>2. RInv /\ [BufferNext]_bvars => RInv' /\ [Promised!Next]_<<Contents, ret>>
  BY RInvKept
<1> QED
  BY <1>1, <1>2, RInvInit, PTL DEF BufferSpec, QueueSpec, Promised!Spec
-----------------------------------------------------------------------------
(* Numbers and sequences. *)

(* A set of numbers has a least one. *)
LEMMA LeastNat ==
  ASSUME NEW S \in SUBSET Nat, S # {}
  PROVE  \E m \in S : \A k \in S : m <= k
<1> DEFINE R == OpToRel(<, Nat)
<1>1. IsWellFoundedOn(R, Nat)
  BY NatLessThanWellFounded
<1>2. \A x \in Nat, y \in Nat : y < x => <<y, x>> \in R
  BY DEF OpToRel
<1> HIDE DEF R
<1>3. PICK x \in S : \A y \in S : ~(<<y, x>> \in R)
  BY <1>1, WFMin
<1>4. \A y \in S : ~(y < x)
  BY <1>2, <1>3
<1>5. \A y \in S : x <= y
  BY <1>4
<1> QED
  BY <1>5

(* What holds at the start of a loop, and after a turn if it held before,  *)
(* holds after every turn.                                                 *)
LEMMA Induct ==
  ASSUME NEW S, NEW len \in Nat, 0 \in S, \A k \in 0..(len - 1) : k \in S => k + 1 \in S
  PROVE  0..len \subseteq S
<1> DEFINE T == (0..len) \ S
<1>1. SUFFICES ASSUME T # {} PROVE FALSE
  OBVIOUS
<1>2. T \in SUBSET Nat
  OBVIOUS
<1>3. PICK m \in T : \A k \in T : m <= k
  BY <1>1, <1>2, LeastNat
<1>4. m \in Nat /\ m # 0 /\ m \notin S /\ m <= len
  OBVIOUS
<1>5. m - 1 \in 0..(len - 1) /\ m - 1 \notin T /\ (m - 1) + 1 = m
  BY <1>3, <1>4
<1> QED
  BY <1>4, <1>5

(* A loop of len turns that takes each state to one state passes through one *)
(* sequence of states.                                                     *)
Loops(len, S) == [1..len -> [S -> S]]
Run(f, len, S, start, turn) ==
  f \in [0..len -> S] /\ f[0] = start /\ \A k \in 1..len : f[k] = turn[k][f[k - 1]]

LEMMA Loop ==
  ASSUME NEW len \in Nat, NEW S, NEW start \in S, NEW turn \in Loops(len, S)
  PROVE  \E f : Run(f, len, S, start, turn)
<1> DEFINE Upto(m) == \E f \in [0..m -> S] :
                        f[0] = start /\ \A k \in 1..m : f[k] = turn[k][f[k - 1]]
           G == {m \in 0..len : Upto(m)}
<1> USE DEF Loops
<1>1. Upto(0)
  <2> DEFINE f == [k \in 0..0 |-> start]
  <2>1. f \in [0..0 -> S] /\ f[0] = start /\ \A k \in 1..0 : f[k] = turn[k][f[k - 1]]
    OBVIOUS
  <2> QED
    BY <2>1
<1>2. ASSUME NEW m \in 0..(len - 1), Upto(m) PROVE Upto(m + 1)
  <2>1. PICK f \in [0..m -> S] : f[0] = start /\ \A k \in 1..m : f[k] = turn[k][f[k - 1]]
    BY <1>2
  <2> DEFINE g == [k \in 0..(m + 1) |-> IF k <= m THEN f[k] ELSE turn[m + 1][f[m]]]
  <2>2. f[m] \in S /\ m + 1 \in 1..len /\ turn[m + 1][f[m]] \in S
    OBVIOUS
  <2>3. g \in [0..(m + 1) -> S] /\ g[0] = start
    BY <2>1, <2>2
  <2>4. ASSUME NEW k \in 1..(m + 1) PROVE g[k] = turn[k][g[k - 1]]
    <3>1. k - 1 \in 0..m /\ g[k - 1] = f[k - 1]
      OBVIOUS
    <3>2. CASE k <= m
      BY <2>1, <3>1, <3>2
    <3>3. CASE k = m + 1
      BY <2>1, <3>1, <3>3
    <3> QED
      BY <3>2, <3>3
  <2> HIDE DEF g
  <2> QED
    BY <2>3, <2>4
<1> HIDE DEF Upto
<1>3. 0 \in G /\ \A k \in 0..(len - 1) : k \in G => k + 1 \in G
  BY <1>1, <1>2
<1> HIDE DEF G
<1>4. 0..len \subseteq G
  BY <1>3, Induct
<1>5. len \in G
  BY <1>4
<1> QED
  BY <1>5 DEF G, Upto, Run
-----------------------------------------------------------------------------
(* The string functions. *)
Chars == 1..255

LEMMA NotNul == \A c \in Chars : c # 0 /\ c \in Int
  BY DEF Chars

(* Different bytes are different chars. *)
ToldApart(c, d) ==
  Signed(c) \in Int /\ Signed(d) \in Int /\ (Signed(c) = Signed(d) <=> c = d)

LEMMA SignedIs ==
  ASSUME NEW c \in 0..255, NEW d \in 0..255
  PROVE  ToldApart(c, d)
  BY DEF Signed, ToldApart

LEMMA AtByte ==
  ASSUME NEW s \in Seq(Chars), NEW k
  PROVE  At(s, k) \in 0..255
<1>1. CASE k \in DOMAIN s
  <2>1. s[k] \in Chars
    BY <1>1
  <2> QED
    BY <1>1, <2>1 DEF At, Chars
<1>2. CASE k \notin DOMAIN s
  BY <1>2 DEF At
<1> QED
  BY <1>1, <1>2

LEMMA MinIs ==
  ASSUME NEW S \in SUBSET Nat, S # {}
  PROVE  Min(S) \in S /\ \A k \in S : Min(S) <= k
<1>1. PICK m \in S : \A k \in S : m <= k
  BY LeastNat
<1> QED
  BY <1>1 DEF Min

(* What precedes the NUL counts, up to max. *)
LEMMA StrnlenIs ==
  ASSUME NEW s \in Seq(Chars), NEW max \in Nat
  PROVE  strnlen(s, max) = IF Len(s) <= max THEN Len(s) ELSE max
<1> DEFINE S == {max} \union {k \in 0..Len(s) : At(s, k + 1) = 0}
<1>1. \A k \in 0..Len(s) : At(s, k + 1) = 0 <=> k = Len(s)
  <2> SUFFICES ASSUME NEW k \in 0..Len(s) PROVE At(s, k + 1) = 0 <=> k = Len(s)
    OBVIOUS
  <2>1. CASE k = Len(s)
    BY <2>1 DEF At
  <2>2. CASE k # Len(s)
    <3>1. k + 1 \in DOMAIN s /\ s[k + 1] \in Chars
      BY <2>2
    <3>2. s[k + 1] # 0
      BY <3>1, NotNul
    <3>3. At(s, k + 1) = s[k + 1]
      BY <3>1 DEF At
    <3> QED
      BY <2>2, <3>2, <3>3
  <2> QED
    BY <2>1, <2>2
<1>2. S = {max, Len(s)}
  BY <1>1
<1>3. S \in SUBSET Nat /\ S # {}
  BY <1>2
<1> HIDE DEF S
<1>4. Min(S) \in S /\ \A k \in S : Min(S) <= k
  BY <1>3, MinIs
<1>5. Min(S) = IF Len(s) <= max THEN Len(s) ELSE max
  BY <1>2, <1>4
<1> QED
  BY <1>5 DEF strnlen, S

LEMMA MemchrIs ==
  ASSUME NEW s, NEW c, NEW len \in Nat
  PROVE  \/ memchr(s, c, len) = 0 /\ \A k \in 1..len : s[k] # c
         \/ /\ memchr(s, c, len) \in 1..len
            /\ s[memchr(s, c, len)] = c
            /\ \A k \in 1..(memchr(s, c, len) - 1) : s[k] # c
<1> DEFINE F == {k \in 1..len : s[k] = c}
           m == memchr(s, c, len)
<1>1. CASE F = {}
  <2>1. m = 0
    BY <1>1 DEF memchr
  <2> QED
    BY <1>1, <2>1
<1>2. CASE F # {}
  <2>1. m = Min(F)
    BY <1>2 DEF memchr
  <2>2. F \in SUBSET Nat
    OBVIOUS
  <2>3. m \in F /\ \A k \in F : m <= k
    BY <1>2, <2>1, <2>2, MinIs
  <2> HIDE DEF m
  <2>4. m \in 1..len /\ s[m] = c /\ \A k \in 1..(m - 1) : s[k] # c
    <3>1. m \in 1..len /\ s[m] = c
      BY <2>3
    <3>2. ASSUME NEW k \in 1..(m - 1), s[k] = c PROVE FALSE
      <4>1. k \in 1..len /\ ~(m <= k)
        BY <3>1
      <4> QED
        BY <2>3, <3>2, <4>1
    <3> QED
      BY <3>1, <3>2
  <2> QED
    BY <2>4 DEF m
<1> QED
  BY <1>1, <1>2
-----------------------------------------------------------------------------
(* What FlattenSeq computes: f[k] is the first k sequences in one. *)
Flat(ss, f, S) ==
  /\ f \in [0..Len(ss) -> Seq(S)] /\ f[0] = <<>>
  /\ \A k \in 1..Len(ss) : f[k] = f[k - 1] \o ss[k]

LEMMA FlatExists ==
  ASSUME NEW S, NEW ss \in Seq(Seq(S))
  PROVE  \E f : Flat(ss, f, S)
<1> DEFINE T == Seq(S)
           turn == [k \in 1..Len(ss) |-> [s \in T |-> s \o ss[k]]]
<1>1. \A k \in 1..Len(ss) : ss[k] \in T
  OBVIOUS
<1>2. \A k \in 1..Len(ss) : [s \in T |-> s \o ss[k]] \in [T -> T]
  <2> SUFFICES ASSUME NEW k \in 1..Len(ss), NEW s \in T PROVE s \o ss[k] \in T
    OBVIOUS
  <2> QED
    BY <1>1
<1>3. turn \in Loops(Len(ss), T)
  BY <1>2 DEF Loops
<1>4. <<>> \in T /\ Len(ss) \in Nat
  OBVIOUS
<1>5. \A k \in 1..Len(ss), s \in T : turn[k][s] = s \o ss[k]
  OBVIOUS
<1> HIDE DEF turn, T
<1>6. PICK f : Run(f, Len(ss), T, <<>>, turn)
  BY <1>3, <1>4, Loop
<1>7. f \in [0..Len(ss) -> T] /\ f[0] = <<>>
  BY <1>6 DEF Run
<1>8. ASSUME NEW k \in 1..Len(ss) PROVE f[k] = f[k - 1] \o ss[k]
  <2>0. k - 1 \in 0..Len(ss)
    BY <1>4
  <2>1. f[k - 1] \in T /\ f[k] = turn[k][f[k - 1]]
    BY <1>6, <1>7, <2>0 DEF Run
  <2> QED
    BY <1>5, <2>1
<1> QED
  BY <1>7, <1>8 DEF Flat, T

LEMMA EmptyLeft ==
  ASSUME NEW S, NEW s \in Seq(S)
  PROVE  <<>> \o s = s
  OBVIOUS

LEMMA FlattenIs ==
  ASSUME NEW S, NEW ss \in Seq(Seq(S)), NEW f, Flat(ss, f, S)
  PROVE  FlattenSeq(ss) = f[Len(ss)]
<1>1. CASE Len(ss) = 0
  <2>1. ss = <<>>
    BY <1>1
  <2> QED
    BY <1>1, <2>1 DEF FlattenSeq, Flat
<1>2. CASE Len(ss) # 0
  <2> DEFINE D == 1..Len(ss)
             G(g) == g = [i \in D |-> IF i = 1 THEN ss[i] ELSE g[i - 1] \o ss[i]]
             h == [i \in D |-> f[i]]
             c == CHOOSE g : G(g)
  <2>0. /\ \A i \in 1..Len(ss) : f[i] = f[i - 1] \o ss[i]
        /\ \A i \in 1..Len(ss) : ss[i] \in Seq(S)
        /\ f[1] = ss[1]
    <3>1. \A i \in 1..Len(ss) : ss[i] \in Seq(S)
      OBVIOUS
    <3>2. \A i \in 1..Len(ss) : f[i] = f[i - 1] \o ss[i]
      BY DEF Flat
    <3>3. 1 \in 1..Len(ss) /\ 1 - 1 = 0 /\ f[0] = <<>>
      BY <1>2 DEF Flat
    <3>4. f[1] = <<>> \o ss[1]
      BY <3>2, <3>3
    <3> QED
      BY <3>1, <3>2, <3>3, <3>4, EmptyLeft
  <2>1. G(h)
    <3>1. ASSUME NEW i \in D PROVE f[i] = IF i = 1 THEN ss[i] ELSE h[i - 1] \o ss[i]
      <4>1. f[i] = f[i - 1] \o ss[i]
        BY <2>0
      <4>2. CASE i = 1
        BY <2>0, <4>2
      <4>3. CASE i # 1
        <5>1. i - 1 \in D
          BY <4>3
        <5> QED
          BY <4>1, <4>3, <5>1
      <4> QED
        BY <4>2, <4>3
    <3> QED
      BY <3>1
  <2>2. G(c)
    <3> HIDE DEF G
    <3> QED
      BY <2>1
  <2> HIDE DEF c
  <2>3. \A i \in D : c[i] = IF i = 1 THEN ss[i] ELSE c[i - 1] \o ss[i]
    BY <2>2
  <2> DEFINE T == {i \in D : c[i] # f[i]}
  <2> HIDE DEF G, h
  <2>4. T = {}
    <3> SUFFICES ASSUME T # {} PROVE FALSE
      OBVIOUS
    <3>1. T \in SUBSET Nat
      OBVIOUS
    <3>2. PICK m \in T : \A k \in T : m <= k
      BY <3>1, LeastNat
    <3>3. m \in D /\ c[m] # f[m]
      OBVIOUS
    <3>3a. f[m] = f[m - 1] \o ss[m]
      BY <2>0, <3>3
    <3>4. CASE m = 1
      BY <2>0, <2>3, <3>3, <3>4
    <3>5. CASE m # 1
      <4>1. m - 1 \in D /\ ~(m <= m - 1)
        BY <3>3, <3>5
      <4>2. c[m - 1] = f[m - 1]
        BY <3>2, <4>1
      <4>3. c[m] = c[m - 1] \o ss[m]
        BY <2>3, <3>3, <3>5
      <4> QED
        BY <3>3, <3>3a, <4>2, <4>3
    <3> QED
      BY <3>4, <3>5
  <2>5. c[Len(ss)] = f[Len(ss)]
    <3>1. Len(ss) \in D
      BY <1>2
    <3> QED
      BY <2>4, <3>1
  <2> QED
    BY <1>2, <2>5 DEF FlattenSeq, c, G
<1> QED
  BY <1>1, <1>2

LEMMA FlattenSnoc ==
  ASSUME NEW S, NEW ss \in Seq(Seq(S)), NEW x \in Seq(S)
  PROVE  /\ FlattenSeq(ss) \in Seq(S)
         /\ FlattenSeq(Append(ss, x)) = FlattenSeq(ss) \o x
<1> DEFINE tt == Append(ss, x)
<1>1. tt \in Seq(Seq(S)) /\ Len(tt) = Len(ss) + 1 /\ tt[Len(ss) + 1] = x
  OBVIOUS
<1>2. \A k \in 1..Len(ss) : tt[k] = ss[k]
  OBVIOUS
<1> HIDE DEF tt
<1>3. PICK f : Flat(tt, f, S)
  BY <1>1, FlatExists
<1> DEFINE g == [k \in 0..Len(ss) |-> f[k]]
<1>4. Flat(ss, g, S)
  <2>1. \A k \in 0..Len(ss) : k \in 0..Len(tt)
    BY <1>1
  <2>2. g \in [0..Len(ss) -> Seq(S)] /\ g[0] = <<>>
    BY <1>3, <2>1 DEF Flat
  <2>3. ASSUME NEW k \in 1..Len(ss) PROVE g[k] = g[k - 1] \o ss[k]
    <3>1. k \in 1..Len(tt) /\ k \in 0..Len(ss) /\ k - 1 \in 0..Len(ss)
      BY <1>1
    <3>2. f[k] = f[k - 1] \o tt[k]
      BY <1>3, <3>1 DEF Flat
    <3> QED
      BY <1>2, <3>1, <3>2
  <2> HIDE DEF g
  <2> QED
    BY <2>2, <2>3 DEF Flat
<1>5. g[Len(ss)] = f[Len(ss)] /\ f[Len(ss)] \in Seq(S)
  BY <1>1, <1>3 DEF Flat
<1>6. f[Len(tt)] = f[Len(ss)] \o x
  <2>1. Len(tt) \in 1..Len(tt) /\ Len(tt) - 1 = Len(ss)
    BY <1>1
  <2>2. f[Len(tt)] = f[Len(tt) - 1] \o tt[Len(tt)]
    BY <1>3, <2>1 DEF Flat
  <2> QED
    BY <1>1, <2>1, <2>2
<1> HIDE DEF g
<1>7. FlattenSeq(ss) = g[Len(ss)] /\ FlattenSeq(tt) = f[Len(tt)]
  BY <1>1, <1>3, <1>4, FlattenIs
<1> QED
  BY <1>5, <1>6, <1>7 DEF tt

LEMMA FlattenEmpty == FlattenSeq(<<>>) = <<>>
  BY DEF FlattenSeq
-----------------------------------------------------------------------------
LEMMA SubSeqIs ==
  ASSUME NEW S, NEW s \in Seq(S), NEW a \in Nat \ {0}, NEW b \in Nat, b <= Len(s), a <= b + 1
  PROVE  /\ SubSeq(s, a, b) \in Seq(S)
         /\ Len(SubSeq(s, a, b)) = b - a + 1
         /\ \A k \in 1..(b - a + 1) : SubSeq(s, a, b)[k] = s[a + k - 1]
<1>1. \A k \in a..b : s[k] \in S
  OBVIOUS
<1> QED
  BY <1>1

LEMMA SeqEqual ==
  ASSUME NEW S, NEW s \in Seq(S), NEW t \in Seq(S), Len(s) = Len(t),
         \A k \in 1..Len(s) : s[k] = t[k]
  PROVE  s = t
  OBVIOUS

(* Two pieces of s with one element between them. *)
LEMMA Rejoined ==
  ASSUME NEW S, NEW s \in Seq(S), NEW a \in Nat \ {0}, NEW p \in Nat, NEW e \in Nat,
         a < p, p <= e + 1, e <= Len(s)
  PROVE  SubSeq(s, a, p - 2) \o (<<s[p - 1]>> \o SubSeq(s, p, e)) = SubSeq(s, a, e)
<1> DEFINE u == SubSeq(s, a, p - 2)
           w == SubSeq(s, p, e)
           c == <<s[p - 1]>>
           v == c \o w
           r == SubSeq(s, a, e)
<1>0. p - 2 \in Nat /\ p - 2 <= Len(s) /\ a <= (p - 2) + 1
  OBVIOUS
<1>1. u \in Seq(S) /\ Len(u) = (p - 2) - a + 1 /\ \A k \in 1..((p - 2) - a + 1) : u[k] = s[a + k - 1]
  BY <1>0, SubSeqIs
<1>2. w \in Seq(S) /\ Len(w) = e - p + 1 /\ \A k \in 1..(e - p + 1) : w[k] = s[p + k - 1]
  BY SubSeqIs
<1>3. r \in Seq(S) /\ Len(r) = e - a + 1 /\ \A k \in 1..(e - a + 1) : r[k] = s[a + k - 1]
  BY SubSeqIs
<1>4. c \in Seq(S) /\ Len(c) = 1 /\ c[1] = s[p - 1]
  OBVIOUS
<1> HIDE DEF u, w, c, r
<1>50. /\ v \in Seq(S) /\ Len(v) = Len(c) + Len(w)
       /\ \A k \in 1..Len(c) : v[k] = c[k]
       /\ \A k \in 1..Len(w) : v[Len(c) + k] = w[k]
  <2>1. c \in Seq(S) /\ w \in Seq(S)
    BY <1>2, <1>4
  <2> QED
    <3>1. v \in Seq(S) /\ Len(v) = Len(c) + Len(w)
      BY <2>1
    <3>2. \A k \in 1..Len(c) : v[k] = c[k]
      BY <2>1
    <3>3. \A k \in 1..Len(w) : v[Len(c) + k] = w[k]
      BY <2>1
    <3> QED
      BY <3>1, <3>2, <3>3
<1> DEFINE x == u \o v
<1> HIDE DEF v
<1>5. /\ v \in Seq(S) /\ Len(v) = e - p + 2 /\ v[1] = s[p - 1]
      /\ \A k \in 1..(e - p + 1) : v[1 + k] = s[p + k - 1]
  <2>1. Len(v) = e - p + 2 /\ 1 \in 1..Len(c)
    BY <1>2, <1>4, <1>50
  <2>2. v[1] = s[p - 1]
    BY <1>4, <1>50, <2>1
  <2>3. \A k \in 1..(e - p + 1) : v[1 + k] = w[k]
    BY <1>2, <1>4, <1>50
  <2> QED
    BY <1>2, <1>50, <2>1, <2>2, <2>3
<1>60. /\ x \in Seq(S) /\ Len(x) = Len(u) + Len(v)
       /\ \A k \in 1..Len(u) : x[k] = u[k]
       /\ \A k \in 1..Len(v) : x[Len(u) + k] = v[k]
  <2>1. u \in Seq(S) /\ v \in Seq(S)
    BY <1>1, <1>50
  <2> QED
    <3>1. x \in Seq(S) /\ Len(x) = Len(u) + Len(v)
      BY <2>1
    <3>2. \A k \in 1..Len(u) : x[k] = u[k]
      BY <2>1
    <3>3. \A k \in 1..Len(v) : x[Len(u) + k] = v[k]
      BY <2>1
    <3> QED
      BY <3>1, <3>2, <3>3
<1> HIDE DEF x
<1>61. Len(u) = p - 1 - a /\ Len(v) = e - p + 2
  <2>1. Len(u) = (p - 2) - a + 1
    BY <1>1
  <2>2. Len(v) = e - p + 2
    BY <1>5
  <2> QED
    BY <2>1, <2>2
<1>6. Len(x) = e - a + 1
  BY <1>1, <1>5, <1>60
<1>7. ASSUME NEW k \in 1..(e - a + 1) PROVE x[k] = r[k]
  <2>1. CASE k <= p - 1 - a
    <3>1. k \in 1..Len(u) /\ k \in 1..((p - 2) - a + 1)
      BY <1>1, <2>1
    <3> QED
      BY <1>1, <1>3, <1>60, <3>1
  <2>2. CASE k = p - a
    <3>1. Len(u) + 1 = k /\ 1 \in 1..Len(v) /\ a + k - 1 = p - 1
      BY <1>61, <2>2
    <3> QED
      BY <1>3, <1>5, <1>60, <3>1
  <2>3. CASE k > p - a
    <3> DEFINE j == k - (p - a)
    <3>1. j \in 1..(e - p + 1) /\ 1 + j \in 1..Len(v) /\ Len(u) + (1 + j) = k /\ p + j - 1 = a + k - 1
      BY <1>61, <2>3
    <3> HIDE DEF j
    <3>2. x[k] = v[1 + j]
      BY <1>60, <3>1
    <3> QED
      BY <1>3, <1>5, <3>1, <3>2
  <2>4. k \in Int /\ p \in Int /\ a \in Int
    OBVIOUS
  <2>5. k <= p - 1 - a \/ k = p - a \/ k > p - a
    BY <2>4
  <2> QED
    BY <2>1, <2>2, <2>3, <2>5
<1>8. x = r
  BY <1>3, <1>6, <1>60, <1>7, SeqEqual
<1> QED
  BY <1>8 DEF u, v, w, c, r, x
-----------------------------------------------------------------------------
(* A drive's digit, a colon and a slash. *)
HasRoot(p) == Len(p) >= 3 /\ p[1] \in 48..57 /\ p[2] = COLON /\ p[3] = SLASH

LEMMA ValidIs ==
  ASSUME NEW p \in Seq(Chars)
  PROVE  pathparser_path_is_valid(p) <=> HasRoot(p)
<1>1. strnlen(p, MAX_PATH_LEN) >= 3 <=> Len(p) >= 3
  BY ParserAssumption, StrnlenIs
<1>2. ASSUME Len(p) >= 3 PROVE memcmp(<<COLON, SLASH>>, SubSeq(p, 2, 3), 2) = 0 <=> p[2] = COLON /\ p[3] = SLASH
  <2> DEFINE t == SubSeq(p, 2, 3)
             c == <<COLON, SLASH>>
  <2>1. t[1] = p[2] /\ t[2] = p[3]
    BY <1>2
  <2>2. c[1] = COLON /\ c[2] = SLASH
    OBVIOUS
  <2> HIDE DEF t, c
  <2>3. memcmp(c, t, 2) = 0 <=> \A k \in 1..2 : c[k] = t[k]
    BY DEF memcmp
  <2>4. (\A k \in 1..2 : c[k] = t[k]) <=> (c[1] = t[1] /\ c[2] = t[2])
    OBVIOUS
  <2>5. memcmp(c, t, 2) = 0 <=> p[2] = COLON /\ p[3] = SLASH
    BY <2>1, <2>2, <2>3, <2>4
  <2> QED
    BY <2>5 DEF c, t
<1> QED
  BY <1>1, <1>2 DEF pathparser_path_is_valid, HasRoot, is_digit

LEMMA SameTriple ==
  ASSUME NEW S, NEW s \in Seq(S), NEW t \in Seq(S), Len(s) >= 3, Len(t) >= 3
  PROVE  SubSeq(s, 1, 3) = SubSeq(t, 1, 3) <=> s[1] = t[1] /\ s[2] = t[2] /\ s[3] = t[3]
<1> DEFINE u == SubSeq(s, 1, 3)
           v == SubSeq(t, 1, 3)
<1>1. u \in Seq(S) /\ Len(u) = 3 - 1 + 1 /\ \A k \in 1..(3 - 1 + 1) : u[k] = s[1 + k - 1]
  BY SubSeqIs
<1>2. v \in Seq(S) /\ Len(v) = 3 - 1 + 1 /\ \A k \in 1..(3 - 1 + 1) : v[k] = t[1 + k - 1]
  BY SubSeqIs
<1> HIDE DEF u, v
<1>3. u[1] = s[1] /\ u[2] = s[2] /\ u[3] = s[3]
  BY <1>1
<1>4. v[1] = t[1] /\ v[2] = t[2] /\ v[3] = t[3]
  BY <1>2
<1>5. ASSUME s[1] = t[1], s[2] = t[2], s[3] = t[3] PROVE u = v
  <2>1. \A k \in 1..Len(u) : k = 1 \/ k = 2 \/ k = 3
    BY <1>1
  <2>2. \A k \in 1..Len(u) : u[k] = v[k]
    BY <1>3, <1>4, <1>5, <2>1
  <2> QED
    BY <1>1, <1>2, <2>2, SeqEqual
<1> QED
  BY <1>3, <1>4, <1>5 DEF u, v

LEMMA RootedIs ==
  ASSUME path \in Seq(Chars)
  PROVE  Rooted <=> HasRoot(path)
<1>1. ASSUME NEW d PROVE IsPrefix(<<d, COLON, SLASH>>, path) <=>
        (Len(path) >= 3 /\ path[1] = d /\ path[2] = COLON /\ path[3] = SLASH)
  <2> DEFINE c == <<d, COLON, SLASH>>
             S == Chars \union {d, COLON, SLASH}
  <2>1. c \in Seq(S) /\ Len(c) = 3 /\ c[1] = d /\ c[2] = COLON /\ c[3] = SLASH
    OBVIOUS
  <2>2. path \in Seq(S)
    OBVIOUS
  <2> HIDE DEF c, S
  <2>3. IsPrefix(c, path) <=> 3 <= Len(path) /\ SubSeq(c, 1, 3) = SubSeq(path, 1, 3)
    BY <2>1 DEF IsPrefix
  <2>4. CASE Len(path) >= 3
    <3>1. SubSeq(c, 1, 3) = SubSeq(path, 1, 3) <=> c[1] = path[1] /\ c[2] = path[2] /\ c[3] = path[3]
      BY <2>1, <2>2, <2>4, SameTriple
    <3> QED
      BY <2>1, <2>3, <2>4, <3>1 DEF c
  <2>5. CASE ~(Len(path) >= 3)
    <3>1. ~(3 <= Len(path))
      BY <2>5
    <3> QED
      BY <2>3, <2>5, <3>1 DEF c
  <2> QED
    BY <2>4, <2>5
<1> QED
  BY <1>1 DEF Rooted, HasRoot

LEMMA PathEnd ==
  ASSUME path \in Seq(Chars)
  PROVE  /\ path_end \in Nat \ {0}
         /\ path_end - 1 <= Len(path) /\ path_end - 1 <= MAX_PATH_LEN
         /\ HasRoot(path) => path_end >= 4
<1>1. strnlen(path, MAX_PATH_LEN) = IF Len(path) <= MAX_PATH_LEN THEN Len(path) ELSE MAX_PATH_LEN
  BY ParserAssumption, StrnlenIs
<1>2. Len(path) \in Nat
  OBVIOUS
<1> QED
  BY <1>1, <1>2, ParserAssumption DEF path_end, HasRoot

(* A part reaches up to the next slash or the end of the path. *)
LEMMA PartLen ==
  ASSUME path \in Seq(Chars), path_ptr \in Nat \ {0}, path_ptr <= path_end
  PROVE  /\ part_len \in Nat /\ path_ptr + part_len <= path_end
         /\ \A k \in path_ptr..(path_ptr + part_len - 1) : path[k] # SLASH
         /\ path_ptr + part_len < path_end => path[path_ptr + part_len] = SLASH
<1>1. PICK p \in Nat, e \in Nat : p = path_ptr /\ e = path_end
  BY PathEnd
<1> DEFINE t == SubSeq(path, p, e - 1)
           m == memchr(t, SLASH, e - p)
<1>2. p # 0 /\ p <= e /\ e - 1 <= Len(path) /\ e - p \in Nat /\ e - 1 \in Nat
  BY <1>1, PathEnd
<1>3. \A k \in 1..(e - p) : t[k] = path[p + k - 1]
  <2>1. \A k \in 1..((e - 1) - p + 1) : t[k] = path[p + k - 1]
    BY <1>2, SubSeqIs
  <2> QED
    BY <1>2, <2>1
<1>4. part_len = IF m # 0 THEN m - 1 ELSE e - p
  BY <1>1 DEF part_len
<1> HIDE DEF t
<1>5. \/ m = 0 /\ \A k \in 1..(e - p) : t[k] # SLASH
      \/ m \in 1..(e - p) /\ t[m] = SLASH /\ \A k \in 1..(m - 1) : t[k] # SLASH
  BY <1>2, MemchrIs
<1> HIDE DEF m
<1>6. PICK l : l = part_len
  OBVIOUS
<1>7. ASSUME NEW k \in p..(p + l - 1), l \in Nat, p + l <= e, \A j \in 1..l : t[j] # SLASH
      PROVE  path[k] # SLASH
  <2>1. k - p + 1 \in 1..l /\ k - p + 1 \in 1..(e - p) /\ p + (k - p + 1) - 1 = k
    BY <1>2, <1>7
  <2> QED
    BY <1>3, <1>7, <2>1
<1>8. CASE m = 0 /\ \A k \in 1..(e - p) : t[k] # SLASH
  <2>1. l = e - p
    BY <1>4, <1>6, <1>8
  <2>2. l \in Nat /\ p + l <= e /\ \A j \in 1..l : t[j] # SLASH
    BY <1>2, <1>8, <2>1
  <2>3. ~(p + l < e)
    BY <1>2, <2>1
  <2> QED
    BY <1>1, <1>6, <1>7, <2>2, <2>3
<1>9. CASE m \in 1..(e - p) /\ t[m] = SLASH /\ \A k \in 1..(m - 1) : t[k] # SLASH
  <2>1. l = m - 1
    BY <1>4, <1>6, <1>9
  <2>2. l \in Nat /\ p + l <= e /\ \A j \in 1..l : t[j] # SLASH
    BY <1>2, <1>9, <2>1
  <2>3. path[p + l] = SLASH
    <3>1. p + m - 1 = p + l
      BY <1>2, <1>9, <2>1
    <3> QED
      BY <1>3, <1>9, <3>1
  <2> QED
    BY <1>1, <1>6, <1>7, <2>2, <2>3
<1> QED
  BY <1>5, <1>8, <1>9
-----------------------------------------------------------------------------
(* The blocks of a list of parts: the root, a segment for each part, and   *)
(* its name if it has one.                                                 *)
Named(ps)  == {k \in DOMAIN ps : ps[k] # <<>>}
Blocks(ps) == 1 + Len(ps) + Cardinality(Named(ps))

LEMMA BlocksOfNone == Blocks(<<>>) = 1
<1>1. Named(<<>>) = {} /\ Len(<<>>) = 0
  BY DEF Named
<1> QED
  BY <1>1, FS_EmptySet DEF Blocks

LEMMA NamedFinite ==
  ASSUME NEW ps \in Seq(Seq(Chars))
  PROVE  IsFiniteSet(Named(ps)) /\ Cardinality(Named(ps)) \in Nat /\ Blocks(ps) \in Nat
<1>1. Named(ps) \subseteq 1..Len(ps) /\ Len(ps) \in Nat
  BY DEF Named
<1>2. IsFiniteSet(1..Len(ps))
  BY <1>1, FS_Interval
<1>3. IsFiniteSet(Named(ps))
  BY <1>1, <1>2, FS_Subset
<1>4. Cardinality(Named(ps)) \in Nat
  BY <1>3, FS_CardinalityType
<1> QED
  BY <1>1, <1>3, <1>4 DEF Blocks

LEMMA BlocksOfOneMore ==
  ASSUME NEW ps \in Seq(Seq(Chars)), NEW x \in Seq(Chars)
  PROVE  Blocks(Append(ps, x)) = Blocks(ps) + (IF x = <<>> THEN 1 ELSE 2)
<1> DEFINE qs == Append(ps, x)
           last == Len(ps) + 1
<1>1. /\ Len(ps) \in Nat /\ Len(qs) = last /\ DOMAIN qs = 1..last /\ DOMAIN ps = 1..Len(ps)
      /\ qs[last] = x
  OBVIOUS
<1>2. \A k \in 1..Len(ps) : qs[k] = ps[k]
  OBVIOUS
<1> HIDE DEF qs
<1>3. IsFiniteSet(Named(ps)) /\ Cardinality(Named(ps)) \in Nat /\ last \notin Named(ps)
  <2>1. last \notin Named(ps)
    BY <1>1 DEF Named
  <2> QED
    BY <2>1, NamedFinite
<1>4. CASE x = <<>>
  <2>1. Named(qs) = Named(ps)
    BY <1>1, <1>2, <1>4 DEF Named
  <2> QED
    BY <1>1, <1>3, <1>4, <2>1 DEF Blocks, qs
<1>5. CASE x # <<>>
  <2>1. Named(qs) = Named(ps) \cup {last}
    BY <1>1, <1>2, <1>5 DEF Named
  <2>2. Cardinality(Named(qs)) = Cardinality(Named(ps)) + 1
    BY <1>3, <2>1, FS_AddElement
  <2> QED
    BY <1>1, <1>3, <1>5, <2>2 DEF Blocks, qs
<1> QED
  BY <1>4, <1>5

(* Each part with a slash before it. *)
Slashed(ps, len) == [k \in 1..len |-> <<SLASH>> \o ps[k]]

LEMMA SlashedSnoc ==
  ASSUME NEW ps \in Seq(Seq(Chars)), NEW x \in Seq(Chars)
  PROVE  /\ Slashed(ps, Len(ps)) \in Seq(Seq(Chars))
         /\ Slashed(Append(ps, x), Len(ps)) = Slashed(ps, Len(ps))
         /\ Slashed(Append(ps, x), Len(ps) + 1) = Append(Slashed(ps, Len(ps)), <<SLASH>> \o x)
<1> DEFINE qs == Append(ps, x)
           c == <<SLASH>>
           b == Slashed(ps, Len(ps))
<1>1. Len(ps) \in Nat /\ qs[Len(ps) + 1] = x /\ \A k \in 1..Len(ps) : qs[k] = ps[k]
  OBVIOUS
<1>2. c \in Seq(Chars)
  BY DEF Chars, SLASH
<1> HIDE DEF qs, c
<1>3. \A k \in 1..Len(ps) : c \o ps[k] \in Seq(Chars)
  <2> SUFFICES ASSUME NEW k \in 1..Len(ps) PROVE c \o ps[k] \in Seq(Chars)
    OBVIOUS
  <2>1. ps[k] \in Seq(Chars)
    OBVIOUS
  <2> QED
    BY <1>2, <2>1
<1>4. b \in Seq(Seq(Chars)) /\ Len(b) = Len(ps) /\ \A k \in 1..Len(ps) : b[k] = c \o ps[k]
  BY <1>3 DEF Slashed, c
<1>5. Slashed(qs, Len(ps)) = b
  BY <1>1 DEF Slashed
<1>6. Slashed(qs, Len(ps) + 1) = Append(b, c \o x)
  <2> DEFINE y == c \o x
             d == Append(b, y)
  <2>1. y \in Seq(Chars)
    BY <1>2
  <2> HIDE DEF y
  <2> HIDE DEF b
  <2>2. d \in Seq(Seq(Chars)) /\ Len(d) = Len(ps) + 1 /\ d[Len(ps) + 1] = y
    BY <1>1, <1>4, <2>1
  <2>3. \A k \in 1..Len(ps) : d[k] = b[k]
    BY <1>1, <1>4, <2>1
  <2> HIDE DEF d
  <2>4. d = [k \in 1..(Len(ps) + 1) |-> d[k]]
    BY <2>2
  <2>5. ASSUME NEW k \in 1..(Len(ps) + 1) PROVE d[k] = c \o qs[k]
    <3>1. CASE k = Len(ps) + 1
      BY <1>1, <2>2, <3>1 DEF y
    <3>2. CASE k # Len(ps) + 1
      <4>1. k \in 1..Len(ps)
        BY <1>1, <3>2
      <4> QED
        BY <1>1, <1>4, <2>3, <4>1
    <3> QED
      BY <3>1, <3>2
  <2>6. [k \in 1..(Len(ps) + 1) |-> d[k]] = [k \in 1..(Len(ps) + 1) |-> c \o qs[k]]
    BY <2>5
  <2> QED
    BY <2>4, <2>6 DEF Slashed, d, y, c
<1> QED
  BY <1>4, <1>5, <1>6 DEF qs, c
-----------------------------------------------------------------------------
Active == pc \in {"loop", "parsed"}

(* The parser has read whole parts, each with the slash before it, and     *)
(* stands behind a slash or behind the end.                                *)
Place ==
  Active => /\ HasRoot(path)
            /\ path_ptr \in 4..(path_end + 1)
            /\ path_ptr <= path_end => path[path_ptr - 1] = SLASH

Held == blocks = IF Active THEN Blocks(parts) ELSE 0

Complete ==
  Active /\ ~low => /\ \A k \in 1..Len(parts) : Plain(parts[k])
                    /\ FlattenSeq(Slashed(parts, Len(parts))) = SubSeq(path, 3, path_ptr - 2)

(* Once a request failed there is no memory for another part. *)
Shortened ==
  Active /\ low =>
    /\ memory = 0
    /\ \E len \in 0..Len(parts), e \in 2..(path_end - 2) :
         /\ len >= Len(parts) - 1
         /\ \A k \in 1..len : Plain(parts[k])
         /\ FlattenSeq(Slashed(parts, len)) = SubSeq(path, 3, e)

Stopped == pc = "parsed" => path_ptr > path_end \/ part_len = 0

Refused == pc = "null" /\ memory > 0 => ~HasRoot(path)

PInv ==
  /\ TypeOK /\ path \in Seq(Chars) /\ parts \in Seq(Seq(Chars))
  /\ Place /\ Held /\ Complete /\ Shortened /\ Stopped /\ Refused

LEMMA Bounds == MAX_PATH_LEN \in Nat /\ MAX_PATH_LEN >= 3 /\ MaxMemory \in Nat
  BY ParserAssumption

LEMMA PInvInit == Init => PInv
<1> SUFFICES ASSUME Init PROVE PInv
  OBVIOUS
<1>1. TypeOK
  <2>1. low \in BOOLEAN
    BY DEF Init
  <2>2. pc \in {"idle", "loop", "parsed", "freed", "null"} /\ blocks \in Nat
    BY DEF Init
  <2>3. path_ptr \in 1..(MAX_PATH_LEN + 2) /\ memory \in 0..MaxMemory
    BY Bounds DEF Init
  <2> QED
    BY <2>1, <2>2, <2>3 DEF TypeOK
<1>2. path \in Seq(Chars) /\ parts \in Seq(Seq(Chars)) /\ ~Active
  BY DEF Active, Init
<1> USE DEF Init
<1>3. Place /\ Held /\ Complete /\ Shortened /\ Stopped /\ Refused
  BY <1>2 DEF Place, Held, Complete, Shortened, Stopped, Refused
<1> QED
  BY <1>1, <1>2, <1>3 DEF PInv

LEMMA FourWithin == \A e \in Nat : e >= 4 => 4 \in 4..(e + 1)
  OBVIOUS

LEMMA ParseBegins ==
  ASSUME PInv, NEW p \in Paths, NEW budget \in 0..MaxMemory, pathparser_path_parse(p, budget)
  PROVE  PInv'
<1>1. p \in Seq(Chars)
  BY ParserAssumption DEF Chars
<1>2. pathparser_path_is_valid(p) <=> HasRoot(p)
  BY <1>1, ValidIs
<1>3. path' = p /\ path_ptr' = 4 /\ parts' = <<>> /\ low' = FALSE
  BY DEF pathparser_path_parse
<1>4. path' \in Seq(Chars) /\ parts' \in Seq(Seq(Chars))
  BY <1>1, <1>3
<1>5. CASE HasRoot(p) /\ budget > 0
  <2>1. pc' = "loop" /\ memory' = budget - 1 /\ blocks' = 1
    BY <1>2, <1>5 DEF pathparser_path_parse
  <2>2. TypeOK'
    <3>1. low' \in BOOLEAN
      BY <1>3
    <3>2. pc' \in {"idle", "loop", "parsed", "freed", "null"} /\ blocks' \in Nat
      BY <2>1
    <3>3. path_ptr' \in 1..(MAX_PATH_LEN + 2)
      BY <1>3, Bounds
    <3>4. memory' \in 0..MaxMemory
      BY <2>1, <1>5, Bounds
    <3> QED
      BY <3>1, <3>2, <3>3, <3>4 DEF TypeOK
  <2>3. path_end' \in Nat /\ path_end' >= 4
    <3>1. strnlen(p, MAX_PATH_LEN) = IF Len(p) <= MAX_PATH_LEN THEN Len(p) ELSE MAX_PATH_LEN
      BY <1>1, ParserAssumption, StrnlenIs
    <3>2. path_end' = strnlen(p, MAX_PATH_LEN) + 1
      BY <1>3 DEF path_end
    <3>3. Len(p) \in Nat
      BY <1>1
    <3> QED
      BY <1>5, <3>1, <3>2, <3>3, ParserAssumption DEF HasRoot
  <2>4. Place'
    <3>1. HasRoot(path')
      BY <1>3, <1>5
    <3>2. p[3] = SLASH
      BY <1>5 DEF HasRoot
    <3>3. path'[path_ptr' - 1] = SLASH
      BY <1>3, <3>2
    <3>4. path_ptr' \in 4..(path_end' + 1)
      <4>1. PICK e \in Nat : e = path_end' /\ e >= 4
        BY <2>3
      <4>2. 4 \in 4..(e + 1)
        BY <4>1, FourWithin
      <4> QED
        BY <1>3, <4>1, <4>2
    <3> QED
      BY <3>1, <3>3, <3>4 DEF Place
  <2>5. Held'
    BY <1>3, <2>1, BlocksOfNone DEF Held, Active
  <2>6. Complete'
    <3>1. Len(<<>>) = 0 /\ Slashed(<<>>, 0) = <<>>
      BY DEF Slashed
    <3>2. SubSeq(p, 3, 4 - 2) = <<>>
      BY <1>1
    <3>3. path_ptr' - 2 = 4 - 2 /\ Len(parts') = 0
      BY <1>3, <3>1
    <3>4. \A k \in 1..Len(parts') : Plain(parts'[k])
      BY <3>3
    <3>5. FlattenSeq(Slashed(parts', Len(parts'))) = SubSeq(path', 3, path_ptr' - 2)
      BY <1>3, <3>1, <3>2, <3>3, FlattenEmpty
    <3> QED
      BY <3>4, <3>5 DEF Complete
  <2> QED
    BY <1>3, <1>4, <2>1, <2>2, <2>4, <2>5, <2>6 DEF PInv, Shortened, Stopped, Refused
<1>6. CASE ~(HasRoot(p) /\ budget > 0)
  <2>1. pc' = "null" /\ memory' = budget /\ blocks' = 0
    BY <1>2, <1>6 DEF pathparser_path_parse
  <2>2. TypeOK'
    <3>1. low' \in BOOLEAN
      BY <1>3
    <3>2. pc' \in {"idle", "loop", "parsed", "freed", "null"} /\ blocks' \in Nat
      BY <2>1
    <3>3. path_ptr' \in 1..(MAX_PATH_LEN + 2)
      BY <1>3, Bounds
    <3>4. memory' \in 0..MaxMemory
      BY <2>1, Bounds
    <3> QED
      BY <3>1, <3>2, <3>3, <3>4 DEF TypeOK
  <2>3. ~Active'
    BY <2>1 DEF Active
  <2>4. Place' /\ Held' /\ Complete' /\ Shortened' /\ Stopped'
    BY <2>1, <2>3 DEF Place, Held, Complete, Shortened, Stopped
  <2>5. Refused'
    BY <1>3, <1>6, <2>1 DEF Refused
  <2> QED
    BY <1>4, <2>2, <2>4, <2>5 DEF PInv
<1> QED
  BY <1>5, <1>6

(* What a turn of the loop reads. *)
LEMMA TurnReads ==
  ASSUME PInv, ParsePart
  PROVE  /\ part_len \in Nat \ {0} /\ path_ptr \in Nat /\ path_ptr >= 4
         /\ path_ptr + part_len <= path_end /\ path[path_ptr - 1] = SLASH
         /\ path_end \in Nat /\ path_end - 1 <= Len(path) /\ path_end - 1 <= MAX_PATH_LEN
         /\ HasRoot(path)
         /\ path_ptr + part_len < path_end => path[path_ptr + part_len] = SLASH
         /\ SubSeq(path, path_ptr, path_ptr + part_len - 1) \in Seq(Chars)
         /\ SubSeq(path, path_ptr, path_ptr + part_len - 1) # <<>>
         /\ Plain(SubSeq(path, path_ptr, path_ptr + part_len - 1))
<1>1. path \in Seq(Chars) /\ path_ptr \in Nat \ {0} /\ path_ptr >= 4 /\ path_ptr <= path_end
      /\ HasRoot(path) /\ path[path_ptr - 1] = SLASH /\ part_len # 0
  <2>1. Active /\ path_ptr <= path_end /\ part_len # 0
    BY DEF ParsePart, Active
  <2>2. path_end \in Nat
    BY PathEnd DEF PInv
  <2> QED
    BY <2>1, <2>2 DEF PInv, Place
<1>2. /\ part_len \in Nat /\ path_ptr + part_len <= path_end
      /\ \A k \in path_ptr..(path_ptr + part_len - 1) : path[k] # SLASH
      /\ path_ptr + part_len < path_end => path[path_ptr + part_len] = SLASH
  BY <1>1, PartLen
<1>3. path_end \in Nat \ {0} /\ path_end - 1 <= Len(path) /\ path_end - 1 <= MAX_PATH_LEN
  BY <1>1, PathEnd
<1>4. PICK p \in Nat, l \in Nat, e \in Nat : p = path_ptr /\ l = part_len /\ e = path_end
  BY <1>1, <1>2, <1>3
<1> DEFINE b == p + l - 1
           x == SubSeq(path, p, b)
<1>5. p \in Nat \ {0} /\ l # 0 /\ b \in Nat /\ b <= Len(path) /\ p <= b + 1 /\ b - p + 1 = l
  BY <1>1, <1>2, <1>3, <1>4
<1> HIDE DEF b
<1>6. /\ x \in Seq(Chars) /\ Len(x) = b - p + 1
      /\ \A k \in 1..(b - p + 1) : x[k] = path[p + k - 1]
  BY <1>1, <1>5, SubSeqIs
<1> HIDE DEF x
<1>7. x # <<>>
  <2>1. Len(x) # 0
    BY <1>5, <1>6
  <2> QED
    BY <2>1
<1>8. \A k \in DOMAIN x : x[k] # SLASH
  <2> SUFFICES ASSUME NEW k \in 1..l PROVE x[k] # SLASH
    BY <1>5, <1>6
  <2>1. p + k - 1 \in p..(p + l - 1)
    BY <1>5
  <2> QED
    BY <1>2, <1>4, <1>5, <1>6, <2>1
<1>9. Plain(x)
  BY <1>7, <1>8 DEF Plain
<1> QED
  BY <1>1, <1>2, <1>3, <1>4, <1>6, <1>7, <1>9 DEF x, b

LEMMA PartKeeps ==
  ASSUME PInv, ParsePart
  PROVE  PInv'
<1>0. PICK p \in Nat, l \in Nat \ {0}, e \in Nat, m \in 0..MaxMemory, h \in Nat :
        p = path_ptr /\ l = part_len /\ e = path_end /\ m = memory /\ h = blocks
  BY TurnReads DEF PInv, TypeOK
<1> DEFINE x == SubSeq(path, p, p + l - 1)
<1>1. /\ p >= 4 /\ p + l <= e /\ path[p - 1] = SLASH /\ e - 1 <= Len(path)
      /\ e - 1 <= MAX_PATH_LEN /\ HasRoot(path)
      /\ p + l < e => path[p + l] = SLASH
      /\ x \in Seq(Chars) /\ x # <<>> /\ Plain(x)
  BY <1>0, TurnReads
<1>2. path \in Seq(Chars) /\ parts \in Seq(Seq(Chars)) /\ low \in BOOLEAN
  BY DEF PInv, TypeOK
<1>3. pc = "loop" /\ pc' = "loop" /\ path' = path /\ path_ptr' = p + l + 1
  BY <1>0 DEF ParsePart
<1>4. /\ parts' = IF m >= 1 THEN Append(parts, IF m >= 2 THEN x ELSE <<>>) ELSE parts
      /\ memory' = IF m >= 2 THEN m - 2 ELSE 0
      /\ blocks' = h + m - memory'
      /\ low' = (low \/ ~(m >= 2))
  BY <1>0 DEF ParsePart
<1> HIDE DEF x
<1>5. path_end' = path_end /\ Active /\ Active'
  BY <1>3 DEF path_end, Active
<1>6. parts' \in Seq(Seq(Chars))
  <2>1. <<>> \in Seq(Chars)
    OBVIOUS
  <2>2. (IF m >= 2 THEN x ELSE <<>>) \in Seq(Chars)
    BY <1>1, <2>1
  <2> QED
    BY <1>2, <1>4, <2>2
<1>7. TypeOK'
  <2>1. low' \in BOOLEAN
    BY <1>4
  <2>2. path_ptr' \in 1..(MAX_PATH_LEN + 2)
    BY <1>1, <1>3, Bounds
  <2>3. memory' \in 0..MaxMemory /\ blocks' \in Nat
    BY <1>4, Bounds
  <2> QED
    BY <1>3, <2>1, <2>2, <2>3 DEF TypeOK
<1>8. Place'
  <2>1. path_ptr' \in 4..(path_end' + 1)
    BY <1>0, <1>1, <1>3, <1>5
  <2>2. ASSUME path_ptr' <= path_end' PROVE path'[path_ptr' - 1] = SLASH
    <3>1. p + l < e /\ path_ptr' - 1 = p + l
      BY <1>0, <1>3, <1>5, <2>2
    <3> QED
      BY <1>1, <1>3, <3>1
  <2>3. HasRoot(path')
    BY <1>1, <1>3
  <2> QED
    BY <2>1, <2>2, <2>3 DEF Place
<1>9. Held'
  <2>1. h = Blocks(parts)
    BY <1>0, <1>5 DEF PInv, Held
  <2>2. CASE m >= 2
    <3>1. Blocks(parts') = h + 2
      BY <1>1, <1>2, <1>4, <2>1, <2>2, BlocksOfOneMore
    <3>2. blocks' = h + 2
      BY <1>4, <2>2
    <3> QED
      BY <1>5, <3>1, <3>2 DEF Held
  <2>3. CASE m = 1
    <3>1. parts' = Append(parts, <<>>) /\ <<>> \in Seq(Chars)
      BY <1>4, <2>3
    <3>2. Blocks(parts') = h + 1
      BY <1>2, <2>1, <3>1, BlocksOfOneMore
    <3>3. blocks' = h + 1
      BY <1>4, <2>3
    <3> QED
      BY <1>5, <3>2, <3>3 DEF Held
  <2>4. CASE m = 0
    <3>1. parts' = parts /\ blocks' = h
      BY <1>4, <2>4
    <3> QED
      BY <1>5, <2>1, <3>1 DEF Held
  <2> QED
    BY <2>2, <2>3, <2>4
<1>10. /\ Slashed(parts, Len(parts)) \in Seq(Seq(Chars))
       /\ ~low => /\ \A k \in 1..Len(parts) : Plain(parts[k])
                  /\ FlattenSeq(Slashed(parts, Len(parts))) = SubSeq(path, 3, p - 2)
  BY <1>0, <1>1, <1>2, <1>5, SlashedSnoc DEF PInv, Complete
<1>11. Complete'
  <2> SUFFICES ASSUME ~low' PROVE /\ \A k \in 1..Len(parts') : Plain(parts'[k])
               /\ FlattenSeq(Slashed(parts', Len(parts'))) = SubSeq(path', 3, path_ptr' - 2)
    BY DEF Complete
  <2>1. ~low /\ m >= 2
    BY <1>4
  <2>2. parts' = Append(parts, x)
    BY <1>4, <2>1
  <2>3. /\ Len(parts) \in Nat /\ Len(parts') = Len(parts) + 1 /\ parts'[Len(parts) + 1] = x
        /\ \A k \in 1..Len(parts) : parts'[k] = parts[k]
    BY <1>1, <1>2, <2>2
  <2>4. ASSUME NEW k \in 1..Len(parts') PROVE Plain(parts'[k])
    <3>1. CASE k = Len(parts) + 1
      BY <1>1, <2>3, <3>1
    <3>2. CASE k # Len(parts) + 1
      <4>1. k \in 1..Len(parts)
        BY <2>3, <3>2
      <4> QED
        BY <1>10, <2>1, <2>3, <4>1
    <3> QED
      BY <3>1, <3>2
  <2>5. Slashed(parts', Len(parts')) = Append(Slashed(parts, Len(parts)), <<SLASH>> \o x)
    BY <1>1, <1>2, <2>2, <2>3, SlashedSnoc
  <2> DEFINE b == Slashed(parts, Len(parts))
             y == <<SLASH>> \o x
  <2>6. y \in Seq(Chars)
    <3>1. <<SLASH>> \in Seq(Chars)
      BY DEF Chars, SLASH
    <3> QED
      BY <1>1, <3>1
  <2> HIDE DEF b, y
  <2>7. FlattenSeq(Append(b, y)) = FlattenSeq(b) \o y
    BY <1>10, <2>6, FlattenSnoc DEF b
  <2>8. SubSeq(path, 3, p - 2) \o (<<path[p - 1]>> \o x) = SubSeq(path, 3, p + l - 1)
    <3>1. p + l - 1 \in Nat /\ p <= (p + l - 1) + 1 /\ p + l - 1 <= Len(path) /\ 3 < p /\ Len(path) \in Nat
      BY <1>1, <1>2
    <3> QED
      BY <1>2, <3>1, Rejoined DEF x
  <2>9. path_ptr' - 2 = p + l - 1
    BY <1>3
  <2> QED
    BY <1>1, <1>3, <1>10, <2>1, <2>4, <2>5, <2>7, <2>8, <2>9 DEF b, y
<1>12. Shortened'
  <2> SUFFICES ASSUME low' PROVE
         /\ memory' = 0
         /\ \E len \in 0..Len(parts'), d \in 2..(path_end' - 2) :
              /\ len >= Len(parts') - 1
              /\ \A k \in 1..len : Plain(parts'[k])
              /\ FlattenSeq(Slashed(parts', len)) = SubSeq(path', 3, d)
    BY DEF Shortened
  <2>1. CASE low
    <3>1. /\ memory = 0
          /\ \E len \in 0..Len(parts), d \in 2..(path_end - 2) :
               /\ len >= Len(parts) - 1
               /\ \A k \in 1..len : Plain(parts[k])
               /\ FlattenSeq(Slashed(parts, len)) = SubSeq(path, 3, d)
      BY <1>5, <2>1 DEF PInv, Shortened
    <3>2. parts' = parts /\ memory' = 0
      BY <1>0, <1>4, <3>1
    <3> QED
      BY <1>3, <1>5, <3>1, <3>2
  <2>2. CASE ~low
    <3>1. ~(m >= 2)
      BY <1>4, <2>2
    <3>2. memory' = 0
      BY <1>4, <3>1
    <3>3. /\ Len(parts) \in Nat
          /\ \/ parts' = parts
             \/ parts' = Append(parts, <<>>)
      BY <1>2, <1>4, <3>1
    <3>4. /\ Len(parts) \in 0..Len(parts') /\ Len(parts) >= Len(parts') - 1
          /\ \A k \in 1..Len(parts) : parts'[k] = parts[k]
      <4>1. CASE parts' = parts
        BY <3>3, <4>1
      <4>2. CASE parts' = Append(parts, <<>>)
        <5>1. <<>> \in Seq(Chars)
          OBVIOUS
        <5>2. Len(parts') = Len(parts) + 1 /\ \A k \in 1..Len(parts) : parts'[k] = parts[k]
          BY <1>2, <4>2, <5>1
        <5> QED
          BY <3>3, <5>2
      <4> QED
        BY <3>3, <4>1, <4>2
    <3>5. Slashed(parts', Len(parts)) = Slashed(parts, Len(parts))
      BY <3>4 DEF Slashed
    <3>6. p - 2 \in 2..(path_end' - 2)
      BY <1>0, <1>1, <1>5
    <3>7. \A k \in 1..Len(parts) : Plain(parts'[k])
      BY <1>10, <2>2, <3>4
    <3>8. FlattenSeq(Slashed(parts', Len(parts))) = SubSeq(path', 3, p - 2)
      BY <1>3, <1>10, <2>2, <3>5
    <3> QED
      BY <3>2, <3>4, <3>6, <3>7, <3>8
  <2> QED
    BY <2>1, <2>2
<1>13. Stopped' /\ Refused'
  BY <1>3 DEF Stopped, Refused
<1> QED
  BY <1>2, <1>3, <1>6, <1>7, <1>8, <1>9, <1>11, <1>12, <1>13 DEF PInv

LEMMA OthersKeep ==
  ASSUME PInv, ParseEnds \/ pathparse_path_free \/ Done
  PROVE  PInv'
<1>1. path \in Seq(Chars) /\ parts \in Seq(Seq(Chars)) /\ TypeOK
  BY DEF PInv
<1>2. CASE ParseEnds
  <2>1. /\ pc = "loop" /\ pc' = "parsed" /\ path' = path /\ path_ptr' = path_ptr
        /\ parts' = parts /\ memory' = memory /\ blocks' = blocks /\ low' = low
    BY <1>2 DEF ParseEnds
  <2>2. Active /\ Active' /\ path_end' = path_end /\ part_len' = part_len
    BY <2>1 DEF Active, path_end, part_len
  <2>3. Stopped'
    BY <1>2, <2>1, <2>2 DEF Stopped, ParseEnds
  <2>4. TypeOK'
    BY <1>1, <2>1 DEF TypeOK
  <2>5. Place' /\ Held' /\ Complete' /\ Refused'
    BY <2>1, <2>2 DEF PInv, Place, Held, Complete, Refused
  <2>6. Shortened'
    BY <2>1, <2>2 DEF PInv, Shortened
  <2> QED
    BY <1>1, <2>1, <2>3, <2>4, <2>5, <2>6 DEF PInv
<1>3. CASE pathparse_path_free
  <2>1. /\ pc = "parsed" /\ pc' = "freed" /\ path' = path /\ path_ptr' = path_ptr
        /\ parts' = parts /\ memory' = memory /\ low' = low /\ blocks' = blocks - Freed
    BY <1>3 DEF pathparse_path_free
  <2>2. blocks = Blocks(parts) /\ Freed = Blocks(parts)
    BY <2>1 DEF PInv, Held, Active, Freed, Blocks, Named
  <2>3. blocks' = 0
    BY <1>1, <2>1, <2>2, NamedFinite
  <2>4. TypeOK'
    BY <1>1, <2>1, <2>3 DEF TypeOK
  <2>5. Place' /\ Held' /\ Complete' /\ Shortened' /\ Stopped' /\ Refused'
    BY <2>1, <2>3 DEF Active, Place, Held, Complete, Shortened, Stopped, Refused
  <2> QED
    BY <1>1, <2>1, <2>4, <2>5 DEF PInv
<1>4. CASE Done
  <2>1. /\ pc \in {"null", "freed"} /\ pc' = "idle" /\ path' = <<>> /\ path_ptr' = 1
        /\ parts' = <<>> /\ memory' = 0 /\ low' = FALSE /\ blocks' = blocks
    BY <1>4 DEF Done
  <2>2. blocks' = 0
    BY <2>1 DEF PInv, Held, Active
  <2>3. TypeOK'
    <3>1. low' \in BOOLEAN
      BY <2>1
    <3>2. path_ptr' \in 1..(MAX_PATH_LEN + 2) /\ memory' \in 0..MaxMemory
      BY <2>1, Bounds
    <3> QED
      BY <2>1, <2>2, <3>1, <3>2 DEF TypeOK
  <2>4. path' \in Seq(Chars) /\ parts' \in Seq(Seq(Chars))
    BY <2>1
  <2>5. Place' /\ Held' /\ Complete' /\ Shortened' /\ Stopped' /\ Refused'
    BY <2>1, <2>2 DEF Active, Place, Held, Complete, Shortened, Stopped, Refused
  <2> QED
    BY <2>3, <2>4, <2>5 DEF PInv
<1> QED
  BY <1>2, <1>3, <1>4

LEMMA PInvNext == PInv /\ [Next]_vars => PInv'
<1> SUFFICES ASSUME PInv, [Next]_vars PROVE PInv'
  OBVIOUS
<1>1. ASSUME NEW p \in Paths, NEW budget \in 0..MaxMemory, pathparser_path_parse(p, budget)
      PROVE  PInv'
  BY <1>1, ParseBegins
<1>2. CASE ParsePart
  BY <1>2, PartKeeps
<1>3. CASE ParseEnds \/ pathparse_path_free \/ Done
  BY <1>3, OthersKeep
<1>4. CASE UNCHANGED vars
  <2>1. /\ pc' = pc /\ path' = path /\ path_ptr' = path_ptr /\ parts' = parts
        /\ memory' = memory /\ blocks' = blocks /\ low' = low
    BY <1>4 DEF vars
  <2>2. Active' = Active /\ path_end' = path_end /\ part_len' = part_len
    BY <2>1 DEF Active, path_end, part_len
  <2>3. TypeOK' /\ Refused' /\ Stopped'
    BY <2>1, <2>2 DEF PInv, TypeOK, Refused, Stopped
  <2>4. Place' /\ Held' /\ Complete' /\ Shortened'
    BY <2>1, <2>2 DEF PInv, Place, Held, Complete, Shortened
  <2> QED
    BY <2>1, <2>3, <2>4 DEF PInv
<1> QED
  BY <1>1, <1>2, <1>3, <1>4 DEF Next

LEMMA PInvHolds == Spec => []PInv
<1>1. Init => PInv
  BY PInvInit
<1>2. PInv /\ [Next]_vars => PInv'
  BY PInvNext
<1> QED
  BY <1>1, <1>2, PTL DEF Spec

(* Wherever memory runs out in a parse, no block is lost and none is freed *)
(* twice (path_parser.c:22-81).                                            *)
THEOREM ParserKeepsNothing == Spec => []NothingKept
<1>1. PInv => NothingKept
  BY DEF PInv, Held, Active, NothingKept
<1> QED
  BY <1>1, PInvHolds, PTL

LEMMA PrefixIs ==
  ASSUME NEW S, NEW s \in Seq(S), NEW a \in Nat \ {0}, NEW b \in Nat, NEW c \in Nat,
         a <= b + 1, b <= c, c <= Len(s)
  PROVE  IsPrefix(SubSeq(s, a, b), SubSeq(s, a, c)) /\ (b < c => SubSeq(s, a, b) # SubSeq(s, a, c))
<1> DEFINE u == SubSeq(s, a, b)
           v == SubSeq(s, a, c)
           l == b - a + 1
<1>1. u \in Seq(S) /\ Len(u) = b - a + 1 /\ \A k \in 1..(b - a + 1) : u[k] = s[a + k - 1]
  BY SubSeqIs
<1>2. v \in Seq(S) /\ Len(v) = c - a + 1 /\ \A k \in 1..(c - a + 1) : v[k] = s[a + k - 1]
  BY SubSeqIs
<1>3. l \in Nat /\ l <= c - a + 1
  OBVIOUS
<1> HIDE DEF u, v
<1>4. l <= Len(v) /\ Len(u) = l
  BY <1>1, <1>2, <1>3
<1> HIDE DEF l
<1>5. /\ SubSeq(u, 1, l) \in Seq(S) /\ Len(SubSeq(u, 1, l)) = l - 1 + 1
      /\ \A k \in 1..(l - 1 + 1) : SubSeq(u, 1, l)[k] = u[1 + k - 1]
  BY <1>1, <1>3, <1>4, SubSeqIs
<1>6. /\ SubSeq(v, 1, l) \in Seq(S) /\ Len(SubSeq(v, 1, l)) = l - 1 + 1
      /\ \A k \in 1..(l - 1 + 1) : SubSeq(v, 1, l)[k] = v[1 + k - 1]
  BY <1>2, <1>3, <1>4, SubSeqIs
<1>7. ASSUME NEW k \in 1..l PROVE u[k] = v[k]
  <2>1. k \in 1..(b - a + 1) /\ k \in 1..(c - a + 1)
    BY <1>3 DEF l
  <2> QED
    BY <1>1, <1>2, <2>1
<1> DEFINE x == SubSeq(u, 1, l)
           y == SubSeq(v, 1, l)
<1>8. x \in Seq(S) /\ y \in Seq(S) /\ Len(x) = l /\ Len(y) = l
  BY <1>3, <1>5, <1>6
<1>9. \A k \in 1..l : x[k] = u[k] /\ y[k] = v[k]
  BY <1>3, <1>5, <1>6
<1> HIDE DEF x, y
<1>10. x = y
  BY <1>7, <1>8, <1>9, SeqEqual
<1>11. b < c => Len(u) # Len(v)
  BY <1>1, <1>2
<1>12. IsPrefix(u, v)
  BY <1>4, <1>10 DEF IsPrefix, x, y
<1>13. b < c => u # v
  BY <1>11
<1> QED
  BY <1>12, <1>13 DEF u, v

LEMMA SnocIs ==
  ASSUME NEW S, NEW s \in Seq(S), NEW a \in Nat \ {0}, NEW b \in Nat, a <= b, b <= Len(s)
  PROVE  SubSeq(s, a, b) = SubSeq(s, a, b - 1) \o <<s[b]>>
<1> DEFINE u == SubSeq(s, a, b - 1)
           v == SubSeq(s, a, b)
           w == <<s[b]>>
           x == u \o w
<1>1. v \in Seq(S) /\ Len(v) = b - a + 1 /\ \A k \in 1..(b - a + 1) : v[k] = s[a + k - 1]
  BY SubSeqIs
<1>2. u \in Seq(S) /\ Len(u) = (b - 1) - a + 1 /\ \A k \in 1..((b - 1) - a + 1) : u[k] = s[a + k - 1]
  BY SubSeqIs
<1>3. w \in Seq(S) /\ Len(w) = 1 /\ w[1] = s[b]
  OBVIOUS
<1> HIDE DEF u, v, w
<1>4. x \in Seq(S) /\ Len(x) = Len(u) + 1 /\ x[Len(u) + 1] = s[b]
  <2>1. u \in Seq(S) /\ w \in Seq(S)
    BY <1>2, <1>3
  <2>2. x \in Seq(S) /\ Len(x) = Len(u) + Len(w)
    BY <2>1
  <2>3. \A k \in 1..Len(w) : x[Len(u) + k] = w[k]
    BY <2>1
  <2> QED
    BY <1>3, <2>2, <2>3
<1>5. \A k \in 1..Len(u) : x[k] = u[k]
  BY <1>2, <1>3
<1> HIDE DEF x
<1>6. ASSUME NEW k \in 1..Len(v) PROVE v[k] = x[k]
  <2>1. k \in 1..(b - a + 1) /\ Len(u) + 1 = b - a + 1
    BY <1>1, <1>2
  <2>2. CASE k = b - a + 1
    <3>1. a + k - 1 = b
      BY <2>2
    <3> QED
      BY <1>1, <1>4, <2>1, <2>2, <3>1
  <2>3. CASE k # b - a + 1
    <3>1. k \in 1..Len(u) /\ k \in 1..((b - 1) - a + 1)
      BY <2>1, <2>3, <1>2
    <3> QED
      BY <1>1, <1>2, <1>5, <2>1, <3>1
  <2> QED
    BY <2>2, <2>3
<1>7. Len(v) = Len(x)
  BY <1>1, <1>2, <1>4
<1>8. v = x
  BY <1>1, <1>4, <1>6, <1>7, SeqEqual
<1> QED
  BY <1>8 DEF u, v, w, x

LEMMA TwoSlashes ==
  ASSUME NEW S, NEW s \in Seq(S), NEW c \in S
  PROVE  (s \o <<c>>) \o <<c>> = s \o <<c, c>>
  OBVIOUS

LEMMA JoinedIs == PInv => Joined = FlattenSeq(Slashed(parts, Len(parts))) /\ DOMAIN parts = 1..Len(parts)
<1> SUFFICES ASSUME PInv
             PROVE  Joined = FlattenSeq(Slashed(parts, Len(parts))) /\ DOMAIN parts = 1..Len(parts)
  OBVIOUS
<1>1. parts \in Seq(Seq(Chars))
  BY DEF PInv
<1>2. DOMAIN parts = 1..Len(parts)
  BY <1>1
<1>3. [k \in DOMAIN parts |-> <<SLASH>> \o parts[k]] = Slashed(parts, Len(parts))
  BY <1>2 DEF Slashed
<1> QED
  BY <1>2, <1>3 DEF Joined

LEMMA PartsAreExact == PInv => PartsExact
<1> SUFFICES ASSUME PInv PROVE PartsExact
  OBVIOUS
<1>1. path \in Seq(Chars)
  BY DEF PInv
<1>2. Rooted <=> HasRoot(path)
  BY <1>1, RootedIs
<1>3. ASSUME pc = "parsed", ~low
      PROVE  /\ \A k \in DOMAIN parts : Plain(parts[k])
             /\ \/ Tree \in {Joined, Joined \o <<SLASH>>}
                \/ IsPrefix(Joined \o <<SLASH, SLASH>>, Tree)
  <2>1. PICK p \in Nat, e \in Nat : p = path_ptr /\ e = path_end
    BY <1>1, PathEnd DEF PInv, TypeOK
  <2>2. /\ HasRoot(path) /\ p \in 4..(e + 1) /\ (p <= e => path[p - 1] = SLASH)
        /\ \A k \in 1..Len(parts) : Plain(parts[k])
        /\ FlattenSeq(Slashed(parts, Len(parts))) = SubSeq(path, 3, p - 2)
        /\ p > e \/ part_len = 0
    BY <1>3, <2>1 DEF PInv, Active, Place, Complete, Stopped
  <2>3. Joined = SubSeq(path, 3, p - 2) /\ DOMAIN parts = 1..Len(parts)
    BY <2>2, JoinedIs
  <2>4. Tree = SubSeq(path, 3, e - 1)
    BY <2>1 DEF Tree
  <2>5. e - 1 <= Len(path) /\ Len(path) \in Nat
    BY <1>1, <2>1, PathEnd
  <2>6. CASE p > e
    <3>1. p - 2 = e - 1
      BY <2>2, <2>6
    <3> QED
      BY <2>2, <2>3, <2>4, <3>1
  <2>7. CASE p <= e
    <3>1. part_len = 0 /\ path[p - 1] = SLASH
      BY <2>2, <2>7
    <3>2. p \in Nat \ {0} /\ p + 0 = p /\ 3 <= p - 1 /\ p - 1 \in Nat /\ p - 1 <= Len(path)
          /\ (p - 1) - 1 = p - 2
      BY <2>2, <2>5, <2>7
    <3>3. p < e => path[p] = SLASH
      BY <1>1, <2>1, <2>7, <3>1, <3>2, PartLen
    <3>4. SubSeq(path, 3, p - 1) = Joined \o <<SLASH>>
      BY <1>1, <2>3, <3>1, <3>2, SnocIs
    <3>5. CASE p = e
      BY <2>2, <2>3, <2>4, <3>4, <3>5
    <3>6. CASE p < e
      <4>1. path[p] = SLASH /\ p <= Len(path) /\ 3 <= p /\ p <= e - 1 /\ e - 1 \in Nat /\ 3 <= p + 1
        BY <2>2, <2>5, <3>3, <3>6
      <4>2. SubSeq(path, 3, p) = SubSeq(path, 3, p - 1) \o <<path[p]>>
        BY <1>1, <4>1, SnocIs
      <4> DEFINE j == SubSeq(path, 3, p - 2)
      <4>3. j \in Seq(Chars)
        <5>1. p - 2 \in Nat /\ p - 2 <= Len(path) /\ 3 <= (p - 2) + 1
          BY <3>2
        <5> QED
          BY <1>1, <5>1, SubSeqIs
      <4> HIDE DEF j
      <4>4. (j \o <<SLASH>>) \o <<SLASH>> = j \o <<SLASH, SLASH>>
        <5>1. SLASH \in Chars
          BY DEF SLASH, Chars
        <5> QED
          BY <4>3, <5>1, TwoSlashes
      <4>5. SubSeq(path, 3, p) = Joined \o <<SLASH, SLASH>>
        BY <2>3, <3>4, <4>1, <4>2, <4>4 DEF j
      <4>6. IsPrefix(SubSeq(path, 3, p), SubSeq(path, 3, e - 1))
        BY <1>1, <2>5, <4>1, PrefixIs
      <4> QED
        BY <2>2, <2>3, <2>4, <4>5, <4>6
    <3> QED
      BY <2>7, <3>5, <3>6
  <2> QED
    BY <2>6, <2>7
<1>4. pc \in {"loop", "parsed"} => Rooted
  BY <1>2 DEF PInv, Place, Active
<1>5. pc = "null" /\ memory > 0 => ~Rooted
  BY <1>2 DEF PInv, Refused
<1> QED
  BY <1>3, <1>4, <1>5 DEF PartsExact

LEMMA OnlyShortens == PInv => ShortensOnly
<1> SUFFICES ASSUME PInv, pc = "parsed", low
    PROVE \E len \in 0..Len(parts) :
            /\ len >= Len(parts) - 1
            /\ \A k \in 1..len : Plain(parts[k])
            /\ IsStrictPrefix(FlattenSeq([k \in 1..len |-> <<SLASH>> \o parts[k]]), Tree)
  BY DEF ShortensOnly
<1>1. PICK len \in 0..Len(parts), d \in 2..(path_end - 2) :
        /\ len >= Len(parts) - 1
        /\ \A k \in 1..len : Plain(parts[k])
        /\ FlattenSeq(Slashed(parts, len)) = SubSeq(path, 3, d)
  BY DEF PInv, Shortened, Active
<1>2. path \in Seq(Chars) /\ Len(path) \in Nat
  BY DEF PInv
<1>3. PICK e \in Nat : e = path_end /\ e - 1 <= Len(path)
  BY <1>2, PathEnd
<1>4. d \in Nat /\ 3 <= d + 1 /\ d < e - 1 /\ e - 1 \in Nat
  BY <1>3
<1>5. IsPrefix(SubSeq(path, 3, d), SubSeq(path, 3, e - 1)) /\ SubSeq(path, 3, d) # SubSeq(path, 3, e - 1)
  BY <1>2, <1>3, <1>4, PrefixIs
<1>6. IsStrictPrefix(FlattenSeq(Slashed(parts, len)), Tree)
  BY <1>1, <1>3, <1>5 DEF IsStrictPrefix, Tree
<1> QED
  BY <1>1, <1>6 DEF Slashed

(* The result of a parse, whatever the path and however much memory there  *)
(* is: the names between the slashes, or the first of them when a request  *)
(* failed (path_parser.c:22-66).                                           *)
THEOREM ParserIsExact == Spec => []PathsExact
<1>1. PInv => PathsExact
  BY PartsAreExact, OnlyShortens DEF PathsExact, PInv
<1> QED
  BY <1>1, PInvHolds, PTL
-----------------------------------------------------------------------------
(* Names. *)

(* Whole dwords and the bytes after them are all the bytes. *)
LEMMA TouchedIs ==
  ASSUME NEW len \in Nat
  PROVE  Touched(len) = 0..(len - 1)
<1> DEFINE q == len \div 4
           r == len % 4
<1>1. q \in Nat /\ r \in 0..3 /\ len = 4 * q + r
  OBVIOUS
<1>2. Touched(len) = {4 * d + b : d \in 0..(q - 1), b \in 0..3} \union {4 * q + b : b \in 0..(r - 1)}
  BY DEF Touched
<1> HIDE DEF q, r
<1>3. ASSUME NEW d \in 0..(q - 1), NEW b \in 0..3 PROVE 4 * d + b \in 0..(len - 1)
  BY <1>1
<1>4. ASSUME NEW b \in 0..(r - 1) PROVE 4 * q + b \in 0..(len - 1)
  BY <1>1
<1>5. ASSUME NEW j \in 0..(len - 1) PROVE j \in Touched(len)
  <2>1. CASE j < 4 * q
    <3>1. PICK d \in Nat, b \in 0..3 : j = 4 * d + b
      <4>1. j = 4 * (j \div 4) + (j % 4) /\ j \div 4 \in Nat /\ j % 4 \in 0..3
        OBVIOUS
      <4> QED
        BY <4>1
    <3>2. d \in 0..(q - 1)
      BY <1>1, <2>1, <3>1
    <3> QED
      BY <1>2, <3>1, <3>2
  <2>2. CASE ~(j < 4 * q)
    <3>1. j - 4 * q \in 0..(r - 1) /\ j = 4 * q + (j - 4 * q)
      BY <1>1, <2>2
    <3> QED
      BY <1>2, <3>1
  <2> QED
    BY <2>1, <2>2
<1>6. Touched(len) \subseteq 0..(len - 1)
  BY <1>2, <1>3, <1>4
<1> QED
  BY <1>5, <1>6

(* memcpy replaces the first len bytes and no other. *)
LEMMA MemcpyIs ==
  ASSUME NEW w \in Nat, NEW dest, DOMAIN dest = 1..w, NEW src, NEW from, NEW len \in Nat
  PROVE  memcpy(dest, src, from, len) =
           [k \in 1..w |-> IF k <= len THEN src[from + k - 1] ELSE dest[k]]
<1>1. \A k \in 1..w : k - 1 \in Touched(len) <=> k <= len
  BY TouchedIs
<1>2. memcpy(dest, src, from, len) =
        [k \in 1..w |-> IF k - 1 \in Touched(len) THEN src[from + k - 1] ELSE dest[k]]
  BY DEF memcpy
<1> QED
  BY <1>1, <1>2

LEMMA SpacesAre ==
  ASSUME NEW w \in Nat
  PROVE  Spaces(w) = [k \in 1..w |-> SPACE]
<1> DEFINE z == [k \in 1..w |-> 0]
<1>1. SPACE % 256 = SPACE /\ SPACE < 128
  BY DEF SPACE
<1>2. \A k \in 1..w : k - 1 \in Touched(w)
  BY TouchedIs
<1>3. \A b : DwordByte(SPACE, b) = SPACE
  BY <1>1 DEF DwordByte, SPACE
<1>4. DOMAIN z = 1..w
  OBVIOUS
<1>5. Spaces(w) = memset(z, SPACE, w)
  BY DEF Spaces
<1> HIDE DEF z
<1>6. memset(z, SPACE, w) =
        [k \in 1..w |->
           IF k - 1 \notin Touched(w) THEN z[k]
           ELSE IF k - 1 < 4 * (w \div 4) THEN DwordByte(SPACE % 256, (k - 1) % 4)
           ELSE SPACE % 256]
  BY <1>4 DEF memset
<1>7. \A k \in 1..w :
        (IF k - 1 \notin Touched(w) THEN z[k]
         ELSE IF k - 1 < 4 * (w \div 4) THEN DwordByte(SPACE % 256, (k - 1) % 4)
         ELSE SPACE % 256) = SPACE
  BY <1>1, <1>2, <1>3
<1> QED
  BY <1>5, <1>6, <1>7

(* strncmp of two fields. *)
LEMMA StrncmpIs ==
  ASSUME NEW w \in Nat \ {0}, NEW s \in Seq(Chars), NEW t \in Seq(Chars), Len(s) = w, Len(t) = w
  PROVE  strncmp(s, t, w) = 0 <=> s = t
<1> DEFINE S == {k \in 1..(Len(s) + 1) :
                   At(s, k) = 0 \/ At(t, k) = 0 \/ s[k] # t[k] \/ k = w}
           m == Min(S)
<1>1. S \in SUBSET Nat /\ w \in S
  OBVIOUS
<1>2. strncmp(s, t, w) = Signed(At(s, m)) - Signed(At(t, m))
  BY DEF strncmp
<1>3. m \in S /\ \A k \in S : m <= k
  BY <1>1, MinIs
<1> HIDE DEF m
<1>4. m \in 1..w
  BY <1>1, <1>3
<1>5. \A k \in 1..w : At(s, k) = s[k] /\ At(t, k) = t[k] /\ s[k] \in Chars /\ t[k] \in Chars
  BY DEF At
<1>6. /\ strncmp(s, t, w) = Signed(s[m]) - Signed(t[m])
      /\ s[m] \in 0..255 /\ t[m] \in 0..255
  BY <1>2, <1>4, <1>5 DEF Chars
<1>7. strncmp(s, t, w) = 0 <=> s[m] = t[m]
  <2>1. ToldApart(s[m], t[m])
    BY <1>6, SignedIs
  <2>2. PICK x \in Int, y \in Int : x = Signed(s[m]) /\ y = Signed(t[m])
    BY <2>1 DEF ToldApart
  <2>3. x - y = 0 <=> x = y
    OBVIOUS
  <2> QED
    BY <1>6, <2>1, <2>2, <2>3 DEF ToldApart
<1>8. ASSUME s[m] = t[m] PROVE s = t
  <2>1. At(s, m) # 0 /\ At(t, m) # 0
    BY <1>4, <1>5, NotNul
  <2>2. m = w
    BY <1>3, <1>8, <2>1
  <2>3. ASSUME NEW k \in 1..w PROVE s[k] = t[k]
    <3>1. CASE k = m
      BY <1>8, <3>1
    <3>2. CASE k # m
      <4>1. k \in 1..(Len(s) + 1) /\ ~(m <= k)
        BY <2>2, <3>2
      <4>2. k \notin S
        BY <1>3, <4>1
      <4> QED
        BY <4>1, <4>2
    <3> QED
      BY <3>1, <3>2
  <2> QED
    BY <2>3, SeqEqual
<1> QED
  BY <1>7, <1>8

(* A word of a directory entry. *)
Word(w) == w \in Seq(Chars) /\ \A k \in 1..Len(w) : w[k] # SPACE /\ w[k] # DOT

(* From index `from' on, m characters of name are w and blanks. *)
Reads(name, from, m, w) == m >= Len(w) /\ \A k \in 1..m : name[from + k - 1] = Padded(w, m)[k]

LEMMA FieldReads ==
  ASSUME NEW width \in Nat, NEW m \in 0..width, NEW name, NEW from, NEW w, Word(w), Len(w) <= width
  PROVE  [k \in 1..width |-> IF k <= m THEN name[from + k - 1] ELSE SPACE] = Padded(w, width)
           <=> Reads(name, from, m, w)
<1> DEFINE f == [k \in 1..width |-> IF k <= m THEN name[from + k - 1] ELSE SPACE]
<1>1. Len(w) \in Nat /\ \A k \in 1..Len(w) : w[k] # SPACE
  BY DEF Word
<1>2. f = Padded(w, width) <=> \A k \in 1..width : f[k] = IF k <= Len(w) THEN w[k] ELSE SPACE
  BY DEF Padded
<1>3. \A k \in 1..m : f[k] = name[from + k - 1] /\ Padded(w, m)[k] = IF k <= Len(w) THEN w[k] ELSE SPACE
  BY DEF Padded
<1>4. \A k \in 1..width : k > m => f[k] = SPACE
  OBVIOUS
<1> HIDE DEF f
<1>5. ASSUME Reads(name, from, m, w), NEW k \in 1..width
      PROVE  f[k] = IF k <= Len(w) THEN w[k] ELSE SPACE
  <2>1. CASE k <= m
    BY <1>3, <1>5, <2>1 DEF Reads
  <2>2. CASE k > m
    <3>1. ~(k <= Len(w))
      BY <1>1, <1>5, <2>2 DEF Reads
    <3> QED
      BY <1>4, <2>2, <3>1
  <2> QED
    BY <2>1, <2>2
<1>6. ASSUME \A k \in 1..width : f[k] = IF k <= Len(w) THEN w[k] ELSE SPACE
      PROVE  Reads(name, from, m, w)
  <2>1. m >= Len(w)
    <3> SUFFICES ASSUME m < Len(w) PROVE FALSE
      BY <1>1
    <3>1. Len(w) \in 1..width /\ Len(w) > m /\ Len(w) \in 1..Len(w)
      BY <1>1
    <3>2. f[Len(w)] = SPACE /\ f[Len(w)] = w[Len(w)]
      BY <1>4, <1>6, <3>1
    <3> QED
      BY <1>1, <3>1, <3>2
  <2>2. \A k \in 1..m : name[from + k - 1] = Padded(w, m)[k]
    BY <1>3, <1>6
  <2> QED
    BY <2>1, <2>2 DEF Reads
<1>7. f = Padded(w, width) <=> Reads(name, from, m, w)
  BY <1>2, <1>5, <1>6
<1> QED
  BY <1>7 DEF f

(* The name, cut to the width of both fields and the dot, is a stem, and   *)
(* after the first dot an extension.                                       *)
LEMMA SplitIs ==
  ASSUME NEW name \in Seq(Chars)
  PROVE  LET l == SplitLengths(name) IN
         /\ l.stem \in Nat /\ l.ext \in Nat /\ l.from \in Nat \ {0}
         /\ l.stem <= Len(name) /\ l.from + l.ext - 1 <= Len(name)
         /\ \A k \in 1..l.stem : name[k] # DOT
         /\ \/ l.ext = 0 /\ l.from = 1 /\ Len(Cut(name)) = l.stem
            \/ /\ l.from = l.stem + 2 /\ name[l.stem + 1] = DOT
               /\ l.stem + 1 <= Len(name) /\ Len(Cut(name)) = l.stem + 1 + l.ext
         /\ Cut(name) \in Seq(Chars) /\ Len(Cut(name)) <= Len(name)
         /\ \A k \in 1..Len(Cut(name)) : Cut(name)[k] = name[k]
<1>1. PICK max \in Nat : max = NameLen + 1 + ExtLen
  BY ParserAssumption
<1>2. PICK len \in Nat : len = strnlen(name, max)
  BY <1>1, StrnlenIs
<1>3. len = (IF Len(name) <= max THEN Len(name) ELSE max) /\ Len(name) \in Nat
  BY <1>2, StrnlenIs
<1>4. len <= Len(name)
  BY <1>3
<1>5. Cut(name) = SubSeq(name, 1, len)
  <2> DEFINE S == {max, Len(name)}
  <2>1. S \in SUBSET Nat /\ S # {}
    BY <1>3
  <2>2. Min(S) \in S /\ \A k \in S : Min(S) <= k
    BY <2>1, MinIs
  <2>3. Min(S) = len
    BY <1>3, <2>2
  <2> QED
    BY <1>1, <2>3 DEF Cut
<1>6. /\ Cut(name) \in Seq(Chars) /\ Len(Cut(name)) = len
      /\ \A k \in 1..len : Cut(name)[k] = name[k]
  <2>1. 1 \in Nat \ {0} /\ 1 <= len + 1
    OBVIOUS
  <2>2. /\ Cut(name) \in Seq(Chars) /\ Len(Cut(name)) = len - 1 + 1
        /\ \A k \in 1..(len - 1 + 1) : Cut(name)[k] = name[1 + k - 1]
    BY <1>4, <1>5, <2>1, SubSeqIs
  <2> QED
    BY <2>2
<1>7. PICK point : point = memchr(name, DOT, len)
  OBVIOUS
<1>8. SplitLengths(name) = IF point = 0 THEN [stem |-> len, ext |-> 0, from |-> 1]
                           ELSE [stem |-> point - 1, ext |-> len - point, from |-> point + 1]
  BY <1>1, <1>2, <1>7 DEF SplitLengths
<1>9. \/ point = 0 /\ \A k \in 1..len : name[k] # DOT
      \/ point \in 1..len /\ name[point] = DOT /\ \A k \in 1..(point - 1) : name[k] # DOT
  BY <1>7, MemchrIs
<1>10. CASE point = 0 /\ \A k \in 1..len : name[k] # DOT
  <2>1. SplitLengths(name) = [stem |-> len, ext |-> 0, from |-> 1]
    BY <1>8, <1>10
  <2> QED
    BY <1>3, <1>4, <1>6, <1>10, <2>1
<1>11. CASE point \in 1..len /\ name[point] = DOT /\ \A k \in 1..(point - 1) : name[k] # DOT
  <2>1. SplitLengths(name) = [stem |-> point - 1, ext |-> len - point, from |-> point + 1]
    BY <1>8, <1>11
  <2>2. PICK a \in Nat, b \in Nat : a = point - 1 /\ b = len - point
    BY <1>11
  <2>3. point = a + 1 /\ point + 1 = a + 2 /\ len = a + 1 + b /\ (a + 2) + b - 1 = len
    BY <1>11, <2>2
  <2>4. SplitLengths(name) = [stem |-> a, ext |-> b, from |-> a + 2]
    BY <2>1, <2>2, <2>3
  <2>5. a <= Len(name) /\ (a + 2) + b - 1 <= Len(name) /\ a + 1 <= Len(name) /\ a + 2 \in Nat \ {0}
    BY <1>3, <1>4, <2>3
  <2>6. (\A k \in 1..a : name[k] # DOT) /\ name[a + 1] = DOT
    BY <1>11, <2>2, <2>3
  <2> QED
    BY <1>4, <1>6, <2>3, <2>4, <2>5, <2>6
<1> QED
  BY <1>9, <1>10, <1>11

(* Padding a field that is already full changes nothing. *)
LEMMA PaddedAgain ==
  ASSUME NEW w \in Nat, NEW f \in Seq(Chars), Len(f) = w
  PROVE  memcpy(Spaces(w), f, 1, strnlen(f, w)) = f
<1> DEFINE z == [k \in 1..w |-> SPACE]
<1>1. Spaces(w) = z /\ DOMAIN z = 1..w
  BY SpacesAre
<1>2. strnlen(f, w) = w
  BY StrnlenIs
<1>3. memcpy(z, f, 1, w) = [k \in 1..w |-> IF k <= w THEN f[1 + k - 1] ELSE z[k]]
  BY <1>1, MemcpyIs
<1>4. \A k \in 1..w : (IF k <= w THEN f[1 + k - 1] ELSE z[k]) = f[k]
  OBVIOUS
<1>5. f = [k \in 1..w |-> f[k]]
  OBVIOUS
<1> QED
  BY <1>1, <1>2, <1>3, <1>4, <1>5

LEMMA PaddedType ==
  ASSUME NEW w, Word(w), NEW m \in Nat
  PROVE  Padded(w, m) \in Seq(Chars) /\ Len(Padded(w, m)) = m
<1> DEFINE p == Padded(w, m)
<1>1. SPACE \in Chars
  BY DEF SPACE, Chars
<1>2. w \in Seq(Chars)
  BY DEF Word
<1>3. ASSUME NEW k \in 1..m PROVE (IF k <= Len(w) THEN w[k] ELSE SPACE) \in Chars
  <2>1. CASE k <= Len(w)
    <3>1. k \in 1..Len(w)
      BY <1>2, <2>1
    <3> QED
      BY <1>2, <2>1, <3>1
  <2>2. CASE ~(k <= Len(w))
    BY <1>1, <2>2
  <2> QED
    BY <2>1, <2>2
<1>4. p \in [1..m -> Chars]
  BY <1>3 DEF Padded
<1> HIDE DEF p
<1>5. p \in Seq(Chars) /\ Len(p) = m
  BY <1>4
<1> QED
  BY <1>5 DEF p

(* The comparison of both padded fields. *)
LEMMA MatchesIs ==
  ASSUME NEW name \in Seq(Chars), Fits(name), NEW stem, Word(stem), Len(stem) <= NameLen,
         NEW ext, Word(ext), Len(ext) <= ExtLen
  PROVE  LET l == SplitLengths(name) IN
         Matches(name, [filename |-> Padded(stem, NameLen), extension |-> Padded(ext, ExtLen)])
           <=> Reads(name, 1, l.stem, stem) /\ Reads(name, l.from, l.ext, ext)
<1>1. PICK a \in Nat, b \in Nat, from \in Nat \ {0} :
        LET l == SplitLengths(name) IN
        /\ a = l.stem /\ b = l.ext /\ from = l.from
        /\ a <= Len(name) /\ from + b - 1 <= Len(name)
  BY SplitIs
<1>1a. a <= Len(name) /\ from + b - 1 <= Len(name) /\ Len(name) \in Nat
  BY <1>1
<1>2. a <= NameLen /\ b <= ExtLen
  BY <1>1 DEF Fits
<1>3. NameLen \in Nat \ {0} /\ ExtLen \in Nat \ {0}
  BY ParserAssumption
<1> DEFINE f == [k \in 1..NameLen |-> IF k <= a THEN name[1 + k - 1] ELSE SPACE]
           g == [k \in 1..ExtLen |-> IF k <= b THEN name[from + k - 1] ELSE SPACE]
<1>4. memcpy(Spaces(NameLen), name, 1, a) = f
  <2> DEFINE z == [k \in 1..NameLen |-> SPACE]
  <2>1. Spaces(NameLen) = z /\ DOMAIN z = 1..NameLen
    BY <1>3, SpacesAre
  <2>2. DOMAIN z = 1..NameLen /\ \A k \in 1..NameLen : z[k] = SPACE
    OBVIOUS
  <2> HIDE DEF z
  <2>3. memcpy(z, name, 1, a) = [k \in 1..NameLen |-> IF k <= a THEN name[1 + k - 1] ELSE z[k]]
    BY <1>3, <2>2, MemcpyIs
  <2> QED
    BY <2>1, <2>2, <2>3
<1>5. memcpy(Spaces(ExtLen), name, from, b) = g
  <2> DEFINE z == [k \in 1..ExtLen |-> SPACE]
  <2>1. Spaces(ExtLen) = z /\ DOMAIN z = 1..ExtLen
    BY <1>3, SpacesAre
  <2>2. DOMAIN z = 1..ExtLen /\ \A k \in 1..ExtLen : z[k] = SPACE
    OBVIOUS
  <2> HIDE DEF z
  <2>3. memcpy(z, name, from, b) = [k \in 1..ExtLen |-> IF k <= b THEN name[from + k - 1] ELSE z[k]]
    BY <1>3, <2>2, MemcpyIs
  <2> QED
    BY <2>1, <2>2, <2>3
<1>6. SPACE \in Chars
  BY DEF SPACE, Chars
<1>7. f \in Seq(Chars) /\ Len(f) = NameLen
  <2>1. \A k \in 1..NameLen : f[k] \in Chars
    <3> SUFFICES ASSUME NEW k \in 1..NameLen PROVE f[k] \in Chars
      OBVIOUS
    <3>1. CASE k <= a
      <4>1. 1 + k - 1 \in 1..Len(name)
        BY <1>1, <3>1
      <4> QED
        BY <3>1, <4>1
    <3>2. CASE ~(k <= a)
      BY <1>6, <3>2
    <3> QED
      BY <3>1, <3>2
  <2>2. f \in [1..NameLen -> Chars]
    BY <2>1
  <2> HIDE DEF f
  <2> QED
    BY <1>3, <2>2
<1>8. g \in Seq(Chars) /\ Len(g) = ExtLen
  <2>1. \A k \in 1..ExtLen : g[k] \in Chars
    <3> SUFFICES ASSUME NEW k \in 1..ExtLen PROVE g[k] \in Chars
      OBVIOUS
    <3>1. CASE k <= b
      <4>1. from + k - 1 \in 1..Len(name)
        BY <1>1a, <1>3, <3>1
      <4> QED
        BY <3>1, <4>1
    <3>2. CASE ~(k <= b)
      BY <1>6, <3>2
    <3> QED
      BY <3>1, <3>2
  <2>2. g \in [1..ExtLen -> Chars]
    BY <2>1
  <2> HIDE DEF g
  <2> QED
    BY <1>3, <2>2
<1>9. f = Padded(stem, NameLen) <=> Reads(name, 1, a, stem)
  BY <1>2, <1>3, FieldReads
<1>10. g = Padded(ext, ExtLen) <=> Reads(name, from, b, ext)
  <2>1. b \in 0..ExtLen /\ ExtLen \in Nat
    BY <1>2, <1>3
  <2> QED
    BY <2>1, FieldReads
<1> HIDE DEF f, g
<1>11. memcpy(Spaces(NameLen), f, 1, strnlen(f, NameLen)) = f
  BY <1>3, <1>7, PaddedAgain
<1>12. memcpy(Spaces(ExtLen), g, 1, strnlen(g, ExtLen)) = g
  BY <1>3, <1>8, PaddedAgain
<1> DEFINE u == Padded(stem, NameLen)
           v == Padded(ext, ExtLen)
<1>13. u \in Seq(Chars) /\ Len(u) = NameLen /\ v \in Seq(Chars) /\ Len(v) = ExtLen
  BY <1>3, PaddedType
<1> HIDE DEF u, v
<1>14. (strncmp(f, u, NameLen) = 0 <=> f = u) /\ (strncmp(g, v, ExtLen) = 0 <=> g = v)
  BY <1>3, <1>7, <1>8, <1>13, StrncmpIs
<1>15. fat16_split_entry_name(name) = [filename |-> f, extension |-> g]
  BY <1>1, <1>4, <1>5 DEF fat16_split_entry_name
<1>16. Matches(name, [filename |-> u, extension |-> v]) <=>
         strncmp(f, u, NameLen) = 0 /\ strncmp(g, v, ExtLen) = 0
  BY <1>11, <1>12, <1>15 DEF Matches
<1> QED
  BY <1>1, <1>9, <1>10, <1>14, <1>16 DEF u, v

LEMMA PaddedNoDot ==
  ASSUME NEW w, Word(w), NEW m \in Nat, NEW k \in 1..m
  PROVE  Padded(w, m)[k] # DOT
<1>1. SPACE # DOT
  BY DEF SPACE, DOT
<1>2. Padded(w, m)[k] = IF k <= Len(w) THEN w[k] ELSE SPACE
  BY DEF Padded
<1>3. k <= Len(w) => w[k] # DOT
  <2>1. Len(w) \in Nat /\ \A j \in 1..Len(w) : w[j] # DOT
    BY DEF Word
  <2> QED
    BY <2>1
<1> QED
  BY <1>1, <1>2, <1>3

(* x is s, a dot and e. *)
DottedAt(x, s, e) ==
  /\ x \in Seq(Chars) /\ Len(x) = Len(s) + 1 + Len(e)
  /\ \A k \in 1..Len(s) : x[k] = s[k]
  /\ x[Len(s) + 1] = DOT
  /\ \A k \in 1..Len(e) : x[Len(s) + 1 + k] = e[k]

LEMMA DottedIs ==
  ASSUME NEW s \in Seq(Chars), NEW e \in Seq(Chars)
  PROVE  DottedAt(s \o <<DOT>> \o e, s, e)
<1> DEFINE d == <<DOT>>
           y == s \o d
           x == y \o e
<1>1. d \in Seq(Chars) /\ Len(d) = 1 /\ d[1] = DOT
  BY DEF DOT, Chars
<1> HIDE DEF d
<1>1a. d \in Seq(Chars)
  BY <1>1
<1>2. y \in Seq(Chars) /\ Len(y) = Len(s) + Len(d)
  BY <1>1a
<1>3. \A k \in 1..Len(s) : y[k] = s[k]
  BY <1>1a
<1>4. \A k \in 1..Len(d) : y[Len(s) + k] = d[k]
  BY <1>1a
<1>5. Len(s) \in Nat /\ Len(e) \in Nat
  OBVIOUS
<1> HIDE DEF y
<1>6. x \in Seq(Chars) /\ Len(x) = Len(y) + Len(e)
  BY <1>2
<1>7. \A k \in 1..Len(y) : x[k] = y[k]
  BY <1>2
<1>8. \A k \in 1..Len(e) : x[Len(y) + k] = e[k]
  BY <1>2
<1> HIDE DEF x
<1>9. Len(y) = Len(s) + 1 /\ Len(x) = Len(s) + 1 + Len(e)
  BY <1>1, <1>2, <1>5, <1>6
<1>10. \A k \in 1..Len(s) : x[k] = s[k]
  BY <1>3, <1>5, <1>7, <1>9
<1>11. x[Len(s) + 1] = DOT
  <2>1. Len(s) + 1 \in 1..Len(y) /\ 1 \in 1..Len(d)
    BY <1>1, <1>5, <1>9
  <2> QED
    BY <1>1, <1>4, <1>7, <2>1
<1>12. \A k \in 1..Len(e) : x[Len(s) + 1 + k] = e[k]
  BY <1>8, <1>9
<1>13. DottedAt(x, s, e)
  BY <1>6, <1>9, <1>10, <1>11, <1>12 DEF DottedAt
<1> QED
  BY <1>13 DEF x, y, d

LEMMA NamesHold ==
  ASSUME NEW stem, NEW ext, NEW c \in Names(stem, ext)
  PROVE  \/ \E s \in Blanked(stem, NameLen), e \in Blanked(ext, ExtLen) : c = s \o <<DOT>> \o e
         \/ ext = <<>> /\ c \in Blanked(stem, NameLen)
  BY DEF Names

(* The names of an entry are the texts that split into its fields. *)
LEMMA NamedIs ==
  ASSUME NEW name \in Seq(Chars), NEW stem, Word(stem), NEW ext, Word(ext)
  PROVE  LET l == SplitLengths(name) IN
         Cut(name) \in Names(stem, ext)
           <=> Fits(name) /\ Reads(name, 1, l.stem, stem) /\ Reads(name, l.from, l.ext, ext)
<1>1. PICK a \in Nat, b \in Nat, from \in Nat \ {0}, c \in Seq(Chars) :
        /\ a = SplitLengths(name).stem /\ b = SplitLengths(name).ext
        /\ from = SplitLengths(name).from /\ c = Cut(name)
  BY SplitIs
<1>2. /\ \A k \in 1..a : name[k] # DOT
      /\ \/ b = 0 /\ from = 1 /\ Len(c) = a
         \/ from = a + 2 /\ name[a + 1] = DOT /\ Len(c) = a + 1 + b
      /\ \A k \in 1..Len(c) : c[k] = name[k]
  BY <1>1, SplitIs
<1>3. Fits(name) <=> a <= NameLen /\ b <= ExtLen
  BY <1>1 DEF Fits
<1>4. NameLen \in Nat /\ ExtLen \in Nat
  BY ParserAssumption
<1>5. Len(stem) \in Nat /\ Len(ext) \in Nat /\ ext \in Seq(Chars)
  BY DEF Word
<1>6. ASSUME NEW n1 \in Len(stem)..NameLen, NEW n2 \in Len(ext)..ExtLen,
             c = Padded(stem, n1) \o <<DOT>> \o Padded(ext, n2)
      PROVE  Fits(name) /\ Reads(name, 1, a, stem) /\ Reads(name, from, b, ext)
  <2> DEFINE u == Padded(stem, n1)
             v == Padded(ext, n2)
  <2>1. n1 \in Nat /\ n2 \in Nat
    BY <1>4, <1>5
  <2>2. u \in Seq(Chars) /\ Len(u) = n1 /\ v \in Seq(Chars) /\ Len(v) = n2
    BY <2>1, PaddedType
  <2>3. \A k \in 1..n1 : u[k] # DOT
    BY <2>1, PaddedNoDot
  <2>4. c = u \o <<DOT>> \o v
    BY <1>6
  <2> HIDE DEF u, v
  <2>5. /\ Len(c) = n1 + 1 + n2 /\ c[n1 + 1] = DOT
        /\ \A k \in 1..n1 : c[k] = u[k]
        /\ \A k \in 1..n2 : c[n1 + 1 + k] = v[k]
    <3> DEFINE x == u \o <<DOT>> \o v
    <3>1. /\ x \in Seq(Chars) /\ Len(x) = n1 + 1 + n2 /\ x[n1 + 1] = DOT
          /\ \A k \in 1..n1 : x[k] = u[k]
          /\ \A k \in 1..n2 : x[n1 + 1 + k] = v[k]
      <4>1. DottedAt(x, u, v)
        BY <2>2, DottedIs
      <4> HIDE DEF x
      <4> QED
        BY <2>2, <4>1 DEF DottedAt
    <3>2. c = x
      BY <2>4
    <3> HIDE DEF x
    <3> QED
      BY <3>1, <3>2
  <2>6. n1 + 1 \in 1..Len(c) /\ name[n1 + 1] = DOT
    <3>1. n1 + 1 \in 1..Len(c)
      BY <2>1, <2>5
    <3> QED
      BY <1>2, <2>5, <3>1
  <2>7. ~(n1 + 1 <= a)
    <3>1. n1 + 1 <= a => n1 + 1 \in 1..a
      BY <2>1
    <3> QED
      BY <1>2, <2>6, <3>1
  <2>8. from = a + 2 /\ name[a + 1] = DOT /\ Len(c) = a + 1 + b
    <3>1. ~(Len(c) = a)
      BY <2>1, <2>6, <2>7
    <3> QED
      BY <1>2, <3>1
  <2>9. n1 = a
    <3> SUFFICES ASSUME n1 # a PROVE FALSE
      OBVIOUS
    <3>1. a + 1 \in 1..n1 /\ a + 1 \in 1..Len(c)
      BY <2>1, <2>5, <2>7
    <3> QED
      BY <1>2, <2>3, <2>5, <2>8, <3>1
  <2>10. n2 = b
    BY <2>1, <2>5, <2>8, <2>9
  <2>11. Fits(name)
    BY <1>3, <2>9, <2>10
  <2>12. Reads(name, 1, a, stem)
    <3>1. ASSUME NEW k \in 1..a PROVE name[1 + k - 1] = Padded(stem, a)[k]
      <4>1. k \in 1..Len(c) /\ 1 + k - 1 = k
        BY <2>1, <2>8
      <4> QED
        BY <1>2, <2>5, <2>9, <4>1 DEF u
    <3> QED
      BY <2>9, <3>1 DEF Reads
  <2>13. Reads(name, from, b, ext)
    <3>1. ASSUME NEW k \in 1..b PROVE name[from + k - 1] = Padded(ext, b)[k]
      <4>1. a + 1 + k \in 1..Len(c) /\ from + k - 1 = a + 1 + k
        BY <2>8
      <4> QED
        BY <1>2, <2>5, <2>9, <2>10, <4>1 DEF v
    <3> QED
      BY <2>10, <3>1 DEF Reads
  <2> QED
    BY <2>11, <2>12, <2>13
<1>7. ASSUME ext = <<>>, NEW n1 \in Len(stem)..NameLen, c = Padded(stem, n1)
      PROVE  Fits(name) /\ Reads(name, 1, a, stem) /\ Reads(name, from, b, ext)
  <2>1. n1 \in Nat
    BY <1>4, <1>5
  <2>2. Len(c) = n1
    BY <1>7, <2>1, PaddedType
  <2>3. \A k \in 1..n1 : c[k] # DOT
    BY <1>7, <2>1, PaddedNoDot
  <2>4. b = 0 /\ from = 1 /\ Len(c) = a
    <3> SUFFICES ASSUME name[a + 1] = DOT, Len(c) = a + 1 + b PROVE FALSE
      BY <1>2
    <3>1. a + 1 \in 1..n1 /\ a + 1 \in 1..Len(c)
      BY <2>2
    <3> QED
      BY <1>2, <2>3, <3>1
  <2>5. Fits(name)
    BY <1>3, <1>4, <2>2, <2>4
  <2>6. ASSUME NEW k \in 1..a PROVE name[1 + k - 1] = Padded(stem, a)[k]
    <3>1. k \in 1..Len(c) /\ 1 + k - 1 = k
      BY <2>4
    <3> QED
      BY <1>2, <1>7, <2>2, <2>4, <3>1
  <2>7. Reads(name, 1, a, stem)
    BY <2>2, <2>4, <2>6 DEF Reads
  <2>8. Reads(name, from, b, ext)
    <3>1. Len(ext) = 0
      BY <1>7
    <3> QED
      BY <2>4, <3>1 DEF Reads
  <2> QED
    BY <2>5, <2>7, <2>8
<1>8. ASSUME Fits(name), Reads(name, 1, a, stem), Reads(name, from, b, ext)
      PROVE  c \in Names(stem, ext)
  <2>1. a \in Len(stem)..NameLen /\ b \in Len(ext)..ExtLen
    BY <1>3, <1>4, <1>5, <1>8 DEF Reads
  <2> DEFINE u == Padded(stem, a)
             v == Padded(ext, b)
  <2>2. u \in Blanked(stem, NameLen) /\ v \in Blanked(ext, ExtLen)
    BY <2>1 DEF Blanked
  <2>3. u \in Seq(Chars) /\ Len(u) = a /\ v \in Seq(Chars) /\ Len(v) = b
    BY PaddedType
  <2>4. /\ \A k \in 1..a : name[k] = u[k]
        /\ \A k \in 1..b : name[from + k - 1] = v[k]
    <3>1. \A k \in 1..a : name[1 + k - 1] = u[k]
      BY <1>8 DEF Reads
    <3>2. \A k \in 1..b : name[from + k - 1] = v[k]
      BY <1>8 DEF Reads
    <3>3. \A k \in 1..a : 1 + k - 1 = k
      OBVIOUS
    <3> QED
      BY <3>1, <3>2, <3>3
  <2> HIDE DEF u, v
  <2>5. CASE b = 0 /\ from = 1 /\ Len(c) = a
    <3>1. ext = <<>>
      <4>1. Len(ext) = 0
        BY <1>5, <2>1, <2>5
      <4> QED
        BY <1>5, <4>1
    <3>2. \A k \in 1..Len(c) : c[k] = u[k]
      BY <1>2, <2>4, <2>5
    <3>3. c = u
      BY <2>3, <2>5, <3>2, SeqEqual
    <3> QED
      BY <2>2, <3>1, <3>3 DEF Names
  <2>6. CASE from = a + 2 /\ name[a + 1] = DOT /\ Len(c) = a + 1 + b
    <3> DEFINE x == u \o <<DOT>> \o v
    <3>1. /\ x \in Seq(Chars) /\ Len(x) = a + 1 + b /\ x[a + 1] = DOT
          /\ \A k \in 1..a : x[k] = u[k]
          /\ \A k \in 1..b : x[a + 1 + k] = v[k]
      <4>1. DottedAt(x, u, v)
        BY <2>3, DottedIs
      <4> HIDE DEF x
      <4> QED
        BY <2>3, <4>1 DEF DottedAt
    <3> HIDE DEF x
    <3>2. ASSUME NEW k \in 1..Len(c) PROVE c[k] = x[k]
      <4>1. k \in 1..(a + 1 + b) /\ c[k] = name[k]
        BY <1>2, <2>6
      <4>2. CASE k <= a
        <5>1. k \in 1..a
          BY <4>1, <4>2
        <5> QED
          BY <2>4, <3>1, <4>1, <5>1
      <4>3. CASE k = a + 1
        BY <2>6, <3>1, <4>1, <4>3
      <4>4. CASE k > a + 1
        <5>1. PICK j \in 1..b : k = a + 1 + j
          <6>1. k - (a + 1) \in 1..b /\ k = a + 1 + (k - (a + 1))
            BY <4>1, <4>4
          <6> QED
            BY <6>1
        <5>2. from + j - 1 = k
          BY <2>6, <5>1
        <5>3. x[k] = v[j]
          BY <3>1, <5>1
        <5>4. name[from + j - 1] = v[j]
          BY <2>4
        <5> QED
          BY <4>1, <5>2, <5>3, <5>4
      <4> QED
        BY <4>1, <4>2, <4>3, <4>4
    <3>3. c = x
      <4>1. x \in Seq(Chars) /\ Len(x) = Len(c) /\ \A k \in 1..Len(c) : c[k] = x[k]
        BY <2>6, <3>1, <3>2
      <4> QED
        BY <4>1, SeqEqual
    <3> DEFINE A == {s \o <<DOT>> \o e : s \in Blanked(stem, NameLen), e \in Blanked(ext, ExtLen)}
               B == IF ext = <<>> THEN Blanked(stem, NameLen) ELSE {}
    <3>4. x \in A
      BY <2>2 DEF x
    <3>5. x \in Names(stem, ext)
      <4>1. Names(stem, ext) = A \union B
        BY DEF Names
      <4> HIDE DEF x, A, B
      <4> QED
        BY <3>4, <4>1
    <3> QED
      BY <3>3, <3>5
  <2> QED
    BY <1>2, <2>5, <2>6
<1>9. ASSUME c \in Names(stem, ext)
      PROVE  Fits(name) /\ Reads(name, 1, a, stem) /\ Reads(name, from, b, ext)
  <2>1. \/ \E s \in Blanked(stem, NameLen), e \in Blanked(ext, ExtLen) : c = s \o <<DOT>> \o e
        \/ ext = <<>> /\ c \in Blanked(stem, NameLen)
    BY <1>9, NamesHold
  <2>2. CASE \E s \in Blanked(stem, NameLen), e \in Blanked(ext, ExtLen) : c = s \o <<DOT>> \o e
    <3>1. PICK n1 \in Len(stem)..NameLen, n2 \in Len(ext)..ExtLen :
            c = Padded(stem, n1) \o <<DOT>> \o Padded(ext, n2)
      BY <2>2 DEF Blanked
    <3> QED
      BY <1>6, <3>1
  <2>3. CASE ext = <<>> /\ c \in Blanked(stem, NameLen)
    <3>1. PICK n1 \in Len(stem)..NameLen : c = Padded(stem, n1)
      BY <2>3 DEF Blanked
    <3> QED
      BY <1>7, <2>3, <3>1
  <2> QED
    BY <2>1, <2>2, <2>3
<1> QED
  BY <1>1, <1>8, <1>9

LEMMA WordsAre ==
  ASSUME NEW from \in Nat, NEW to \in Nat, NEW w \in Words(from, to)
  PROVE  Word(w) /\ Len(w) <= to
<1>1. PICK len \in from..to : w \in [1..len -> Letters]
  BY DEF Words
<1>2. \A c \in Letters : c \in Chars /\ c # SPACE /\ c # DOT
  BY ParserAssumption DEF Chars
<1>3. len \in Nat /\ len <= to
  BY <1>1
<1>4. w \in Seq(Letters) /\ Len(w) = len /\ \A k \in 1..len : w[k] \in Letters
  BY <1>1, <1>3
<1>5. w \in [1..len -> Chars]
  BY <1>1, <1>2
<1>6. w \in Seq(Chars)
  BY <1>3, <1>5
<1> QED
  BY <1>2, <1>3, <1>4, <1>6 DEF Word

(* A part of a path, whatever its characters and its length, finds the     *)
(* entry that its beginning names and no other (fat16.c:42-58, 325-385).   *)
THEOREM NamesAlwaysResolve == Spec => []NamesResolve
<1>1. PInv => NamesResolve
  <2> SUFFICES ASSUME PInv, NEW k \in DOMAIN parts,
                      NEW stem \in Words(1, NameLen), NEW ext \in Words(0, ExtLen)
               PROVE  LET named == Cut(parts[k]) \in Names(stem, ext)
                          entry == [filename |-> Padded(stem, NameLen), extension |-> Padded(ext, ExtLen)]
                      IN  IF Fits(parts[k]) THEN Matches(parts[k], entry) <=> named ELSE ~named
    BY DEF NamesResolve
  <2>1. PICK name \in Seq(Chars) : name = parts[k]
    BY DEF PInv
  <2>2. NameLen \in Nat /\ ExtLen \in Nat
    BY ParserAssumption
  <2>3. Word(stem) /\ Len(stem) <= NameLen /\ Word(ext) /\ Len(ext) <= ExtLen
    BY <2>2, WordsAre
  <2> DEFINE entry == [filename |-> Padded(stem, NameLen), extension |-> Padded(ext, ExtLen)]
             l == SplitLengths(name)
             reads == Reads(name, 1, l.stem, stem) /\ Reads(name, l.from, l.ext, ext)
  <2>4. Cut(name) \in Names(stem, ext) <=> Fits(name) /\ reads
    BY <2>3, NamedIs
  <2>5. Fits(name) => (Matches(name, entry) <=> reads)
    BY <2>3, MatchesIs
  <2> HIDE DEF entry, reads
  <2>6. IF Fits(name) THEN Matches(name, entry) <=> Cut(name) \in Names(stem, ext)
                      ELSE ~(Cut(name) \in Names(stem, ext))
    BY <2>4, <2>5
  <2> QED
    BY <2>1, <2>6 DEF entry
<1> QED
  BY <1>1, PInvHolds, PTL
-----------------------------------------------------------------------------
(* Buffers and strings. *)

(* The copying loop of strncpy stops at the end of the string or after len *)
(* characters; from there on the other loop stores NULs.                   *)
LEMMA StrncpyIs ==
  ASSUME NEW w \in Nat, NEW dest, DOMAIN dest = 1..w, NEW text \in Seq(Chars),
         NEW len \in Nat, NEW k \in 1..w
  PROVE  strncpy(dest, text, len)[k] = IF k > len THEN dest[k] ELSE At(text, k)
<1> DEFINE S == {j \in 0..len : j = len \/ At(text, j + 1) = 0}
<1>1. S \in SUBSET Nat /\ len \in S
  OBVIOUS
<1>2. PICK i \in S : i = Min(S) /\ \A j \in S : i <= j
  BY <1>1, MinIs
<1>3. \A j \in Nat : At(text, j + 1) = 0 <=> j >= Len(text)
  <2> SUFFICES ASSUME NEW j \in Nat PROVE At(text, j + 1) = 0 <=> j >= Len(text)
    OBVIOUS
  <2>1. j + 1 \in DOMAIN text <=> ~(j >= Len(text))
    OBVIOUS
  <2>2. ASSUME NEW n \in DOMAIN text PROVE text[n] # 0
    <3>1. text[n] \in Chars
      OBVIOUS
    <3> QED
      BY <3>1, NotNul
  <2> QED
    BY <2>1, <2>2 DEF At
<1>4. i \in Nat /\ i <= len /\ i <= Len(text) /\ (i = len \/ i = Len(text))
  <2>1. i \in 0..len /\ (i = len \/ i >= Len(text))
    BY <1>2, <1>3
  <2>2. Len(text) \in Nat /\ (Len(text) <= len => Len(text) \in S)
    BY <1>3
  <2> QED
    BY <1>2, <2>1, <2>2
<1>5. strncpy(dest, text, len)[k] =
        IF k \in (i + 1)..len THEN 0 ELSE IF k <= i THEN text[k] ELSE dest[k]
  BY <1>2 DEF strncpy
<1>6. At(text, k) = IF k <= Len(text) THEN text[k] ELSE 0
  BY DEF At
<1> HIDE DEF S
<1>7. Len(text) \in Nat
  OBVIOUS
<1> QED
  BY ONLY <1>4, <1>5, <1>6, <1>7, k \in 1..w, w \in Nat, len \in Nat

(* What byte k of a buffer holds after memcpy and memset. *)
FilledAt(dest, src, c, len, k) ==
  /\ memcpy(dest, src, 1, len)[k] = IF k > len THEN dest[k] ELSE src[k]
  /\ memset(dest, c, len)[k] =
       IF k > len THEN dest[k]
       ELSE IF c \in 128..254 /\ k <= 4 * (len \div 4) /\ k % 4 # 1 THEN 255 ELSE c

LEMMA FilledAtAll ==
  ASSUME NEW w \in Nat, NEW dest, DOMAIN dest = 1..w, NEW src, NEW c \in 0..255,
         NEW len \in Nat, NEW k \in 1..w
  PROVE  FilledAt(dest, src, c, len, k)
<1>1. memcpy(dest, src, 1, len)[k] = IF k > len THEN dest[k] ELSE src[k]
  <2>1. memcpy(dest, src, 1, len)[k] = IF k <= len THEN src[1 + k - 1] ELSE dest[k]
    BY MemcpyIs
  <2>2. 1 + k - 1 = k
    OBVIOUS
  <2> QED
    BY <2>1, <2>2
<1>2. memset(dest, c, len)[k] =
        IF k > len THEN dest[k]
        ELSE IF c \in 128..254 /\ k <= 4 * (len \div 4) /\ k % 4 # 1 THEN 255 ELSE c
  <2>1. c % 256 = c
    OBVIOUS
  <2>2. k - 1 \notin Touched(len) <=> k > len
    BY TouchedIs
  <2>3. memset(dest, c, len)[k] =
          IF k - 1 \notin Touched(len) THEN dest[k]
          ELSE IF k - 1 < 4 * (len \div 4) THEN DwordByte(c, (k - 1) % 4) ELSE c
    BY <2>1 DEF memset
  <2>4. PICK q \in Nat : q = 4 * (len \div 4)
    OBVIOUS
  <2>5. k - 1 < q <=> k <= q
    OBVIOUS
  <2>6. (k - 1) % 4 \in Nat /\ ((k - 1) % 4 > 0 <=> k % 4 # 1)
    OBVIOUS
  <2>7. DwordByte(c, (k - 1) % 4) = IF c \in 128..254 /\ k % 4 # 1 THEN 255 ELSE c
    BY <2>6 DEF DwordByte
  <2> QED
    BY <2>2, <2>3, <2>4, <2>5, <2>7
<1> QED
  BY ONLY <1>1, <1>2 DEF FilledAt

(* memcpy, strncpy and memset change the first len bytes of a buffer and   *)
(* no other, whether or not len is a multiple of four, and fill them with  *)
(* the source, with the string and NULs after it, and with the byte; the   *)
(* signed char of memset makes 255 of the upper three bytes of each dword  *)
(* for the bytes 128 to 254 (string.c:6-25, 49-69, 198-211).               *)
THEOREM BuffersFilled ==
  ASSUME NEW w \in Nat, NEW dest, DOMAIN dest = 1..w, NEW src,
         NEW text \in Seq(Chars), NEW c \in 0..255, NEW len \in Nat, NEW k \in 1..w
  PROVE  /\ memcpy(dest, src, 1, len)[k] = IF k > len THEN dest[k] ELSE src[k]
         /\ strncpy(dest, text, len)[k] = IF k > len THEN dest[k] ELSE At(text, k)
         /\ memset(dest, c, len)[k] =
              IF k > len THEN dest[k]
              ELSE IF c \in 128..254 /\ k <= 4 * (len \div 4) /\ k % 4 # 1 THEN 255 ELSE c
<1>1. FilledAt(dest, src, c, len, k)
  BY FilledAtAll
<1>2. strncpy(dest, text, len)[k] = IF k > len THEN dest[k] ELSE At(text, k)
  BY StrncpyIs
<1> QED
  BY <1>1, <1>2 DEF FilledAt

(* The characters that strncmp of at most len may look at, NUL included. *)
Compared(s, len) == {k \in 1..(Len(s) + 1) : len = 0 \/ k <= len}

(* Where strncmp stops: everything before is equal and no NUL, and there   *)
(* it finds a difference, both ends, or the last character to compare.     *)
LEMMA StopsAt ==
  ASSUME NEW s \in Seq(Chars), NEW t \in Seq(Chars), NEW len \in Nat
  PROVE  \E m \in Compared(s, len) :
           /\ strncmp(s, t, len) = Signed(At(s, m)) - Signed(At(t, m))
           /\ \A j \in 1..(m - 1) : At(s, j) = At(t, j)
           /\ \/ At(s, m) # At(t, m)
              \/ m = Len(s) + 1
              \/ m = len
<1> DEFINE S == {k \in 1..(Len(s) + 1) :
                   At(s, k) = 0 \/ At(t, k) = 0 \/ s[k] # t[k] \/ k = len}
           m == Min(S)
<1>1. Len(s) \in Nat /\ Len(t) \in Nat
  OBVIOUS
<1>2. /\ \A k \in Nat : At(s, k) = 0 \/ (k \in 1..Len(s) /\ At(s, k) = s[k])
      /\ \A k \in Nat : At(t, k) = 0 \/ (k \in 1..Len(t) /\ At(t, k) = t[k])
  BY DEF At
<1>3. At(s, Len(s) + 1) = 0
  BY DEF At
<1>4. S \in SUBSET Nat /\ Len(s) + 1 \in S
  BY <1>1, <1>3
<1>5. strncmp(s, t, len) = Signed(At(s, m)) - Signed(At(t, m))
  BY DEF strncmp
<1>6. m \in S /\ \A k \in S : m <= k
  BY <1>4, MinIs
<1> HIDE DEF m
<1>7. m \in 1..(Len(s) + 1)
  BY <1>6
<1>8. ASSUME NEW j \in 1..(m - 1) PROVE At(s, j) = At(t, j) /\ j # len
  <2>1. j \in 1..(Len(s) + 1) /\ ~(m <= j) /\ j \in Nat
    BY <1>1, <1>7
  <2>2. j \notin S
    BY <1>6, <2>1
  <2>3. At(s, j) # 0 /\ At(t, j) # 0 /\ s[j] = t[j] /\ j # len
    BY <2>1, <2>2
  <2> QED
    BY <1>2, <2>1, <2>3
<1>9. m \in Compared(s, len)
  <2> SUFFICES ASSUME len # 0, ~(m <= len) PROVE FALSE
    BY <1>7 DEF Compared
  <2>1. len \in 1..(m - 1)
    BY <1>1, <1>7
  <2> QED
    BY <1>8, <2>1
<1>10. ASSUME At(s, m) = At(t, m), m # len PROVE m = Len(s) + 1
  <2>1. At(s, m) = 0 \/ At(t, m) = 0 \/ s[m] # t[m]
    BY <1>6, <1>10
  <2>2. m \in Nat
    BY <1>1, <1>7
  <2>3. At(s, m) = 0
    BY <1>2, <1>10, <2>1, <2>2
  <2>4. ~(m \in 1..Len(s))
    <3> SUFFICES ASSUME m \in 1..Len(s) PROVE FALSE
      OBVIOUS
    <3>1. m \in DOMAIN s /\ s[m] \in Chars
      OBVIOUS
    <3>2. At(s, m) = s[m]
      BY <3>1 DEF At
    <3> QED
      BY <2>3, <3>1, <3>2, NotNul
  <2> QED
    BY <1>1, <1>7, <2>4
<1> QED
  BY <1>5, <1>8, <1>9, <1>10

(* strncmp is zero for strings that agree, up to the NUL or in the first   *)
(* len characters, and otherwise negative exactly when the first string    *)
(* has the smaller signed character where they first differ; len = 0       *)
(* compares whole strings (string.c:119-138).                              *)
THEOREM StrncmpExact ==
  ASSUME NEW s \in Seq(Chars), NEW t \in Seq(Chars), NEW len \in Nat
  PROVE  /\ strncmp(s, t, len) = 0 <=> \A k \in Compared(s, len) : At(s, k) = At(t, k)
         /\ strncmp(s, t, len) < 0 <=>
              \E k \in Compared(s, len) :
                /\ Signed(At(s, k)) < Signed(At(t, k))
                /\ \A j \in 1..(k - 1) : At(s, j) = At(t, j)
<1>1. PICK m \in Compared(s, len) :
           /\ strncmp(s, t, len) = Signed(At(s, m)) - Signed(At(t, m))
           /\ \A j \in 1..(m - 1) : At(s, j) = At(t, j)
           /\ \/ At(s, m) # At(t, m)
              \/ m = Len(s) + 1
              \/ m = len
  BY StopsAt
<1>2. PICK x \in Int, y \in Int :
           /\ x = Signed(At(s, m)) /\ y = Signed(At(t, m))
           /\ x = y <=> At(s, m) = At(t, m)
  <2>1. At(s, m) \in 0..255 /\ At(t, m) \in 0..255
    BY AtByte
  <2>2. ToldApart(At(s, m), At(t, m))
    BY <2>1, SignedIs
  <2> QED
    BY <2>2 DEF ToldApart
<1>3. strncmp(s, t, len) = x - y
  BY <1>1, <1>2
<1>4. strncmp(s, t, len) = 0 <=> x = y
  BY <1>3
<1>5. strncmp(s, t, len) < 0 <=> x < y
  BY <1>3
<1>6. Len(s) \in Nat /\ m \in 1..(Len(s) + 1) /\ (len = 0 \/ m <= len)
  BY DEF Compared
<1>7. ASSUME x = y, NEW k \in Compared(s, len) PROVE k <= m
  <2>1. k \in 1..(Len(s) + 1) /\ (len = 0 \/ k <= len)
    BY DEF Compared
  <2>2. m = Len(s) + 1 \/ m = len
    BY <1>1, <1>2, <1>7
  <2>3. CASE m = Len(s) + 1
    BY <2>1, <2>3
  <2>4. CASE m = len
    <3>1. len # 0
      BY <1>6, <2>4
    <3> QED
      BY <2>1, <2>4, <3>1
  <2> QED
    BY <2>2, <2>3, <2>4
<1>8. ASSUME x = y, NEW k \in Compared(s, len) PROVE At(s, k) = At(t, k)
  <2>1. k <= m /\ k \in Nat /\ k >= 1
    BY <1>7, <1>8 DEF Compared
  <2>2. CASE k = m
    BY <1>2, <1>8, <2>2
  <2>3. CASE k # m
    <3>1. k \in 1..(m - 1)
      BY <1>6, <2>1, <2>3
    <3> QED
      BY <1>1, <3>1
  <2> QED
    BY <2>2, <2>3
<1>9. strncmp(s, t, len) = 0 <=> \A k \in Compared(s, len) : At(s, k) = At(t, k)
  <2>1. ASSUME \A k \in Compared(s, len) : At(s, k) = At(t, k) PROVE x = y
    BY <1>2, <2>1
  <2> QED
    BY <1>4, <1>8, <2>1
<1>10. ASSUME NEW k \in Compared(s, len), Signed(At(s, k)) < Signed(At(t, k)),
              \A j \in 1..(k - 1) : At(s, j) = At(t, j)
       PROVE  x < y
  <2>1. PICK u \in Int, v \in Int :
             /\ u = Signed(At(s, k)) /\ v = Signed(At(t, k))
             /\ u = v <=> At(s, k) = At(t, k)
    <3>1. At(s, k) \in 0..255 /\ At(t, k) \in 0..255
      BY AtByte
    <3>2. ToldApart(At(s, k), At(t, k))
      BY <3>1, SignedIs
    <3> QED
      BY <3>2 DEF ToldApart
  <2>2. u # v /\ u < v
    BY <1>10, <2>1
  <2>3. k \in Nat /\ k >= 1
    BY DEF Compared
  <2>4. ~(k < m)
    <3> SUFFICES ASSUME k < m PROVE FALSE
      OBVIOUS
    <3>1. k \in 1..(m - 1)
      BY <1>6, <2>3
    <3> QED
      BY <1>1, <2>1, <2>2, <3>1
  <2>5. ~(k > m)
    <3> SUFFICES ASSUME k > m PROVE FALSE
      OBVIOUS
    <3>1. m \in 1..(k - 1)
      BY <1>6, <2>3
    <3>2. x = y
      BY <1>2, <1>10, <3>1
    <3>3. k <= m
      BY <1>7, <3>2
    <3> QED
      BY <1>6, <2>3, <3>3
  <2>6. k = m
    BY <1>6, <2>3, <2>4, <2>5
  <2> QED
    BY <1>2, <2>1, <2>2, <2>6
<1>11. ASSUME x < y
       PROVE  \E k \in Compared(s, len) :
                /\ Signed(At(s, k)) < Signed(At(t, k))
                /\ \A j \in 1..(k - 1) : At(s, j) = At(t, j)
  BY <1>1, <1>2, <1>11
<1> QED
  BY <1>5, <1>9, <1>10, <1>11
-----------------------------------------------------------------------------
(* itoa. *)

LEMMA ModOf ==
  ASSUME NEW w \in Nat \ {0}, NEW c \in Int
  PROVE  c % w \in 0..(w - 1) /\ \E d \in Int : c = w * d + (c % w)
<1>1. c % w \in 0..(w - 1) /\ c \div w \in Int /\ c = w * (c \div w) + (c % w)
  OBVIOUS
<1> QED
  BY <1>1

LEMMA ModIs ==
  ASSUME NEW w \in Nat \ {0}, NEW d \in Int, NEW r \in 0..(w - 1)
  PROVE  (w * d + r) % w = r
  OBVIOUS

(* An int and its opposite; only the least one has none. *)
LEMMA Opposite ==
  ASSUME NEW half \in Nat \ {0}, NEW c \in Int
  PROVE  /\ ToInt(c, half) \in (-half)..(half - 1)
         /\ ToInt(c, half) < 0 =>
              ToInt(-c, half) = IF ToInt(c, half) = -half THEN -half ELSE -ToInt(c, half)
<1> DEFINE w == 2 * half
           m == c % w
<1>1. w \in Nat \ {0}
  OBVIOUS
<1>2. m \in 0..(w - 1) /\ ToInt(c, half) = IF m < half THEN m ELSE m - w
  BY <1>1, ModOf DEF ToInt
<1>3. PICK d \in Int : c = w * d + m
  BY <1>1, ModOf
<1> HIDE DEF m
<1>4. ASSUME m > 0 PROVE (-c) % w = w - m
  <2>1. PICK e \in Int, r \in 0..(w - 1) : e = -d - 1 /\ r = w - m
    BY <1>1, <1>2, <1>4
  <2>2. (w * e + r) % w = r
    BY <1>1, ModIs
  <2> HIDE DEF w
  <2>3. -c = w * e + r
    BY <1>1, <1>2, <1>3, <2>1
  <2> QED
    BY <2>1, <2>2, <2>3
<1>5. ASSUME m >= half PROVE ToInt(-c, half) = IF w - m < half THEN w - m ELSE -m
  <2>1. (-c) % w = w - m
    BY <1>4, <1>5, <1>2
  <2>2. ToInt(-c, half) = IF w - m < half THEN w - m ELSE (w - m) - w
    BY <2>1 DEF ToInt
  <2> QED
    BY <1>2, <2>2
<1> QED
  BY <1>2, <1>5

LEMMA QuotientIs ==
  ASSUME NEW a \in Int
  PROVE  /\ Quotient(a, 10) \in Int
         /\ a >= 0 => /\ Quotient(a, 10) >= 0
                      /\ a - 10 * Quotient(a, 10) \in 0..9
         /\ a <= 0 => /\ Quotient(a, 10) <= 0
                      /\ 10 * Quotient(a, 10) - a \in 0..9
<1>1. CASE a < 0
  <2>1. PICK b \in Nat : b = -a
    BY <1>1
  <2>2. b \div 10 \in Nat /\ b - 10 * (b \div 10) \in 0..9
    OBVIOUS
  <2>3. Quotient(a, 10) = -(b \div 10)
    BY <1>1, <2>1 DEF Quotient
  <2> QED
    BY <1>1, <2>1, <2>2, <2>3
<1>2. CASE a >= 0
  BY <1>2 DEF Quotient
<1> QED
  BY <1>1, <1>2

Magnitude(v) == IF v < 0 THEN -v ELSE v

(* What the loops divide, from v until nothing is left. *)
Divides(s, v, last) ==
  /\ s \in [0..last -> Int] /\ s[0] = v
  /\ \A k \in 1..last : s[k] = Quotient(s[k - 1], 10)

LEMMA ShiftsDivide ==
  ASSUME NEW v \in Int
  PROVE  Divides(Shifts(v), v, 1 + Magnitude(v))
<1> DEFINE last == 1 + Magnitude(v)
           q == [a \in Int |-> Quotient(a, 10)]
           turn == [k \in 1..last |-> q]
           P(f) == f = [k \in 0..last |-> IF k = 0 THEN v ELSE Quotient(f[k - 1], 10)]
           w == Shifts(v)
<1>1. last \in Nat
  BY DEF Magnitude
<1>2. q \in [Int -> Int]
  BY QuotientIs
<1>3. turn \in Loops(last, Int)
  BY <1>2 DEF Loops
<1>5. w = CHOOSE g : P(g)
  BY DEF Shifts, Magnitude
<1> HIDE DEF last, q
<1>4. PICK f : Run(f, last, Int, v, turn)
  BY <1>1, <1>3, Loop
<1>6. f \in [0..last -> Int] /\ f[0] = v /\ \A k \in 1..last : f[k] = q[f[k - 1]]
  BY <1>4 DEF Run
<1>7. \A k \in 1..last : f[k] = Quotient(f[k - 1], 10)
  <2> SUFFICES ASSUME NEW k \in 1..last PROVE f[k] = Quotient(f[k - 1], 10)
    OBVIOUS
  <2>1. f[k - 1] \in Int /\ f[k] = q[f[k - 1]]
    BY <1>1, <1>6
  <2> QED
    BY <2>1 DEF q
<1>8. P(f)
  <2>1. \A k \in 0..last : f[k] = IF k = 0 THEN v ELSE Quotient(f[k - 1], 10)
    BY <1>1, <1>6, <1>7
  <2> QED
    BY <1>6, <2>1
<1> HIDE DEF P
<1>9. P(w)
  <2>1. P(CHOOSE g : P(g))
    BY <1>8
  <2> QED
    BY <1>5, <2>1
<1> HIDE DEF w
<1>10. w = [k \in 0..last |-> IF k = 0 THEN v ELSE Quotient(w[k - 1], 10)]
  BY <1>9 DEF P
<1>11. DOMAIN w = 0..last /\ w[0] = v /\ \A k \in 1..last : w[k] = Quotient(w[k - 1], 10)
  <2>1. DOMAIN w = 0..last /\ \A k \in 0..last : w[k] = IF k = 0 THEN v ELSE Quotient(w[k - 1], 10)
    BY <1>10
  <2> QED
    BY <1>1, <2>1
<1>12. 0..last \subseteq {k \in 0..last : w[k] \in Int}
  <2> DEFINE S == {k \in 0..last : w[k] \in Int}
  <2>1. 0 \in S
    BY <1>1, <1>11
  <2>2. ASSUME NEW k \in 0..(last - 1), k \in S PROVE k + 1 \in S
    <3>1. k + 1 \in 1..last /\ (k + 1) - 1 = k
      BY <1>1
    <3>2. w[k + 1] = Quotient(w[k], 10)
      BY <1>11, <3>1
    <3> QED
      BY <2>2, <3>1, <3>2, QuotientIs
  <2> HIDE DEF S
  <2>3. 0..last \subseteq S
    BY <1>1, <2>1, <2>2, Induct
  <2> QED
    BY <2>3 DEF S
<1>13. w \in [0..last -> Int]
  <2>1. w = [k \in 0..last |-> w[k]]
    BY <1>10, <1>11
  <2> QED
    BY <1>12, <2>1
<1> QED
  BY <1>11, <1>13 DEF Divides, w, last

(* One digit less to go with every turn, so that nothing is left at last. *)
LEMMA NothingLeft ==
  ASSUME NEW v \in Int, NEW s, Divides(s, v, 1 + Magnitude(v))
  PROVE  s[1 + Magnitude(v)] = 0
<1> DEFINE last == 1 + Magnitude(v)
           S == {k \in 0..last : s[k] = 0 \/ Magnitude(s[k]) + k <= Magnitude(v)}
<1>1. last \in Nat /\ last = 1 + Magnitude(v) /\ Magnitude(v) \in Nat
  BY DEF Magnitude
<1>2. Divides(s, v, last)
  OBVIOUS
<1> HIDE DEF last
<1>3. 0 \in S
  BY <1>1, <1>2 DEF Divides
<1>4. ASSUME NEW k \in 0..(last - 1), k \in S PROVE k + 1 \in S
  <2>1. k + 1 \in 1..last /\ (k + 1) - 1 = k /\ k \in 0..last /\ k + 1 \in 0..last
    BY <1>1
  <2>2. PICK a \in Int, b \in Int : a = s[k] /\ b = s[k + 1] /\ b = Quotient(a, 10)
    BY <1>2, <2>1 DEF Divides
  <2>3. b = 0 \/ Magnitude(b) + 1 <= Magnitude(a)
    <3>1. /\ a >= 0 => b >= 0 /\ a - 10 * b \in 0..9
          /\ a <= 0 => b <= 0 /\ 10 * b - a \in 0..9
      BY <2>2, QuotientIs
    <3>2. CASE a >= 0
      BY <3>1, <3>2 DEF Magnitude
    <3>3. CASE a <= 0
      BY <3>1, <3>3 DEF Magnitude
    <3> QED
      BY <3>2, <3>3
  <2>4. a = 0 => b = 0
    BY <2>2, QuotientIs
  <2>5. Magnitude(a) \in Nat /\ Magnitude(b) \in Nat
    BY DEF Magnitude
  <2>6. a = 0 \/ Magnitude(a) + k <= Magnitude(v)
    BY <1>4, <2>2
  <2>7. b = 0 \/ Magnitude(b) + (k + 1) <= Magnitude(v)
    BY <1>1, <2>1, <2>3, <2>4, <2>5, <2>6
  <2> QED
    BY <2>1, <2>2, <2>7
<1>5. 0..last \subseteq S
  <2> HIDE DEF S
  <2> QED
    BY <1>1, <1>3, <1>4, Induct
<1>6. s[last] = 0 \/ Magnitude(s[last]) + last <= Magnitude(v)
  BY <1>1, <1>5
<1>7. Magnitude(s[last]) \in Nat
  BY <1>1, <1>2 DEF Divides, Magnitude
<1> QED
  BY <1>1, <1>6, <1>7

(* The values that give the len digits of v, from v to nothing. *)
DigitsFrom(s, v, len) ==
  /\ len \in Nat \ {0}
  /\ s[0] = v /\ s[len] = 0
  /\ \A k \in 0..len : s[k] \in Int
  /\ \A k \in 1..len : s[k] = Quotient(s[k - 1], 10)
  /\ \A k \in 1..(len - 1) : s[k] # 0

LEMMA DigitsOf ==
  ASSUME NEW v \in Int
  PROVE  DigitsFrom(Shifts(v), v, DigitCount(v))
<1>1. PICK last \in Nat : last = 1 + Magnitude(v) /\ last > 0
  BY DEF Magnitude
<1>2. PICK s : s = Shifts(v)
  OBVIOUS
<1>3. Divides(s, v, last) /\ s[last] = 0
  BY <1>1, <1>2, ShiftsDivide, NothingLeft
<1> DEFINE Z == {k \in DOMAIN s \ {0} : s[k] = 0}
<1>4. DOMAIN s = 0..last
  BY <1>3 DEF Divides
<1>5. Z \in SUBSET Nat /\ last \in Z /\ Z = {k \in 1..last : s[k] = 0}
  BY <1>1, <1>3, <1>4
<1>6. PICK len : len = DigitCount(v) /\ len = Min(Z)
  BY <1>2 DEF DigitCount
<1>7. len \in Z /\ \A k \in Z : len <= k
  <2> HIDE DEF Z
  <2> QED
    BY <1>5, <1>6, MinIs
<1>8. len \in 1..last /\ s[len] = 0
  BY <1>5, <1>7
<1>9. \A k \in 1..(len - 1) : s[k] # 0
  <2> SUFFICES ASSUME NEW k \in 1..(len - 1), s[k] = 0 PROVE FALSE
    OBVIOUS
  <2>1. k \in 1..last /\ ~(len <= k)
    BY <1>8
  <2> QED
    BY <1>5, <1>7, <2>1
<1>10. len \in Nat \ {0} /\ 0..len \subseteq 0..last /\ 1..len \subseteq 1..last
  BY <1>8
<1>11. DigitsFrom(s, v, len)
  BY <1>3, <1>8, <1>9, <1>10 DEF Divides, DigitsFrom
<1> QED
  BY <1>2, <1>6, <1>11

(* Nothing changes its sign. *)
LEMMA SignKept ==
  ASSUME NEW v \in Int, NEW s, NEW len, DigitsFrom(s, v, len)
  PROVE  \A k \in 0..len : (v >= 0 => s[k] >= 0) /\ (v <= 0 => s[k] <= 0)
<1> DEFINE S == {k \in 0..len : (v >= 0 => s[k] >= 0) /\ (v <= 0 => s[k] <= 0)}
<1>1. len \in Nat
  BY DEF DigitsFrom
<1>2. 0 \in S
  BY <1>1 DEF DigitsFrom
<1>3. ASSUME NEW k \in 0..(len - 1), k \in S PROVE k + 1 \in S
  <2>1. k + 1 \in 1..len /\ (k + 1) - 1 = k /\ k \in 0..len /\ k + 1 \in 0..len
    BY <1>1
  <2>2. PICK a \in Int, b \in Int : a = s[k] /\ b = s[k + 1] /\ b = Quotient(a, 10)
    BY <2>1 DEF DigitsFrom
  <2>3. (a >= 0 => b >= 0) /\ (a <= 0 => b <= 0)
    BY <2>2, QuotientIs
  <2>4. (v >= 0 => a >= 0) /\ (v <= 0 => a <= 0)
    BY <1>3, <2>2
  <2> QED
    BY <2>1, <2>2, <2>3, <2>4
<1>4. 0..len \subseteq S
  <2> HIDE DEF S
  <2> QED
    BY <1>1, <1>2, <1>3, Induct
<1> QED
  BY <1>4

(* The digit in place k, and the first one. *)
LEMMA DigitIs ==
  ASSUME NEW v \in Int, NEW s, NEW len, DigitsFrom(s, v, len), NEW k \in 1..len
  PROVE  /\ s[len - k] \in Int /\ s[len - (k - 1)] \in Int
         /\ Remainder(s[len - k], 10) = s[len - k] - 10 * s[len - (k - 1)]
         /\ v >= 0 => Remainder(s[len - k], 10) \in 0..9
         /\ v <= 0 => Remainder(s[len - k], 10) \in (-9)..0
         /\ k = 1 /\ (v # 0 \/ len > 1) => Remainder(s[len - k], 10) # 0
<1>1. len \in Nat /\ len > 0
  BY DEF DigitsFrom
<1>2. PICK i \in 0..(len - 1) : i = len - k
  BY <1>1
<1>3. i \in 0..len /\ i + 1 \in 1..len /\ i + 1 \in 0..len /\ (i + 1) - 1 = i /\ len - (k - 1) = i + 1
  BY <1>1, <1>2
<1>4. PICK a \in Int, b \in Int : a = s[i] /\ b = s[i + 1] /\ b = Quotient(a, 10)
  BY <1>3 DEF DigitsFrom
<1>5. Remainder(a, 10) = a - 10 * b
  BY <1>4 DEF Remainder
<1>6. (v >= 0 => a >= 0) /\ (v <= 0 => a <= 0)
  BY <1>3, <1>4, SignKept
<1>7. /\ a >= 0 => a - 10 * b \in 0..9
      /\ a <= 0 => 10 * b - a \in 0..9
  BY <1>4, QuotientIs
<1>8. ASSUME k = 1, v # 0 \/ len > 1 PROVE a - 10 * b # 0
  <2>1. i + 1 = len
    BY <1>1, <1>2, <1>8
  <2>2. b = 0
    BY <1>4, <2>1 DEF DigitsFrom
  <2>3. a # 0
    <3>1. CASE len = 1
      <4>1. i = 0
        BY <2>1, <3>1
      <4> QED
        BY <1>4, <1>8, <3>1, <4>1 DEF DigitsFrom
    <3>2. CASE len > 1
      <4>1. i \in 1..(len - 1)
        BY <1>1, <2>1, <3>2
      <4> QED
        BY <1>4, <4>1 DEF DigitsFrom
    <3> QED
      BY <1>1, <3>1, <3>2
  <2> QED
    BY <2>2, <2>3
<1>9. /\ s[len - k] = a /\ s[len - (k - 1)] = b
      /\ Remainder(s[len - k], 10) = Remainder(a, 10)
  BY <1>2, <1>3, <1>4
<1>10. PICK r \in Int : r = a - 10 * b
  OBVIOUS
<1>11. (v >= 0 => r \in 0..9) /\ (v <= 0 => r \in (-9)..0)
  BY <1>6, <1>7, <1>10
<1> QED
  BY <1>5, <1>8, <1>9, <1>10, <1>11

(* The digits of v, of which itoa writes those of the argument. *)
TextOf(v) == [k \in 1..DigitCount(v) |->
                digit_to_char(Remainder(Shifts(v)[DigitCount(v) - k], 10))]

LEMMA TextSeq ==
  ASSUME NEW v \in Int
  PROVE  TextOf(v) \in Seq(Int) /\ Len(TextOf(v)) = DigitCount(v) /\ DigitCount(v) \in Nat \ {0}
<1>1. PICK len \in Nat \ {0} : len = DigitCount(v) /\ DigitsFrom(Shifts(v), v, len)
  BY DigitsOf DEF DigitsFrom
<1>2. ASSUME NEW k \in 1..len PROVE digit_to_char(Remainder(Shifts(v)[len - k], 10)) \in Int
  <2>1. PICK a : a = Remainder(Shifts(v)[len - k], 10)
    OBVIOUS
  <2> QED
    BY <2>1 DEF digit_to_char
<1>3. TextOf(v) = [k \in 1..len |-> digit_to_char(Remainder(Shifts(v)[len - k], 10))]
  BY <1>1 DEF TextOf
<1>4. TextOf(v) \in [1..len -> Int]
  BY <1>2, <1>3
<1> QED
  BY <1>1, <1>4

LEMMA NaturalText ==
  ASSUME NEW v \in Nat, NEW k \in 1..DigitCount(v)
  PROVE  /\ TextOf(v)[k] = 48 + (Shifts(v)[DigitCount(v) - k]
                                   - 10 * Shifts(v)[DigitCount(v) - (k - 1)])
         /\ TextOf(v)[k] \in 48..57
         /\ k = 1 /\ DigitCount(v) > 1 => TextOf(v)[k] # 48
<1>1. PICK len, s : len = DigitCount(v) /\ s = Shifts(v) /\ DigitsFrom(s, v, len) /\ k \in 1..len
  BY DigitsOf
<1>2. /\ s[len - k] \in Int /\ s[len - (k - 1)] \in Int
      /\ Remainder(s[len - k], 10) = s[len - k] - 10 * s[len - (k - 1)]
      /\ Remainder(s[len - k], 10) \in 0..9
      /\ k = 1 /\ len > 1 => Remainder(s[len - k], 10) # 0
  BY <1>1, DigitIs
<1>3. TextOf(v)[k] = 48 + Remainder(s[len - k], 10)
  BY <1>1, <1>2 DEF TextOf, digit_to_char
<1> QED
  BY <1>1, <1>2, <1>3

LEMMA LeastText ==
  ASSUME NEW v \in Int, v < 0, NEW k \in 1..DigitCount(v)
  PROVE  TextOf(v)[k] \in {48, 69} /\ (k = 1 => TextOf(v)[k] = 69)
<1>1. PICK len, s : len = DigitCount(v) /\ s = Shifts(v) /\ DigitsFrom(s, v, len) /\ k \in 1..len
  BY DigitsOf
<1>2. /\ Remainder(s[len - k], 10) \in (-9)..0
      /\ k = 1 => Remainder(s[len - k], 10) # 0
  BY <1>1, DigitIs
<1>3. TextOf(v)[k] = digit_to_char(Remainder(s[len - k], 10))
  BY <1>1 DEF TextOf
<1> QED
  BY <1>2, <1>3 DEF digit_to_char

(* The digits of a number denote it. *)
LEMMA TextDenotes ==
  ASSUME NEW v \in Nat
  PROVE  ValueOf(TextOf(v)) = v
<1>0. PICK len \in Nat \ {0} : len = DigitCount(v)
  BY TextSeq
<1>1. PICK s, d : /\ len = DigitCount(v) /\ s = Shifts(v) /\ d = TextOf(v)
                  /\ DigitsFrom(s, v, len)
  BY <1>0, DigitsOf
<1>2. Len(d) = len
  BY <1>1, TextSeq
<1>3. \A k \in 1..len : d[k] = 48 + (s[len - k] - 10 * s[len - (k - 1)])
  BY <1>1, NaturalText
<1> DEFINE P(f) == f = [k \in 0..len |-> IF k = 0 THEN 0 ELSE 10 * f[k - 1] + (d[k] - 48)]
           w == CHOOSE f : P(f)
           g == [k \in 0..len |-> s[len - k]]
<1>4. ValueOf(d) = w[len]
  BY <1>2 DEF ValueOf, numeric_char_to_digit
<1>5. g[0] = 0 /\ g[len] = v
  BY <1>1 DEF DigitsFrom
<1>6. ASSUME NEW k \in 1..len PROVE g[k] = 10 * g[k - 1] + (d[k] - 48)
  <2>1. k \in 0..len /\ k - 1 \in 0..len /\ len - k \in 0..len /\ len - (k - 1) \in 0..len
    OBVIOUS
  <2>2. PICK a \in Int, b \in Int : a = s[len - k] /\ b = s[len - (k - 1)]
    BY <1>1, <2>1 DEF DigitsFrom
  <2>3. g[k] = a /\ g[k - 1] = b
    BY <2>1, <2>2
  <2>4. d[k] = 48 + (a - 10 * b)
    BY <1>3, <2>2
  <2> HIDE DEF g
  <2> QED
    BY <2>3, <2>4
<1>7. P(g)
  <2>1. DOMAIN g = 0..len /\ g = [k \in 0..len |-> g[k]]
    OBVIOUS
  <2> HIDE DEF g
  <2>2. \A k \in 0..len : g[k] = IF k = 0 THEN 0 ELSE 10 * g[k - 1] + (d[k] - 48)
    BY <1>5, <1>6
  <2> QED
    BY <2>1, <2>2
<1> HIDE DEF P
<1>8. P(w)
  BY <1>7
<1> HIDE DEF w
<1>9. /\ w[0] = 0 /\ DOMAIN w = 0..len
      /\ \A k \in 1..len : w[k] = 10 * w[k - 1] + (d[k] - 48)
  <2>1. w = [k \in 0..len |-> IF k = 0 THEN 0 ELSE 10 * w[k - 1] + (d[k] - 48)]
    BY <1>8 DEF P
  <2>2. DOMAIN w = 0..len /\ \A k \in 0..len : w[k] = IF k = 0 THEN 0 ELSE 10 * w[k - 1] + (d[k] - 48)
    BY <2>1
  <2> QED
    BY <2>2
<1>10. 0..len \subseteq {k \in 0..len : w[k] = g[k]}
  <2> DEFINE S == {k \in 0..len : w[k] = g[k]}
  <2>1. 0 \in S
    BY <1>5, <1>9
  <2> HIDE DEF g
  <2>2. ASSUME NEW k \in 0..(len - 1), k \in S PROVE k + 1 \in S
    <3>1. k + 1 \in 1..len /\ (k + 1) - 1 = k /\ k + 1 \in 0..len
      OBVIOUS
    <3>2. w[k + 1] = 10 * w[k] + (d[k + 1] - 48)
      BY <1>9, <3>1
    <3>3. g[k + 1] = 10 * g[k] + (d[k + 1] - 48)
      BY <1>6, <3>1
    <3> QED
      BY <2>2, <3>1, <3>2, <3>3
  <2> HIDE DEF S
  <2>3. 0..len \subseteq S
    BY <2>1, <2>2, Induct
  <2> QED
    BY <2>3 DEF S
<1> HIDE DEF g
<1> QED
  BY <1>1, <1>4, <1>5, <1>10

(* itoa writes the number its argument is as an int (string.c:232-269). *)
THEOREM ItoaPrints ==
  ASSUME NEW c \in Int
  PROVE  Printed(c, itoa(c, IntHalf))
<1>1. IntHalf \in Nat \ {0}
  BY LibraryAssumption
<1>2. PICK i \in (-IntHalf)..(IntHalf - 1) : i = ToInt(c, IntHalf)
  BY <1>1, Opposite
<1>3. PICK v \in Int : /\ v = ToInt(IF i < 0 THEN -c ELSE c, IntHalf)
                       /\ v = IF i = -IntHalf THEN i ELSE IF i < 0 THEN -i ELSE i
  BY <1>1, <1>2, Opposite
<1>0. PICK len \in Nat \ {0} : len = DigitCount(v)
  BY TextSeq
<1>4. PICK d : /\ d = TextOf(v) /\ len = DigitCount(v)
               /\ d \in Seq(Int) /\ Len(d) = len
  BY <1>0, TextSeq
<1>5. itoa(c, IntHalf) = IF i < 0 THEN <<45>> \o d ELSE d
  BY <1>2, <1>3, <1>4 DEF itoa, TextOf
<1>6. CASE i < 0
  <2>1. PICK text : text = itoa(c, IntHalf) /\ text = <<45>> \o d
    BY <1>5, <1>6
  <2>2. text[1] = 45 /\ Tail(text) = d
    <3>1. <<45>> \in Seq(Int) /\ Len(<<45>>) = 1
      OBVIOUS
    <3>2. text \in Seq(Int) /\ Len(text) = len + 1 /\ text[1] = 45
      BY <1>4, <2>1, <3>1
    <3>3. \A k \in 1..len : text[k + 1] = d[k]
      BY <1>4, <2>1, <3>1
    <3>4. Tail(text) \in Seq(Int) /\ Len(Tail(text)) = len
      BY <3>2
    <3>5. \A k \in 1..len : Tail(text)[k] = text[k + 1]
      BY <3>2
    <3>6. Tail(text) = d
      BY <1>4, <3>3, <3>4, <3>5, SeqEqual
    <3> QED
      BY <3>2, <3>6
  <2>3. CASE i = -IntHalf
    <3>1. v < 0
      BY <1>1, <1>3, <2>3
    <3>2. d[1] = 69 /\ \A k \in 1..Len(d) : d[k] \in {48, 69}
      BY <1>4, <3>1, LeastText
    <3> QED
      BY <1>2, <1>6, <2>1, <2>2, <2>3, <3>2 DEF Printed
  <2>4. CASE i # -IntHalf
    <3>1. v \in Nat /\ v = -i
      BY <1>1, <1>3, <1>6, <2>4
    <3>2. /\ ValueOf(d) = -i
          /\ \A k \in 1..Len(d) : is_digit(d[k])
          /\ Len(d) > 1 => d[1] # 48
      BY <1>4, <3>1, NaturalText, TextDenotes DEF is_digit
    <3> QED
      BY <1>2, <1>6, <2>1, <2>2, <2>4, <3>2 DEF Printed
  <2> QED
    BY <2>3, <2>4
<1>7. CASE i >= 0
  <2>1. v \in Nat /\ v = i /\ i # -IntHalf /\ ~(i < 0)
    BY <1>1, <1>3, <1>7
  <2>2. PICK text : text = itoa(c, IntHalf) /\ text = d
    BY <1>5, <2>1
  <2>3. /\ ValueOf(d) = i
        /\ \A k \in 1..Len(d) : is_digit(d[k])
        /\ Len(d) > 1 => d[1] # 48
    BY <1>4, <2>1, NaturalText, TextDenotes DEF is_digit
  <2>4. d[1] # 45
    <3>1. 1 \in 1..Len(d)
      BY <1>4
    <3>2. d[1] \in 48..57
      BY <2>3, <3>1 DEF is_digit
    <3> QED
      BY <3>2
  <2> QED
    BY <1>2, <2>1, <2>2, <2>3, <2>4 DEF Printed
<1> QED
  BY <1>6, <1>7
-----------------------------------------------------------------------------
(* Descriptors. *)

LEMMA DivMod ==
  ASSUME NEW w \in Nat \ {0}, NEW q \in Nat, NEW r \in 0..(w - 1)
  PROVE  (q * w + r) \div w = q /\ (q * w + r) % w = r
  OBVIOUS

LEMMA DivModOf ==
  ASSUME NEW w \in Nat \ {0}, NEW a \in Nat
  PROVE  /\ a \div w \in Nat /\ a % w \in 0..(w - 1)
         /\ a = (a \div w) * w + (a % w)
  OBVIOUS

(* A division in two steps. *)
LEMMA DivTwice ==
  ASSUME NEW v \in Nat \ {0}, NEW w \in Nat \ {0}, NEW a \in Nat
  PROVE  v * w \in Nat \ {0} /\ a \div (v * w) = (a \div v) \div w
<1> DEFINE q == a \div v
           r == a % v
           s == q \div w
           t == q % w
<1>1. q \in Nat /\ r \in 0..(v - 1) /\ a = q * v + r
  BY DivModOf
<1>2. s \in Nat /\ t \in 0..(w - 1) /\ q = s * w + t
  BY <1>1, DivModOf
<1> HIDE DEF q, r, s, t
<1>3. v * w \in Nat \ {0}
  OBVIOUS
<1>4. a = s * (v * w) + (t * v + r)
  BY <1>1, <1>2
<1>5. t * v + r \in 0..(v * w - 1)
  <2>1. t * v \in Nat /\ (w - 1 - t) * v \in Nat
    BY <1>2
  <2>2. t * v + (w - 1 - t) * v + v = v * w
    BY <1>2
  <2> QED
    BY <1>1, <1>2, <1>3, <2>1, <2>2
<1>6. (s * (v * w) + (t * v + r)) \div (v * w) = s
  BY <1>2, <1>3, <1>5, DivMod
<1> QED
  BY <1>3, <1>4, <1>6 DEF s, q

(* A quotient is below u when the number is below u times the divisor. *)
LEMMA DivBelow ==
  ASSUME NEW v \in Nat \ {0}, NEW u \in Nat, NEW a \in Nat, a < u * v
  PROVE  a \div v < u
<1> DEFINE q == a \div v
           r == a % v
<1>1. q \in Nat /\ r \in 0..(v - 1) /\ a = q * v + r
  BY DivModOf
<1> HIDE DEF q, r
<1> SUFFICES ASSUME q >= u PROVE FALSE
  BY <1>1 DEF q
<1>2. PICK x \in Nat : q = u + x
  <2>1. q - u \in Nat /\ q = u + (q - u)
    BY <1>1
  <2> QED
    BY <2>1
<1>3. q * v = u * v + x * v /\ x * v \in Nat /\ u * v \in Nat
  BY <1>2
<1> QED
  BY <1>1, <1>3

LEMMA Widths ==
  /\ Nibble \in Nat \ {0} /\ Nibble > 1
  /\ Byte \in Nat \ {0} /\ Page \in Nat \ {0} /\ Short \in Nat \ {0}
  /\ Byte * Short \in Nat \ {0}
  /\ Short * Short = (Short * Nibble) * Page
  /\ Short * Short = Byte * (Byte * Short)
  /\ Short < Short * Nibble
<1>1. Nibble \in Nat \ {0} /\ Nibble > 1
  BY GdtAssumption
<1>2. PICK n \in Nat \ {0} : n = Nibble
  BY <1>1
<1>3. n * n \in Nat \ {0} /\ Byte = n * n
  BY <1>2 DEF Byte
<1>4. PICK b \in Nat \ {0} : b = n * n /\ Byte = b
  BY <1>3
<1>5. n * b \in Nat \ {0} /\ b * b \in Nat \ {0} /\ Page = n * b /\ Short = b * b
  BY <1>2, <1>4 DEF Page, Short
<1>6. PICK s \in Nat \ {0} : s = b * b /\ Short = s
  BY <1>5
<1>7. b * s \in Nat \ {0}
  OBVIOUS
<1>8. s * s = b * (b * s)
  BY <1>6
<1>9. (s * n) * (n * b) = s * s
  <2>1. (s * n) * (n * b) = s * ((n * n) * b)
    OBVIOUS
  <2>2. (n * n) * b = s
    BY <1>4, <1>6
  <2> QED
    BY <2>1, <2>2
<1>10. s < s * n
  <2>1. PICK x \in Nat : n = x + 2
    <3>1. n - 2 \in Nat /\ n = (n - 2) + 2
      BY <1>1, <1>2
    <3> QED
      BY <3>1
  <2>2. s * n = s * x + 2 * s /\ s * x \in Nat
    BY <2>1
  <2> QED
    BY <2>2
<1> QED
  BY <1>1, <1>2, <1>4, <1>5, <1>6, <1>7, <1>8, <1>9, <1>10

(* A number below Short * u is put together from its two low bytes and the rest. *)
LEMMA Digits ==
  ASSUME NEW a \in Nat
  PROVE  /\ ByteAt(a, 1) + Byte * ByteAt(a, Byte) + Short * (a \div Short) = a
         /\ a \div Short \in Nat
         /\ ByteAt(a, 1) \in 0..(Byte - 1) /\ ByteAt(a, Byte) \in 0..(Byte - 1)
<1>1. PICK b \in Nat \ {0} : b = Byte /\ Short = b * b /\ b * b \in Nat \ {0}
  BY Widths DEF Short
<1> DEFINE q == a \div b
           s == a \div (b * b)
<1>2. q \in Nat /\ a = q * b + (a % b) /\ a % b \in 0..(b - 1)
  BY DivModOf
<1>3. s = q \div b
  BY DivTwice
<1>4. s \in Nat /\ q = s * b + (q % b) /\ q % b \in 0..(b - 1)
  BY <1>2, <1>3, DivModOf
<1>5. ByteAt(a, 1) = a % b /\ ByteAt(a, Byte) = q % b /\ a \div Short = s
  <2>1. a \div 1 = a
    OBVIOUS
  <2> QED
    BY <1>1, <2>1 DEF ByteAt
<1>6. PICK x \in Nat, y \in Nat : x = a % b /\ y = q % b
  BY <1>2, <1>4
<1>7. PICK p \in Nat, t \in Nat : p = q /\ t = s
  BY <1>2, <1>4
<1>8. a = p * b + x /\ p = t * b + y
  BY <1>2, <1>4, <1>6, <1>7
<1>9. x + b * y + (b * b) * t = a
  BY <1>8
<1> QED
  BY <1>1, <1>2, <1>4, <1>5, <1>6, <1>7, <1>9

(* Four bytes hold any base below Short * Short. *)
LEMMA BaseKept ==
  ASSUME NEW base \in 0..(Short * Short - 1)
  PROVE  ByteAt(base, 1) + Byte * ByteAt(base, Byte) + Short * ByteAt(base, Short)
           + Byte * Short * ByteAt(base, Byte * Short) = base
<1>1. base \in Nat /\ base < Short * Short
  BY Widths
<1>2. PICK b \in Nat \ {0}, s \in Nat \ {0} : b = Byte /\ s = Short /\ b * s \in Nat \ {0}
  BY Widths
<1> DEFINE h == base \div s
           t == base \div (b * s)
<1>3. h \in Nat /\ base \div Short = h
  BY <1>1, <1>2, DivModOf
<1>4. b * s = s * b
  OBVIOUS
<1>5. t = h \div b
  <2>1. base \div (s * b) = h \div b
    BY <1>1, DivTwice
  <2> QED
    BY <1>4, <2>1
<1>6. t < b
  <2>1. base < b * (b * s)
    BY <1>1, <1>2, Widths
  <2> QED
    BY <1>1, <1>2, <2>1, DivBelow
<1>7. t \in Nat /\ h = t * b + (h % b) /\ h % b \in 0..(b - 1)
  <2> HIDE DEF h, t
  <2>1. h \div b \in Nat /\ h % b \in 0..(b - 1) /\ h = (h \div b) * b + (h % b)
    BY <1>3, DivModOf
  <2> QED
    BY <1>5, <2>1
<1>8. t % b = t
  <2> HIDE DEF t
  <2>1. PICK x \in 0..(b - 1) : x = t
    BY <1>6, <1>7
  <2>2. (0 * b + x) % b = x
    BY DivMod
  <2> QED
    BY <2>1, <2>2
<1>9. ByteAt(base, Short) = h % b /\ ByteAt(base, Byte * Short) = t % b
  BY <1>2 DEF ByteAt
<1>10. PICK x \in Nat, y \in Nat, z \in Nat :
         /\ x = ByteAt(base, 1) + Byte * ByteAt(base, Byte)
         /\ y = h % b /\ z = t
  <2>1. ByteAt(base, 1) \in Nat /\ ByteAt(base, Byte) \in Nat
    BY <1>1, <1>2, Digits
  <2>2. PICK u \in Nat, v \in Nat : u = ByteAt(base, 1) /\ v = ByteAt(base, Byte)
    BY <2>1
  <2>3. u + b * v \in Nat
    OBVIOUS
  <2> QED
    BY <1>2, <1>7, <2>2, <2>3
<1>11. x + s * h = base
  BY <1>1, <1>2, <1>3, <1>10, Digits
<1>12. s * h = s * y + (b * s) * z
  <2>1. PICK g \in Nat : g = h
    BY <1>3
  <2>2. g = z * b + y
    BY <1>7, <1>10, <2>1
  <2>3. s * g = s * y + (b * s) * z
    BY <2>2
  <2> QED
    BY <2>1, <2>3
<1>13. x + s * y + (b * s) * z = base
  <2>1. PICK g \in Nat, c \in Nat, e \in Nat : g = s * h /\ c = s * y /\ e = (b * s) * z
    <3>1. s * h \in Nat /\ s * y \in Nat /\ (b * s) * z \in Nat
      BY <1>3, <1>2
    <3> QED
      BY <3>1
  <2> QED
    BY <1>11, <1>12, <2>1
<1> QED
  BY <1>2, <1>8, <1>9, <1>10, <1>13

(* The twenty bits of the field hold the limit, in pages when it is large. *)
LEMMA FieldKept ==
  ASSUME NEW x \in Nat, x < Short * Nibble
  PROVE  ByteAt(x, 1) + Byte * ByteAt(x, Byte) + Short * ((x \div Short) % Nibble) = x
<1>1. PICK n \in Nat \ {0}, s \in Nat \ {0} : n = Nibble /\ s = Short
  BY Widths
<1>2. x < n * s
  BY <1>1
<1>3. x \div s < n
  BY <1>2, DivBelow
<1>4. x \div s \in Nat
  BY DivModOf
<1>5. (x \div s) % n = x \div s
  <2>1. PICK y \in 0..(n - 1) : y = x \div s
    BY <1>3, <1>4
  <2>2. (0 * n + y) % n = y
    BY DivMod
  <2> QED
    BY <2>1, <2>2
<1> QED
  BY <1>1, <1>5, Digits

(***************************************************************************)
(* gdt_structure_to_native (gdt.c): every base and every limit of 32 bits  *)
(* for which it does not panic are what the processor reads back from the  *)
(* eight bytes; a limit of exactly 65536 included, which stays in bytes    *)
(* and needs the seventeenth bit of the field.                             *)
(***************************************************************************)
THEOREM DescriptorReadsBack ==
  ASSUME NEW base \in 0..(Short * Short - 1), NEW limit \in 0..(Short * Short - 1), NEW type,
         ~gdt_structure_to_native(base, limit, type).panic
  PROVE  /\ BaseRead(gdt_structure_to_native(base, limit, type)) = base
         /\ LimitRead(gdt_structure_to_native(base, limit, type)) = limit
<1> DEFINE d == gdt_structure_to_native(base, limit, type)
           large == limit > Short
           shifted == IF large THEN limit \div Page ELSE limit
<1>1. BaseRead(d) = base
  <2>1. d.base = <<ByteAt(base, 1), ByteAt(base, Byte), ByteAt(base, Short),
                   ByteAt(base, Byte * Short)>>
    BY DEF gdt_structure_to_native
  <2> QED
    BY <2>1, BaseKept DEF BaseRead
<1>2. limit \in Nat /\ limit < Short * Short
  BY Widths
<1>3. /\ d.limit = <<ByteAt(shifted, 1), ByteAt(shifted, Byte)>>
      /\ d.limit_high = (shifted \div Short) % Nibble
      /\ d.granularity = large
      /\ d.panic = ~Encodable(limit)
  BY DEF gdt_structure_to_native
<1>4. shifted \in Nat /\ shifted < Short * Nibble
  <2>1. CASE large
    <3>1. limit \div Page \in Nat
      BY <1>2, Widths, DivModOf
    <3>2. limit \div Page < Short * Nibble
      <4>1. limit < (Short * Nibble) * Page
        BY <1>2, Widths
      <4>2. Short * Nibble \in Nat
        BY Widths
      <4> QED
        BY <1>2, <4>1, <4>2, Widths, DivBelow
    <3> QED
      BY <2>1, <3>1, <3>2
  <2>2. CASE ~large
    BY <1>2, <2>2, Widths
  <2> QED
    BY <2>1, <2>2
<1>5. d.limit[1] + Byte * d.limit[2] + Short * d.limit_high = shifted
  <2>1. ByteAt(shifted, 1) + Byte * ByteAt(shifted, Byte)
          + Short * ((shifted \div Short) % Nibble) = shifted
    BY <1>4, FieldKept
  <2> QED
    BY <1>3, <2>1
<1>6. LimitRead(d) = IF large THEN shifted * Page + Page - 1 ELSE shifted
  BY <1>3, <1>5 DEF LimitRead
<1>7. CASE large
  <2>1. limit % Page = Page - 1
    BY <1>3, <1>7 DEF Encodable
  <2>2. limit = (limit \div Page) * Page + (limit % Page) /\ limit \div Page \in Nat
    BY <1>2, Widths, DivModOf
  <2>3. PICK p \in Nat \ {0}, q \in Nat : p = Page /\ q = limit \div Page
    BY <2>2, Widths
  <2>4. limit = q * p + (p - 1)
    BY <2>1, <2>2, <2>3
  <2>5. q * p + p - 1 = limit
    <3>1. q * p \in Nat
      OBVIOUS
    <3> QED
      BY <2>4, <3>1
  <2> QED
    BY <1>1, <1>6, <1>7, <2>3, <2>5
<1>8. CASE ~large
  BY <1>1, <1>6, <1>8
<1> QED
  BY <1>7, <1>8
-----------------------------------------------------------------------------
(* The calls. *)

CallMade == called = NoCall \/ called \in Calls

LEMMA BufferCalls ==
  ASSUME NEW k \in 1..Len(Old), NEW size \in Sizes
  PROVE  /\ memcpy(Old, Source, 1, size)[k] = IF k > size THEN Old[k] ELSE Source[k]
         /\ \A c \in Bytes :
              memset(Old, c, size)[k] =
                IF k > size THEN Old[k]
                ELSE IF c \in 128..254 /\ k <= 4 * (size \div 4) /\ k % 4 # 1 THEN 255 ELSE c
         /\ \A s \in Texts :
              strncpy(Old, s, size)[k] =
                IF k > size THEN Old[k] ELSE IF k <= Len(s) THEN s[k] ELSE 0
<1>1. PICK w \in Nat : w = Len(Old) /\ DOMAIN Old = 1..w
  BY LibraryAssumption
<1>2. k \in 1..w /\ size \in Nat
  BY <1>1 DEF Sizes
<1>3. ASSUME NEW c \in 0..255, NEW s
      PROVE  /\ memcpy(Old, s, 1, size)[k] = IF k > size THEN Old[k] ELSE s[k]
             /\ memset(Old, c, size)[k] =
                  IF k > size THEN Old[k]
                  ELSE IF c \in 128..254 /\ k <= 4 * (size \div 4) /\ k % 4 # 1 THEN 255 ELSE c
  <2>1. w \in Nat /\ DOMAIN Old = 1..w /\ k \in 1..w /\ size \in Nat /\ c \in 0..255
    BY <1>1, <1>2
  <2>2. FilledAt(Old, s, c, size, k)
    BY <2>1, FilledAtAll
  <2> QED
    BY <2>2 DEF FilledAt
<1>4. 0 \in 0..255
  OBVIOUS
<1>5. memcpy(Old, Source, 1, size)[k] = IF k > size THEN Old[k] ELSE Source[k]
  BY <1>3, <1>4
<1>6. ASSUME NEW c \in Bytes
      PROVE  memset(Old, c, size)[k] =
               IF k > size THEN Old[k]
               ELSE IF c \in 128..254 /\ k <= 4 * (size \div 4) /\ k % 4 # 1 THEN 255 ELSE c
  BY <1>3 DEF Bytes
<1>7. ASSUME NEW s \in Texts
      PROVE  strncpy(Old, s, size)[k] =
               IF k > size THEN Old[k] ELSE IF k <= Len(s) THEN s[k] ELSE 0
  <2>1. s \in Seq(1..255)
    BY LibraryAssumption
  <2>2. k \in DOMAIN s <=> k <= Len(s)
    BY <1>2, <2>1
  <2>3. At(s, k) = IF k <= Len(s) THEN s[k] ELSE 0
    BY <2>2 DEF At
  <2>4. strncpy(Old, s, size)[k] = IF k > size THEN Old[k] ELSE At(s, k)
    <3>1. /\ w \in Nat /\ DOMAIN Old = 1..w /\ k \in 1..w /\ size \in Nat
          /\ s \in Seq(Chars)
      BY <1>1, <1>2, <2>1 DEF Chars
    <3> QED
      BY <3>1, StrncpyIs
  <2> QED
    BY <2>3, <2>4
<1> QED
  BY <1>5, <1>6, <1>7

LEMMA CallExact ==
  ASSUME CallMade
  PROVE  CallsExact
<1>1. CASE called = NoCall
  BY <1>1 DEF NoCall, CallsExact, BuffersExact, ComparesPrefixes, PrintsItsNumber, DescriptorExact
<1>2. CASE called \in Copies
  <2>1. PICK size \in Sizes :
             called = [f |-> "memcpy", n |-> size, r |-> memcpy(Old, Source, 1, size)]
    BY <1>2 DEF Copies
  <2>2. called.f = "memcpy" /\ called.n = size /\ called.r = memcpy(Old, Source, 1, size)
    BY <2>1
  <2>3. BuffersExact
    BY <2>2, BufferCalls DEF BuffersExact
  <2> QED
    BY <2>2, <2>3 DEF CallsExact, ComparesPrefixes, PrintsItsNumber, DescriptorExact
<1>3. CASE called \in Fills
  <2>1. PICK c \in Bytes, size \in Sizes :
             called = [f |-> "memset", c |-> c, n |-> size, r |-> memset(Old, c, size)]
    BY <1>3 DEF Fills
  <2>2. called.f = "memset" /\ called.n = size /\ called.c = c /\ called.r = memset(Old, c, size)
    BY <2>1
  <2>3. BuffersExact
    BY <2>2, BufferCalls DEF BuffersExact
  <2> QED
    BY <2>2, <2>3 DEF CallsExact, ComparesPrefixes, PrintsItsNumber, DescriptorExact
<1>4. CASE called \in Strings
  <2>1. PICK s \in Texts, size \in Sizes :
             called = [f |-> "strncpy", s |-> s, n |-> size, r |-> strncpy(Old, s, size)]
    BY <1>4 DEF Strings
  <2>2. called.f = "strncpy" /\ called.n = size /\ called.s = s /\ called.r = strncpy(Old, s, size)
    BY <2>1
  <2>3. BuffersExact
    BY <2>2, BufferCalls DEF BuffersExact
  <2> QED
    BY <2>2, <2>3 DEF CallsExact, ComparesPrefixes, PrintsItsNumber, DescriptorExact
<1>5. CASE called \in Compares
  <2>1. PICK s \in Texts, t \in Texts, size \in Sizes :
             called = [f |-> "strncmp", s |-> s, t |-> t, n |-> size, r |-> strncmp(s, t, size)]
    BY <1>5 DEF Compares
  <2>2. /\ called.f = "strncmp" /\ called.n = size /\ called.s = s /\ called.t = t
        /\ called.r = strncmp(s, t, size)
    BY <2>1
  <2>3. s \in Seq(Chars) /\ t \in Seq(Chars) /\ size \in Nat
    BY LibraryAssumption DEF Chars, Sizes
  <2>4. /\ strncmp(s, t, size) = 0 <=> \A k \in Compared(s, size) : At(s, k) = At(t, k)
        /\ strncmp(s, t, size) < 0 <=>
             \E k \in Compared(s, size) :
               /\ Signed(At(s, k)) < Signed(At(t, k))
               /\ \A j \in 1..(k - 1) : At(s, j) = At(t, j)
    BY <2>3, StrncmpExact
  <2>5. ComparesPrefixes
    BY <2>2, <2>4 DEF ComparesPrefixes, Compared
  <2> QED
    BY <2>2, <2>5 DEF CallsExact, BuffersExact, PrintsItsNumber, DescriptorExact
<1>6. CASE called \in Prints
  <2>1. PICK c \in Numbers : called = [f |-> "itoa", c |-> c, r |-> itoa(c, IntHalf)]
    BY <1>6 DEF Prints
  <2>2. called.f = "itoa" /\ called.c = c /\ called.r = itoa(c, IntHalf)
    BY <2>1
  <2>3. c \in Int
    BY LibraryAssumption
  <2>4. PrintsItsNumber
    BY <2>2, <2>3, ItoaPrints DEF PrintsItsNumber
  <2> QED
    BY <2>2, <2>4 DEF CallsExact, BuffersExact, ComparesPrefixes, DescriptorExact
<1>7. CASE called \in Segments
  <2>1. PICK base \in Bases, limit \in Limits :
             called = [f |-> "gdt", base |-> base, limit |-> limit,
                       r |-> gdt_structure_to_native(base, limit, 0)]
    BY <1>7 DEF Segments
  <2>2. /\ called.f = "gdt" /\ called.base = base /\ called.limit = limit
        /\ called.r = gdt_structure_to_native(base, limit, 0)
    BY <2>1
  <2>3. base \in 0..(Short * Short - 1) /\ limit \in 0..(Short * Short - 1)
    BY LibraryAssumption
  <2>4. DescriptorExact
    BY <2>2, <2>3, DescriptorReadsBack DEF DescriptorExact
  <2> QED
    BY <2>2, <2>4 DEF CallsExact, BuffersExact, ComparesPrefixes, PrintsItsNumber
<1> QED
  BY <1>1, <1>2, <1>3, <1>4, <1>5, <1>6, <1>7 DEF CallMade, Calls

(* The calls leave the parser alone: what is proved of it holds among them. *)
LEMMA ParserAmongCalls == LibrarySpec => Spec
<1>1. LibraryInit => Init
  BY DEF LibraryInit
<1>2. [LibraryNext]_<<vars, called>> => [Next]_vars
  BY DEF LibraryNext
<1> QED
  BY <1>1, <1>2, PTL DEF LibrarySpec, Spec

(* Every call of a function of string.c, and every descriptor of gdt.c, is *)
(* what its reference definition says, for buffers, strings, numbers and   *)
(* segments of every size.                                                 *)
THEOREM CallsAlwaysExact == LibrarySpec => []CallsExact
<1>1. LibraryInit => CallMade
  BY DEF LibraryInit, CallMade
<1>2. CallMade /\ [LibraryNext]_<<vars, called>> => CallMade'
  <2> SUFFICES ASSUME CallMade, [LibraryNext]_<<vars, called>> PROVE CallMade'
    OBVIOUS
  <2>1. called' = called \/ called' \in Calls \/ called' = NoCall
    BY DEF LibraryNext
  <2> QED
    BY <2>1 DEF CallMade
<1>3. CallMade => CallsExact
  BY CallExact
<1> QED
  BY <1>1, <1>2, <1>3, PTL DEF LibrarySpec
-----------------------------------------------------------------------------
(* The circular list. *)

LEMMA ListMinIs ==
  ASSUME NEW S \in SUBSET Nat, S # {}
  PROVE  List!Min(S) \in S /\ \A k \in S : List!Min(S) <= k
<1>1. PICK m \in S : \A k \in S : m <= k
  BY LeastNat
<1> QED
  BY <1>1 DEF List!Min
(* Circles. *)

(* The place after place k of n, around the end. *)
After(k, n) == IF k = n THEN 1 ELSE k + 1

Distinct(s, n) == \A j, k \in 1..n : s[j] = s[k] => j = k

(* The nodes of s are linked to each other in this order, both ways. *)
Circle(nx, pv, s, n) ==
  \A k \in 1..n : nx[s[k]] = s[After(k, n)] /\ pv[s[After(k, n)]] = s[k]

Links == [Nodes -> Nodes]

LEMMA AfterIs ==
  ASSUME NEW n \in Nat, NEW k \in 1..n
  PROVE  /\ After(k, n) \in 1..n
         /\ \E j \in 1..n : After(j, n) = k
         /\ \A j \in 1..n : After(j, n) = After(k, n) => j = k
         /\ n > 1 => After(k, n) # k
         /\ n > 2 => After(After(k, n), n) # k
<1>1. \E j \in 1..n : After(j, n) = k
  <2>1. CASE k = 1
    <3>1. n \in 1..n /\ After(n, n) = k
      BY <2>1 DEF After
    <3> QED
      BY <3>1
  <2>2. CASE k # 1
    <3>1. k - 1 \in 1..n /\ After(k - 1, n) = k
      BY <2>2 DEF After
    <3> QED
      BY <3>1
  <2> QED
    BY <2>1, <2>2
<1> QED
  BY <1>1 DEF After

(* A circle that begins at place j instead. *)
Turned(s, n, j) == [k \in 1..n |-> IF k + j - 1 <= n THEN s[k + j - 1] ELSE s[k + j - 1 - n]]

LEMMA TurnedAt ==
  ASSUME NEW n \in Nat, NEW s, NEW j \in 1..n, NEW k \in 1..n
  PROVE  \E i \in 1..n : /\ Turned(s, n, j)[k] = s[i]
                         /\ i = IF k + j - 1 <= n THEN k + j - 1 ELSE k + j - 1 - n
<1> DEFINE i == IF k + j - 1 <= n THEN k + j - 1 ELSE k + j - 1 - n
<1>1. i \in 1..n
  OBVIOUS
<1>2. Turned(s, n, j)[k] = s[i]
  BY DEF Turned
<1> QED
  BY <1>1, <1>2

(* Every node of s is in t. *)
Covers(t, s, n) == \A i \in 1..n : \E k \in 1..n : t[k] = s[i]

LEMMA TurnedCovers ==
  ASSUME NEW n \in Nat, NEW s, NEW j \in 1..n
  PROVE  Covers(Turned(s, n, j), s, n)
<1> SUFFICES ASSUME NEW i \in 1..n PROVE \E k \in 1..n : Turned(s, n, j)[k] = s[i]
  BY DEF Covers
<1>1. CASE i >= j
  <2>1. i - j + 1 \in 1..n /\ Turned(s, n, j)[i - j + 1] = s[i]
    BY <1>1 DEF Turned
  <2> QED
    BY <2>1
<1>2. CASE i < j
  <2>1. i - j + 1 + n \in 1..n /\ Turned(s, n, j)[i - j + 1 + n] = s[i]
    BY <1>2 DEF Turned
  <2> QED
    BY <2>1
<1> QED
  BY <1>1, <1>2

LEMMA TurnedIs ==
  ASSUME NEW nx, NEW pv, NEW n \in Nat, NEW s \in [1..n -> Nodes], Distinct(s, n),
         Circle(nx, pv, s, n), NEW j \in 1..n
  PROVE  /\ Turned(s, n, j) \in [1..n -> Nodes] /\ Distinct(Turned(s, n, j), n)
         /\ Circle(nx, pv, Turned(s, n, j), n)
         /\ Turned(s, n, j)[1] = s[j]
<1> DEFINE at(k) == IF k + j - 1 <= n THEN k + j - 1 ELSE k + j - 1 - n
           t == Turned(s, n, j)
<1>1. ASSUME NEW k \in 1..n PROVE at(k) \in 1..n /\ t[k] = s[at(k)]
  BY DEF Turned
<1>2. ASSUME NEW k \in 1..n PROVE at(After(k, n)) = After(at(k), n)
  BY DEF After
<1>3. ASSUME NEW k \in 1..n, NEW i \in 1..n, at(k) = at(i) PROVE k = i
  BY <1>3
<1>4. t \in [1..n -> Nodes] /\ t[1] = s[j]
  BY DEF Turned
<1> HIDE DEF at, t
<1>5. Distinct(t, n)
  BY <1>1, <1>3 DEF Distinct
<1>6. Circle(nx, pv, t, n)
  <2> SUFFICES ASSUME NEW k \in 1..n
               PROVE  nx[t[k]] = t[After(k, n)] /\ pv[t[After(k, n)]] = t[k]
    BY DEF Circle
  <2>1. After(k, n) \in 1..n
    BY AfterIs
  <2>2. t[k] = s[at(k)] /\ t[After(k, n)] = s[After(at(k), n)]
    BY <1>1, <1>2, <2>1
  <2>3. nx[s[at(k)]] = s[After(at(k), n)] /\ pv[s[After(at(k), n)]] = s[at(k)]
    BY <1>1 DEF Circle
  <2> QED
    BY <2>2, <2>3
<1> QED
  BY <1>4, <1>5, <1>6 DEF t

(* A node put in at place i. *)
With(s, n, i, x) == [k \in 1..(n + 1) |-> IF k < i THEN s[k] ELSE IF k = i THEN x ELSE s[k - 1]]

IsRing(nx, pv, s, n) ==
  n \in Nat /\ s \in [1..n -> Nodes] /\ Distinct(s, n) /\ Circle(nx, pv, s, n)

LEMMA InsertedIs ==
  ASSUME NEW nx \in Links, NEW pv \in Links, NEW n \in Nat \ {0}, NEW s \in [1..n -> Nodes],
         Distinct(s, n), Circle(nx, pv, s, n),
         NEW i \in 1..(n + 1), NEW x \in Nodes, \A k \in 1..n : s[k] # x,
         NEW p, p = s[IF i > n THEN 1 ELSE i]
  PROVE  IsRing([nx EXCEPT ![x] = p, ![pv[p]] = x], [pv EXCEPT ![x] = pv[p], ![p] = x],
                With(s, n, i, x), n + 1)
<1> DEFINE t == With(s, n, i, x)
           nx1 == [nx EXCEPT ![x] = p, ![pv[p]] = x]
           pv1 == [pv EXCEPT ![x] = pv[p], ![p] = x]
           at == IF i > n THEN 1 ELSE i
           be == IF i = 1 THEN n ELSE i - 1
<1>1. at \in 1..n /\ be \in 1..n /\ After(be, n) = at
  BY DEF After
<1>2. p = s[at] /\ pv[p] = s[be] /\ nx[s[be]] = p
  BY <1>1 DEF Circle
<1>3. t \in [1..(n + 1) -> Nodes]
  BY DEF With
<1>4. Distinct(t, n + 1)
  <2> SUFFICES ASSUME NEW j \in 1..(n + 1), NEW k \in 1..(n + 1), t[j] = t[k] PROVE j = k
    BY DEF Distinct
  <2>1. ASSUME NEW l \in 1..(n + 1)
        PROVE  \/ l = i /\ t[l] = x
               \/ \E a \in 1..n : t[l] = s[a] /\ l = IF a < i THEN a ELSE a + 1
    <3>1. CASE l < i
      <4>1. l \in 1..n /\ t[l] = s[l]
        BY <3>1 DEF With
      <4> QED
        BY <3>1, <4>1
    <3>2. CASE l = i
      BY <3>2 DEF With
    <3>3. CASE l > i
      <4>1. l - 1 \in 1..n /\ ~(l - 1 < i) /\ l = (l - 1) + 1 /\ t[l] = s[l - 1]
        BY <3>3 DEF With
      <4> QED
        BY <4>1
    <3> QED
      BY <3>1, <3>2, <3>3
  <2> HIDE DEF t
  <2>2. \A a, b \in 1..n : s[a] = s[b] => a = b
    BY DEF Distinct
  <2>3. CASE j = i /\ t[j] = x
    BY <2>1, <2>3
  <2>4. CASE k = i /\ t[k] = x
    BY <2>1, <2>4
  <2>5. ASSUME NEW a \in 1..n, t[j] = s[a], j = (IF a < i THEN a ELSE a + 1),
               NEW b \in 1..n, t[k] = s[b], k = (IF b < i THEN b ELSE b + 1)
        PROVE  j = k
    <3>1. a = b
      BY <2>2, <2>5
    <3> QED
      BY <2>5, <3>1
  <2> QED
    BY <2>1, <2>3, <2>4, <2>5
<1>5. /\ \A y \in Nodes : nx1[y] = IF y = pv[p] THEN x ELSE IF y = x THEN p ELSE nx[y]
      /\ \A y \in Nodes : pv1[y] = IF y = p THEN x ELSE IF y = x THEN pv[p] ELSE pv[y]
  BY <1>1, <1>2 DEF Links
<1>6. \A k \in 1..n : s[k] \in Nodes
  OBVIOUS
<1> HIDE DEF nx1, pv1, at, be
<1>7. ASSUME NEW k \in 1..(n + 1)
      PROVE  nx1[t[k]] = t[After(k, n + 1)] /\ pv1[t[After(k, n + 1)]] = t[k]
  <2>0. nx1[s[be]] = x /\ nx1[x] = s[at] /\ pv1[s[at]] = x /\ pv1[x] = s[be]
    BY <1>1, <1>2, <1>5, <1>6
  <2>1. ASSUME NEW j \in 1..n, j # be
        PROVE  nx1[s[j]] = s[After(j, n)] /\ pv1[s[After(j, n)]] = s[j]
    <3>1. s[j] # pv[p] /\ s[j] # x
      BY <1>1, <1>2, <2>1 DEF Distinct
    <3>2. After(j, n) \in 1..n /\ After(j, n) # at
      BY <1>1, <2>1, AfterIs
    <3>3. s[After(j, n)] # p /\ s[After(j, n)] # x
      BY <1>1, <1>2, <3>2 DEF Distinct
    <3> QED
      BY <1>5, <1>6, <3>1, <3>2, <3>3 DEF Circle
  <2> DEFINE m == After(k, n + 1)
  <2>2. m \in 1..(n + 1)
    BY DEF After
  <2>3. t[k] = (IF k < i THEN s[k] ELSE IF k = i THEN x ELSE s[k - 1])
    BY DEF With
  <2>4. t[m] = (IF m < i THEN s[m] ELSE IF m = i THEN x ELSE s[m - 1])
    BY <2>2 DEF With
  <2> HIDE DEF t
  <2>5. CASE k = i
    <3>1. m # i /\ (m < i => m = at) /\ (m > i => m - 1 = at)
      BY <2>5 DEF After, at
    <3>2. t[m] = s[at]
      BY <2>2, <2>4, <3>1
    <3> QED
      BY <2>0, <2>3, <2>5, <3>2
  <2>6. CASE m = i
    <3>1. k # i /\ (k < i => k = be) /\ (k > i => k - 1 = be)
      BY <2>6 DEF After, be
    <3>2. t[k] = s[be]
      BY <2>3, <3>1
    <3> QED
      BY <2>0, <2>4, <2>6, <3>2
  <2>7. CASE k # i /\ m # i
    <3> DEFINE j == IF k < i THEN k ELSE k - 1
               l == IF m < i THEN m ELSE m - 1
    <3>1. j \in 1..n /\ j # be /\ l = After(j, n) /\ l \in 1..n
      BY <2>7 DEF After, be
    <3>2. t[k] = s[j] /\ t[m] = s[l]
      BY <2>2, <2>3, <2>4, <2>7
    <3> HIDE DEF j, l
    <3> QED
      BY <2>1, <3>1, <3>2
  <2> QED
    BY <2>5, <2>6, <2>7
<1> HIDE DEF t
<1>8. Circle(nx1, pv1, t, n + 1)
  BY <1>7 DEF Circle
<1> QED
  BY <1>3, <1>4, <1>8 DEF IsRing, t, nx1, pv1

(* Without the node at place i. *)
Without(s, n, i) == [k \in 1..(n - 1) |-> IF k < i THEN s[k] ELSE s[k + 1]]

LEMMA RemovedIs ==
  ASSUME NEW nx \in Links, NEW pv \in Links, NEW n \in Nat, n > 1, NEW s \in [1..n -> Nodes],
         Distinct(s, n), Circle(nx, pv, s, n), NEW i \in 1..n, NEW p, p = s[i]
  PROVE  IsRing([nx EXCEPT ![pv[p]] = nx[p], ![p] = p], [pv EXCEPT ![nx[p]] = pv[p], ![p] = p],
                Without(s, n, i), n - 1)
<1> DEFINE t == Without(s, n, i)
           nx1 == [nx EXCEPT ![pv[p]] = nx[p], ![p] = p]
           pv1 == [pv EXCEPT ![nx[p]] = pv[p], ![p] = p]
           af == After(i, n)
           be == IF i = 1 THEN n ELSE i - 1
           at(k) == IF k < i THEN k ELSE k + 1
<1>1. af \in 1..n /\ be \in 1..n /\ After(be, n) = i /\ af # i /\ be # i
  BY DEF After
<1>2. pv[p] = s[be] /\ nx[p] = s[af]
  BY <1>1 DEF Circle
<1>3. ASSUME NEW k \in 1..(n - 1) PROVE at(k) \in 1..n /\ at(k) # i /\ t[k] = s[at(k)]
  BY DEF Without
<1>4. t \in [1..(n - 1) -> Nodes]
  BY DEF Without
<1>6. ASSUME NEW j \in 1..(n - 1), NEW k \in 1..(n - 1), at(j) = at(k) PROVE j = k
  BY <1>6
<1>7. ASSUME NEW k \in 1..(n - 1)
      PROVE  at(After(k, n - 1)) = IF at(k) = be THEN af ELSE After(at(k), n)
  BY DEF After
<1>8. /\ \A y \in Nodes : nx1[y] = IF y = p THEN p ELSE IF y = pv[p] THEN nx[p] ELSE nx[y]
      /\ \A y \in Nodes : pv1[y] = IF y = p THEN p ELSE IF y = nx[p] THEN pv[p] ELSE pv[y]
  BY <1>1, <1>2 DEF Links
<1>9. \A a, b \in 1..n : s[a] = s[b] => a = b
  BY DEF Distinct
<1> HIDE DEF at, t, nx1, pv1, af, be
<1>10. Distinct(t, n - 1)
  <2> SUFFICES ASSUME NEW j \in 1..(n - 1), NEW k \in 1..(n - 1), t[j] = t[k] PROVE j = k
    BY DEF Distinct
  <2>1. at(j) = at(k)
    BY <1>3, <1>9
  <2> QED
    BY <1>6, <2>1
<1>11. Circle(nx1, pv1, t, n - 1)
  <2> SUFFICES ASSUME NEW k \in 1..(n - 1)
               PROVE  nx1[t[k]] = t[After(k, n - 1)] /\ pv1[t[After(k, n - 1)]] = t[k]
    BY DEF Circle
  <2>1. After(k, n - 1) \in 1..(n - 1)
    BY DEF After
  <2>2. PICK j \in 1..n : j = at(k) /\ j # i /\ t[k] = s[j]
    BY <1>3
  <2>3. PICK l \in 1..n : l = at(After(k, n - 1)) /\ l # i /\ t[After(k, n - 1)] = s[l]
    BY <1>3, <2>1
  <2>4. l = IF j = be THEN af ELSE After(j, n)
    BY <1>7, <2>2, <2>3
  <2>5. s[j] # p /\ s[l] # p
    BY <1>9, <2>2, <2>3
  <2>6. CASE j = be
    <3>1. l = af
      BY <2>4, <2>6
    <3>2. nx1[s[be]] = s[af] /\ pv1[s[af]] = s[be]
      BY <1>1, <1>2, <1>8, <2>5, <2>6, <3>1
    <3> QED
      BY <2>2, <2>3, <2>6, <3>1, <3>2
  <2>7. CASE j # be
    <3>1. l = After(j, n)
      BY <2>4, <2>7
    <3>2. nx[s[j]] = s[l] /\ pv[s[l]] = s[j]
      BY <3>1 DEF Circle
    <3>3. s[j] # pv[p]
      BY <1>1, <1>2, <1>9, <2>7
    <3>4. l # af
      BY <2>2, <3>1, AfterIs DEF af
    <3>5. s[l] # nx[p]
      BY <1>1, <1>2, <1>9, <3>4
    <3>6. s[j] \in Nodes /\ s[l] \in Nodes
      OBVIOUS
    <3>7. nx1[s[j]] = s[l] /\ pv1[s[l]] = s[j]
      BY <1>8, <2>5, <3>2, <3>3, <3>5, <3>6
    <3> QED
      BY <2>2, <2>3, <3>7
  <2> QED
    BY <2>6, <2>7
<1>12. n - 1 \in Nat
  OBVIOUS
<1> QED
  BY <1>4, <1>10, <1>11, <1>12 DEF IsRing, t, nx1, pv1

(* With the nodes at places i and j exchanged. *)
Exchange(s, i, j) == [s EXCEPT ![i] = s[j], ![j] = s[i]]

LEMMA ExchangeAt ==
  ASSUME NEW n \in Nat, NEW s \in [1..n -> Nodes], NEW i \in 1..n, NEW j \in 1..n, NEW k \in 1..n
  PROVE  Exchange(s, i, j)[k] = IF k = i THEN s[j] ELSE IF k = j THEN s[i] ELSE s[k]
  BY DEF Exchange

LEMMA ExchangeNone ==
  ASSUME NEW n \in Nat, NEW s \in [1..n -> Nodes], NEW i \in 1..n
  PROVE  Exchange(s, i, i) = s
  BY DEF Exchange

LEMMA ExchangeCovers ==
  ASSUME NEW n \in Nat, NEW s \in [1..n -> Nodes], NEW i \in 1..n, NEW j \in 1..n
  PROVE  Covers(Exchange(s, i, j), s, n)
<1> SUFFICES ASSUME NEW l \in 1..n PROVE \E k \in 1..n : Exchange(s, i, j)[k] = s[l]
  BY DEF Covers
<1> DEFINE t == Exchange(s, i, j)
<1>0. \A k \in 1..n : t[k] = IF k = i THEN s[j] ELSE IF k = j THEN s[i] ELSE s[k]
  BY ExchangeAt
<1> HIDE DEF t
<1>1. CASE l = i
  <2>1. t[j] = s[l]
    BY <1>0, <1>1
  <2> QED
    BY <2>1 DEF t
<1>2. CASE l = j
  <2>1. t[i] = s[l]
    BY <1>0, <1>2
  <2> QED
    BY <2>1 DEF t
<1>3. CASE l # i /\ l # j
  <2>1. t[l] = s[l]
    BY <1>0, <1>3
  <2> QED
    BY <2>1 DEF t
<1> QED
  BY <1>1, <1>2, <1>3

LEMMA ExchangeIs ==
  ASSUME NEW n \in Nat, NEW s \in [1..n -> Nodes], Distinct(s, n), NEW i \in 1..n, NEW j \in 1..n
  PROVE  Exchange(s, i, j) \in [1..n -> Nodes] /\ Distinct(Exchange(s, i, j), n)
<1> DEFINE t == Exchange(s, i, j)
<1>1. t \in [1..n -> Nodes]
  BY DEF Exchange
<1>2. \A k \in 1..n : t[k] = IF k = i THEN s[j] ELSE IF k = j THEN s[i] ELSE s[k]
  BY ExchangeAt
<1> HIDE DEF t
<1>3. \A a, b \in 1..n : s[a] = s[b] => a = b
  BY DEF Distinct
<1>4. Distinct(t, n)
  BY <1>2, <1>3 DEF Distinct
<1> QED
  BY <1>1, <1>4 DEF t

(* What swap stores when the second node follows the first. *)
Neighbours(a, b, p, q) ==
  /\ next' \in Links /\ prev' \in Links
  /\ \A y \in Nodes : next'[y] = IF y = a THEN q ELSE IF y = b THEN a
                                 ELSE IF y = p THEN b ELSE next[y]
  /\ \A y \in Nodes : prev'[y] = IF y = b THEN p ELSE IF y = a THEN b
                                 ELSE IF y = q THEN a ELSE prev[y]

LEMMA SwapNeighbours ==
  ASSUME next \in Links, prev \in Links, NEW a \in Nodes, NEW b \in Nodes, NEW p, NEW q,
         p = prev[a], q = next[b], a # b, next[a] = b, p # a, p # b, q # a,
         List!Swapped(a, b)
  PROVE  Neighbours(a, b, p, q)
<1> DEFINE nx == [next EXCEPT ![p] = b]
           pv == [prev EXCEPT ![q] = a]
<1>1. p \in Nodes /\ q \in Nodes
  BY DEF Links
<1>2. nx \in Links /\ pv \in Links
  BY DEF Links
<1>3. /\ \A y \in Nodes : nx[y] = IF y = p THEN b ELSE next[y]
      /\ \A y \in Nodes : pv[y] = IF y = q THEN a ELSE prev[y]
  BY DEF Links
<1> HIDE DEF nx, pv
<1>4. nx[a] = b
  BY <1>3
<1>5. /\ next' = [[nx EXCEPT ![b] = a] EXCEPT ![a] = q]
      /\ prev' = [[pv EXCEPT ![a] = b] EXCEPT ![b] = p]
  BY <1>4 DEF List!Swapped, nx, pv
<1>6. next' \in Links /\ prev' \in Links
  BY <1>1, <1>2, <1>5 DEF Links
<1>7. /\ \A y \in Nodes : next'[y] = IF y = a THEN q ELSE IF y = b THEN a ELSE nx[y]
      /\ \A y \in Nodes : prev'[y] = IF y = b THEN p ELSE IF y = a THEN b ELSE pv[y]
  BY <1>2, <1>5 DEF Links
<1>8. /\ \A y \in Nodes : next'[y] = IF y = a THEN q ELSE IF y = b THEN a
                                     ELSE IF y = p THEN b ELSE next[y]
      /\ \A y \in Nodes : prev'[y] = IF y = b THEN p ELSE IF y = a THEN b
                                     ELSE IF y = q THEN a ELSE prev[y]
  BY <1>3, <1>7
<1> QED
  BY <1>6, <1>8 DEF Neighbours

(* And when neither is next to the other. *)
Strangers(a, b, p, q, c, d) ==
  /\ next' \in Links /\ prev' \in Links
  /\ \A y \in Nodes : next'[y] = IF y = a THEN q ELSE IF y = b THEN c
                                 ELSE IF y = d THEN a ELSE IF y = p THEN b ELSE next[y]
  /\ \A y \in Nodes : prev'[y] = IF y = b THEN p ELSE IF y = a THEN d
                                 ELSE IF y = c THEN b ELSE IF y = q THEN a ELSE prev[y]

LEMMA SwapApart ==
  ASSUME next \in Links, prev \in Links, NEW a \in Nodes, NEW b \in Nodes,
         NEW p, NEW q, NEW c, NEW d, p = prev[a], q = next[b], c = next[a], d = prev[b],
         a # b, p # a, p # b, c # a, c # b, d # a, d # b, q # a, q # b,
         List!Swapped(a, b)
  PROVE  Strangers(a, b, p, q, c, d)
<1> DEFINE nx == [next EXCEPT ![p] = b]
           pv == [prev EXCEPT ![q] = a]
           pv1 == [pv EXCEPT ![nx[a]] = b]
           nx1 == [nx EXCEPT ![pv1[b]] = a]
<1>1. p \in Nodes /\ q \in Nodes /\ c \in Nodes /\ d \in Nodes
  BY DEF Links
<1>2. nx \in Links /\ pv \in Links
  BY DEF Links
<1>3. /\ \A y \in Nodes : nx[y] = IF y = p THEN b ELSE next[y]
      /\ \A y \in Nodes : pv[y] = IF y = q THEN a ELSE prev[y]
  BY DEF Links
<1>4. nx[a] = c /\ pv[a] = p
  BY <1>3
<1> HIDE DEF nx, pv
<1>5. /\ next' = [[nx1 EXCEPT ![b] = nx1[a]] EXCEPT ![a] = q]
      /\ prev' = [[pv1 EXCEPT ![a] = pv1[b]] EXCEPT ![b] = p]
  BY <1>4 DEF List!Swapped, nx, pv
<1>6. pv1 \in Links /\ \A y \in Nodes : pv1[y] = IF y = c THEN b ELSE pv[y]
  BY <1>1, <1>2, <1>4 DEF Links
<1>7. pv1[b] = d
  BY <1>3, <1>6
<1> HIDE DEF pv1
<1>8. nx1 \in Links /\ \A y \in Nodes : nx1[y] = IF y = d THEN a ELSE nx[y]
  BY <1>1, <1>2, <1>7 DEF Links
<1>9. nx1[a] = c
  BY <1>4, <1>8
<1> HIDE DEF nx1
<1>10. next' \in Links /\ prev' \in Links
  BY <1>1, <1>5, <1>6, <1>7, <1>8, <1>9 DEF Links
<1>11. /\ \A y \in Nodes : next'[y] = IF y = a THEN q ELSE IF y = b THEN c ELSE nx1[y]
       /\ \A y \in Nodes : prev'[y] = IF y = b THEN p ELSE IF y = a THEN d ELSE pv1[y]
  BY <1>5, <1>6, <1>7, <1>8, <1>9 DEF Links
<1>12. /\ \A y \in Nodes : next'[y] = IF y = a THEN q ELSE IF y = b THEN c
                                      ELSE IF y = d THEN a ELSE IF y = p THEN b ELSE next[y]
       /\ \A y \in Nodes : prev'[y] = IF y = b THEN p ELSE IF y = a THEN d
                                      ELSE IF y = c THEN b ELSE IF y = q THEN a ELSE prev[y]
  BY <1>3, <1>6, <1>8, <1>11
<1> QED
  BY <1>10, <1>12 DEF Strangers

(* And with one node for both. *)
LEMMA SwapOne ==
  ASSUME next \in Links, prev \in Links, NEW a \in Nodes,
         next[prev[a]] = a, prev[next[a]] = a, prev[a] = a <=> next[a] = a,
         List!Swapped(a, a)
  PROVE  next' = next /\ prev' = prev
<1> DEFINE p == prev[a]
           q == next[a]
           nx == [next EXCEPT ![p] = a]
           pv == [prev EXCEPT ![q] = a]
<1>1. p \in Nodes /\ q \in Nodes
  BY DEF Links
<1>2. nx = next /\ pv = prev
  BY <1>1 DEF Links
<1>3. CASE q = a
  <2>1. /\ next' = [[nx EXCEPT ![a] = a] EXCEPT ![a] = q]
        /\ prev' = [[pv EXCEPT ![a] = a] EXCEPT ![a] = p]
    BY <1>2, <1>3 DEF List!Swapped
  <2> QED
    BY <1>2, <1>3, <2>1 DEF Links
<1>4. CASE q # a
  <2> DEFINE pv1 == [pv EXCEPT ![nx[a]] = a]
             nx1 == [nx EXCEPT ![pv1[a]] = a]
  <2>1. /\ next' = [[nx1 EXCEPT ![a] = nx1[a]] EXCEPT ![a] = q]
        /\ prev' = [[pv1 EXCEPT ![a] = pv1[a]] EXCEPT ![a] = p]
    BY <1>2, <1>4 DEF List!Swapped
  <2>2. pv1 = prev
    BY <1>1, <1>2 DEF Links
  <2> HIDE DEF pv1
  <2>3. nx1 = next
    BY <1>1, <1>2, <2>2 DEF Links
  <2> HIDE DEF nx1
  <2> QED
    BY <2>1, <2>2, <2>3 DEF Links
<1> QED
  BY <1>3, <1>4

(* What swap stores in a list when the second node comes right before the  *)
(* first: each is linked to itself on one side.                            *)
LEMMA SwapBackwards ==
  ASSUME next \in Links, prev \in Links, NEW a \in Nodes, NEW b \in Nodes, NEW c, NEW d,
         a # b, prev[a] = b, next[b] = a, c = next[a], d = prev[b],
         c # a, d # b, c = b <=> d = a,
         List!Swapped(a, b)
  PROVE  /\ next' \in Links /\ prev' \in Links /\ prev'[a] # a
         /\ c = b => \A y \in Nodes : next'[y] = IF y = a \/ y = b THEN a ELSE next[y]
         /\ c # b => \A y \in Nodes : next'[y] = IF y = a \/ y = d THEN a
                                                 ELSE IF y = b THEN c ELSE next[y]
<1> DEFINE nx == [next EXCEPT ![b] = b]
           pv == [prev EXCEPT ![a] = a]
<1>1. c \in Nodes /\ d \in Nodes
  BY DEF Links
<1>2. nx \in Links /\ pv \in Links
  BY DEF Links
<1>3. /\ \A y \in Nodes : nx[y] = IF y = b THEN b ELSE next[y]
      /\ \A y \in Nodes : pv[y] = IF y = a THEN a ELSE prev[y]
  BY DEF Links
<1> HIDE DEF nx, pv
<1>4. nx[a] = c /\ pv[a] = a /\ pv[b] = d
  BY <1>3
<1>5. CASE c = b
  <2>1. /\ next' = [[nx EXCEPT ![b] = a] EXCEPT ![a] = a]
        /\ prev' = [[pv EXCEPT ![a] = b] EXCEPT ![b] = b]
    BY <1>4, <1>5 DEF List!Swapped, nx, pv
  <2>2. next' \in Links /\ prev' \in Links
    BY <1>2, <2>1 DEF Links
  <2>3. prev'[a] = b
    BY <1>2, <2>1 DEF Links
  <2>4. \A y \in Nodes : next'[y] = IF y = a THEN a ELSE IF y = b THEN a ELSE nx[y]
    BY <1>2, <2>1 DEF Links
  <2> QED
    BY <1>3, <1>5, <2>2, <2>3, <2>4
<1>6. CASE c # b
  <2> DEFINE pv1 == [pv EXCEPT ![c] = b]
             nx1 == [nx EXCEPT ![d] = a]
  <2>1. pv1 \in Links /\ \A y \in Nodes : pv1[y] = IF y = c THEN b ELSE pv[y]
    BY <1>1, <1>2 DEF Links
  <2>2. pv1[b] = d
    BY <1>4, <1>6, <2>1
  <2>3. nx1 \in Links /\ \A y \in Nodes : nx1[y] = IF y = d THEN a ELSE nx[y]
    BY <1>1, <1>2 DEF Links
  <2>4. nx1[a] = c
    BY <1>4, <1>6, <2>3
  <2>5. /\ next' = [[nx1 EXCEPT ![b] = nx1[a]] EXCEPT ![a] = a]
        /\ prev' = [[pv1 EXCEPT ![a] = pv1[b]] EXCEPT ![b] = b]
    BY <1>4, <1>6, <2>2 DEF List!Swapped, nx, pv
  <2> HIDE DEF pv1, nx1
  <2>6. next' \in Links /\ prev' \in Links
    BY <1>1, <2>1, <2>2, <2>3, <2>4, <2>5 DEF Links
  <2>7. prev'[a] = d
    BY <2>1, <2>2, <2>5 DEF Links
  <2>8. \A y \in Nodes : next'[y] = IF y = a THEN a ELSE IF y = b THEN c ELSE nx1[y]
    BY <2>3, <2>4, <2>5 DEF Links
  <2> QED
    BY <1>3, <1>6, <2>3, <2>6, <2>7, <2>8
<1> QED
  BY <1>5, <1>6

(* Exchanged nodes are linked as the circle with exchanged places. *)
LEMMA SwapKeepsCircle ==
  ASSUME next \in Links, prev \in Links, NEW n \in Nat, NEW s \in [1..n -> Nodes],
         Distinct(s, n), Circle(next, prev, s, n), NEW i \in 1..n, NEW j \in 1..n,
         i # j => After(j, n) # i, List!Swapped(s[i], s[j])
  PROVE  next' \in Links /\ prev' \in Links /\ Circle(next', prev', Exchange(s, i, j), n)
<1> DEFINE t == Exchange(s, i, j)
<1>1. /\ \A k \in 1..n : t[k] = IF k = i THEN s[j] ELSE IF k = j THEN s[i] ELSE s[k]
      /\ i = j => t = s
  <2>1. \A k \in 1..n : t[k] = IF k = i THEN s[j] ELSE IF k = j THEN s[i] ELSE s[k]
    BY ExchangeAt
  <2>2. i = j => t = s
    BY ExchangeNone
  <2> QED
    BY <2>1, <2>2
<1> HIDE DEF t
<1>2. \A x, y \in 1..n : s[x] = s[y] => x = y
  BY DEF Distinct
<1>3. \A k \in 1..n : s[k] \in Nodes /\ After(k, n) \in 1..n
  BY AfterIs
<1>4. \A x, y \in 1..n : After(x, n) = After(y, n) => x = y
  BY AfterIs
<1>5. \A k \in 1..n : next[s[k]] = s[After(k, n)] /\ prev[s[After(k, n)]] = s[k]
  BY DEF Circle
<1>6. PICK h \in 1..n : After(h, n) = i
  BY AfterIs
<1>7. PICK g \in 1..n : After(g, n) = j
  BY AfterIs
<1>8. PICK p \in Nodes : p = s[h] /\ p = prev[s[i]]
  BY <1>3, <1>5, <1>6
<1>9. PICK q \in Nodes : q = s[After(j, n)] /\ q = next[s[j]]
  BY <1>3, <1>5
<1>10. PICK c \in Nodes : c = s[After(i, n)] /\ c = next[s[i]]
  BY <1>3, <1>5
<1>11. PICK d \in Nodes : d = s[g] /\ d = prev[s[j]]
  BY <1>3, <1>5, <1>7
<1>12. CASE i = j
  <2>1. prev[s[i]] = s[i] <=> next[s[i]] = s[i]
    <3>1. prev[s[i]] = s[i] => h = i
      BY <1>2, <1>8
    <3>2. next[s[i]] = s[i] => After(i, n) = i
      BY <1>2, <1>3, <1>10
    <3>3. After(i, n) = i => prev[s[i]] = s[i]
      BY <1>5
    <3>4. h = i => next[s[i]] = s[i]
      BY <1>5, <1>6
    <3> QED
      BY <3>1, <3>2, <3>3, <3>4
  <2>2. next[prev[s[i]]] = s[i] /\ prev[next[s[i]]] = s[i]
    BY <1>5, <1>6, <1>8, <1>10
  <2>3. next' = next /\ prev' = prev
    BY <1>3, <1>12, <2>1, <2>2, SwapOne, SMTT(60)
  <2> QED
    BY <1>1, <1>12, <2>3 DEF t
<1>13. CASE i # j /\ After(i, n) = j
  <2>1. After(j, n) # i /\ After(j, n) # j /\ h # i /\ h # j
    <3>1. n > 1
      BY <1>13
    <3>2. After(j, n) # i
      BY <1>13
    <3> QED
      BY <1>6, <3>1, <3>2, AfterIs
  <2>2. /\ s[i] # s[j] /\ next[s[i]] = s[j]
        /\ p # s[i] /\ p # s[j] /\ q # s[i] /\ q # s[j]
    <3>1. s[i] # s[j] /\ p # s[i] /\ p # s[j]
      BY <1>2, <1>8, <1>13, <2>1
    <3>2. q # s[i] /\ q # s[j]
      BY <1>2, <1>3, <1>9, <2>1
    <3>3. next[s[i]] = s[j]
      BY <1>5, <1>13
    <3> QED
      BY <3>1, <3>2, <3>3
  <2>3. /\ next' \in Links /\ prev' \in Links
        /\ \A y \in Nodes : next'[y] = IF y = s[i] THEN q ELSE IF y = s[j] THEN s[i]
                                       ELSE IF y = p THEN s[j] ELSE next[y]
        /\ \A y \in Nodes : prev'[y] = IF y = s[j] THEN p ELSE IF y = s[i] THEN s[j]
                                       ELSE IF y = q THEN s[i] ELSE prev[y]
    <3>1. Neighbours(s[i], s[j], p, q)
      BY <1>3, <1>8, <1>9, <2>2, SwapNeighbours
    <3> QED
      BY <3>1 DEF Neighbours
  <2>4. ASSUME NEW k \in 1..n
        PROVE  next'[t[k]] = t[After(k, n)] /\ prev'[t[After(k, n)]] = t[k]
    <3>1. CASE k = i
      <4>1. t[k] = s[j] /\ t[After(k, n)] = s[i]
        BY <1>1, <1>13, <3>1
      <4> QED
        BY <1>3, <2>2, <2>3, <4>1
    <3>2. CASE k = j
      <4>1. t[k] = s[i] /\ t[After(k, n)] = q
        BY <1>1, <1>3, <1>9, <1>13, <2>1, <3>2
      <4> QED
        BY <1>3, <2>2, <2>3, <4>1
    <3>3. CASE k = h
      <4>1. t[k] = p /\ t[After(k, n)] = s[j]
        BY <1>1, <1>6, <1>8, <2>1, <3>3
      <4> QED
        BY <1>3, <2>2, <2>3, <4>1
    <3>4. CASE k # i /\ k # j /\ k # h
      <4>1. After(k, n) # i /\ After(k, n) # j /\ After(k, n) # After(j, n)
        BY <1>4, <1>6, <1>13, <3>4
      <4>2. t[k] = s[k] /\ t[After(k, n)] = s[After(k, n)]
        BY <1>1, <1>3, <3>4, <4>1
      <4>3. s[k] # s[i] /\ s[k] # s[j] /\ s[k] # p
        BY <1>2, <1>8, <3>4
      <4>4. s[After(k, n)] # s[i] /\ s[After(k, n)] # s[j] /\ s[After(k, n)] # q
        BY <1>2, <1>3, <1>9, <4>1
      <4>5. next'[s[k]] = next[s[k]] /\ prev'[s[After(k, n)]] = prev[s[After(k, n)]]
        BY <1>3, <2>3, <4>3, <4>4
      <4> QED
        BY <1>5, <4>2, <4>5
    <3> QED
      BY <3>1, <3>2, <3>3, <3>4
  <2> QED
    BY <2>3, <2>4 DEF Circle, t
<1>14. CASE i # j /\ After(i, n) # j
  <2>1. /\ After(j, n) # i /\ After(j, n) # j /\ After(i, n) # i
        /\ h # i /\ h # j /\ g # i /\ g # j /\ h # g
    <3>1. n > 1
      BY <1>14
    <3>2. After(j, n) # i
      BY <1>14
    <3>3. After(j, n) # j /\ After(i, n) # i
      BY <3>1, AfterIs
    <3> QED
      BY <1>6, <1>7, <1>14, <3>2, <3>3
  <2>2. /\ s[i] # s[j] /\ p # s[i] /\ p # s[j] /\ q # s[i] /\ q # s[j] /\ p # d
        /\ c # s[i] /\ c # s[j] /\ d # s[i] /\ d # s[j] /\ c # q
    <3>1. After(i, n) # After(j, n)
      BY <1>4, <1>14
    <3>2. p # s[i] /\ p # s[j] /\ d # s[i] /\ d # s[j] /\ p # d /\ s[i] # s[j]
      BY <1>2, <1>8, <1>11, <1>14, <2>1
    <3>3. q # s[i] /\ q # s[j] /\ c # s[i] /\ c # s[j] /\ c # q
      BY <1>2, <1>3, <1>9, <1>10, <1>14, <2>1, <3>1
    <3> QED
      BY <3>2, <3>3
  <2>3. /\ next' \in Links /\ prev' \in Links
        /\ \A y \in Nodes : next'[y] = IF y = s[i] THEN q ELSE IF y = s[j] THEN c
                                       ELSE IF y = d THEN s[i] ELSE IF y = p THEN s[j] ELSE next[y]
        /\ \A y \in Nodes : prev'[y] = IF y = s[j] THEN p ELSE IF y = s[i] THEN d
                                       ELSE IF y = c THEN s[j] ELSE IF y = q THEN s[i] ELSE prev[y]
    <3>1. Strangers(s[i], s[j], p, q, c, d)
      BY <1>3, <1>8, <1>9, <1>10, <1>11, <2>2, SwapApart
    <3> QED
      BY <3>1 DEF Strangers
  <2>4. ASSUME NEW k \in 1..n
        PROVE  next'[t[k]] = t[After(k, n)] /\ prev'[t[After(k, n)]] = t[k]
    <3>1. CASE k = i
      <4>1. t[k] = s[j] /\ t[After(k, n)] = c
        BY <1>1, <1>3, <1>10, <1>14, <2>1, <3>1
      <4> QED
        BY <1>3, <2>2, <2>3, <4>1
    <3>2. CASE k = j
      <4>1. t[k] = s[i] /\ t[After(k, n)] = q
        BY <1>1, <1>3, <1>9, <1>14, <2>1, <3>2
      <4> QED
        BY <1>3, <2>2, <2>3, <4>1
    <3>3. CASE k = h
      <4>1. t[k] = p /\ t[After(k, n)] = s[j]
        BY <1>1, <1>6, <1>8, <2>1, <3>3
      <4> QED
        BY <1>3, <2>2, <2>3, <4>1
    <3>4. CASE k = g
      <4>1. t[k] = d /\ t[After(k, n)] = s[i]
        BY <1>1, <1>7, <1>11, <1>14, <2>1, <3>4
      <4> QED
        BY <1>3, <2>2, <2>3, <4>1
    <3>5. CASE k # i /\ k # j /\ k # h /\ k # g
      <4>1. /\ After(k, n) # i /\ After(k, n) # j
            /\ After(k, n) # After(j, n) /\ After(k, n) # After(i, n)
        BY <1>4, <1>6, <1>7, <3>5
      <4>2. t[k] = s[k] /\ t[After(k, n)] = s[After(k, n)]
        BY <1>1, <1>3, <3>5, <4>1
      <4>3. s[k] # s[i] /\ s[k] # s[j] /\ s[k] # p /\ s[k] # d
        BY <1>2, <1>8, <1>11, <3>5
      <4>4. /\ s[After(k, n)] # s[i] /\ s[After(k, n)] # s[j]
            /\ s[After(k, n)] # q /\ s[After(k, n)] # c
        BY <1>2, <1>3, <1>9, <1>10, <4>1
      <4>5. next'[s[k]] = next[s[k]] /\ prev'[s[After(k, n)]] = prev[s[After(k, n)]]
        BY <1>3, <2>3, <4>3, <4>4
      <4> QED
        BY <1>5, <4>2, <4>5
    <3> QED
      BY <3>1, <3>2, <3>3, <3>4, <3>5
  <2> QED
    BY <2>3, <2>4 DEF Circle, t
<1> QED
  BY <1>12, <1>13, <1>14

(* A walk that runs into its last node and stays there. *)
Dead(nx, u, n) == \A k \in 1..n : nx[u[k]] = u[IF k = n THEN n ELSE k + 1]

(* swap on a node and the one right before it takes the circle apart. *)
LEMMA SwapTears ==
  ASSUME next \in Links, prev \in Links, NEW n \in Nat, NEW s \in [1..n -> Nodes],
         Distinct(s, n), Circle(next, prev, s, n), NEW i \in 1..n, NEW j \in 1..n,
         i # j, After(j, n) = i, List!Swapped(s[i], s[j])
  PROVE  /\ next' \in Links /\ prev' \in Links
         /\ \E u \in [1..n -> Nodes] :
              /\ Distinct(u, n) /\ Dead(next', u, n) /\ prev'[u[n]] # u[n]
              /\ \A k \in 1..n : \E l \in 1..n : u[l] = s[k]
<1> DEFINE r == Turned(s, n, i)
           u == Exchange(r, 1, n)
<1>1. /\ r \in [1..n -> Nodes] /\ Distinct(r, n) /\ Circle(next, prev, r, n)
      /\ r[1] = s[i] /\ Covers(r, s, n)
  <2>1. r \in [1..n -> Nodes] /\ Distinct(r, n) /\ Circle(next, prev, r, n) /\ r[1] = s[i]
    BY TurnedIs
  <2>2. Covers(r, s, n)
    BY TurnedCovers
  <2> QED
    BY <2>1, <2>2
<1>2. n > 1 /\ 1 \in 1..n /\ n \in 1..n
  OBVIOUS
<1> HIDE DEF r
<1>3. /\ u \in [1..n -> Nodes] /\ Distinct(u, n)
      /\ \A k \in 1..n : u[k] = IF k = 1 THEN r[n] ELSE IF k = n THEN r[1] ELSE r[k]
      /\ Covers(u, r, n)
  <2>1. r \in [1..n -> Nodes] /\ Distinct(r, n)
    BY <1>1
  <2>2. u \in [1..n -> Nodes] /\ Distinct(u, n)
    BY <1>2, <2>1, ExchangeIs
  <2>3. \A k \in 1..n : u[k] = IF k = 1 THEN r[n] ELSE IF k = n THEN r[1] ELSE r[k]
    BY <1>2, <2>1, ExchangeAt
  <2>4. Covers(u, r, n)
    BY <1>2, <2>1, ExchangeCovers
  <2> QED
    BY <2>2, <2>3, <2>4
<1> HIDE DEF u
<1>30. u[1] = r[n] /\ u[n] = r[1] /\ \A k \in 2..(n - 1) : u[k] = r[k]
  <2>1. \A k \in 1..n : u[k] = IF k = 1 THEN r[n] ELSE IF k = n THEN r[1] ELSE r[k]
    BY <1>3
  <2> QED
    BY <1>2, <2>1
<1>4. \A k \in 1..n : next[r[k]] = r[After(k, n)] /\ prev[r[After(k, n)]] = r[k]
  BY <1>1 DEF Circle
<1>5. \A x, y \in 1..n : r[x] = r[y] => x = y
  BY <1>1 DEF Distinct
<1>6. prev[r[1]] = r[n] /\ next[r[n]] = r[1]
  BY <1>2, <1>4 DEF After
<1>7. s[j] = r[n]
  <2>1. prev[s[i]] = s[j]
    BY DEF Circle
  <2> QED
    BY <1>1, <1>6, <2>1
<1>8. /\ next[r[1]] = r[2] /\ prev[r[n]] = r[n - 1]
      /\ \A k \in 2..(n - 2) : next[r[k]] = r[k + 1]
  <2>1. After(1, n) = 2 /\ After(n - 1, n) = n /\ n - 1 \in 1..n
    BY <1>2 DEF After
  <2>2. \A k \in 2..(n - 2) : After(k, n) = k + 1
    BY DEF After
  <2> QED
    BY <1>2, <1>4, <2>1, <2>2
<1>9. \A k \in 1..n : r[k] \in Nodes
  BY <1>1
<1>10. /\ r[1] # r[n] /\ r[2] # r[1] /\ r[n - 1] # r[n]
       /\ r[2] = r[n] <=> n = 2
       /\ r[n - 1] = r[1] <=> n = 2
  BY <1>2, <1>5
<1>11. List!Swapped(r[1], r[n])
  BY <1>1, <1>7
<1>12. /\ next' \in Links /\ prev' \in Links /\ prev'[r[1]] # r[1]
       /\ n = 2 => \A y \in Nodes : next'[y] = IF y = r[1] \/ y = r[n] THEN r[1] ELSE next[y]
       /\ n # 2 => \A y \in Nodes : next'[y] = IF y = r[1] \/ y = r[n - 1] THEN r[1]
                                               ELSE IF y = r[n] THEN r[2] ELSE next[y]
  BY <1>2, <1>6, <1>8, <1>9, <1>10, <1>11, SwapBackwards, SMTT(60)
<1>13. ASSUME NEW k \in 1..n PROVE next'[u[k]] = u[IF k = n THEN n ELSE k + 1]
  <2>1. u[n] = r[1] /\ u[1] = r[n]
    BY <1>30
  <2>2. CASE n = 2
    BY <1>9, <1>12, <2>1, <2>2
  <2>3. CASE n # 2
    <3>1. CASE k = n
      BY <1>9, <1>12, <2>1, <2>3, <3>1
    <3>2. CASE k = 1
      <4>1. u[2] = r[2]
        BY <1>2, <1>30, <2>3
      <4>2. next'[r[n]] = r[2]
        BY <1>2, <1>9, <1>10, <1>12, <2>3
      <4> QED
        BY <1>2, <2>1, <3>2, <4>1, <4>2
    <3>3. CASE k = n - 1
      <4>1. n - 1 \in 2..(n - 1) /\ n - 1 \in 1..n /\ k # n /\ k + 1 = n
        BY <1>2, <2>3, <3>3
      <4>2. u[k] = r[n - 1]
        BY <1>30, <3>3, <4>1
      <4>3. next'[r[n - 1]] = r[1]
        BY <1>9, <1>12, <2>3, <4>1
      <4> QED
        BY <2>1, <4>1, <4>2, <4>3
    <3>4. CASE k \in 2..(n - 2)
      <4>1. u[k] = r[k] /\ u[k + 1] = r[k + 1] /\ k # n
        BY <1>30, <3>4
      <4>2. r[k] # r[1] /\ r[k] # r[n] /\ r[k] # r[n - 1]
        BY <1>2, <1>5, <3>4
      <4>3. next'[r[k]] = next[r[k]]
        BY <1>9, <1>12, <2>3, <4>2
      <4> QED
        BY <1>8, <3>4, <4>1, <4>3
    <3> QED
      BY <3>1, <3>2, <3>3, <3>4
  <2> QED
    BY <2>2, <2>3
<1>14. prev'[u[n]] # u[n]
  BY <1>12, <1>30
<1>15. \A k \in 1..n : \E l \in 1..n : u[l] = s[k]
  <2>1. \A k \in 1..n : \E l \in 1..n : u[l] = r[k]
    BY <1>3 DEF Covers
  <2>2. \A k \in 1..n : \E l \in 1..n : r[l] = s[k]
    BY <1>1 DEF Covers
  <2> TAKE k \in 1..n
  <2>3. PICK l \in 1..n : r[l] = s[k]
    BY <2>2
  <2>4. PICK m \in 1..n : u[m] = r[l]
    BY <2>1
  <2> QED
    BY <2>3, <2>4
<1>16. Dead(next', u, n)
  BY <1>13 DEF Dead
<1> QED
  BY <1>3, <1>12, <1>14, <1>15, <1>16
-----------------------------------------------------------------------------
(* Walks. *)

Elements(s, n) == {s[k] : k \in 1..n}

LEMMA Crowd ==
  ASSUME NEW n \in Nat, NEW s \in [1..n -> Nodes], Distinct(s, n)
  PROVE  n <= Cardinality(Nodes) /\ Cardinality(Nodes) \in Nat
<1>1. s \in Injection(1..n, Nodes)
  BY DEF Injection, IsInjective, Distinct
<1>2. IsFiniteSet(Nodes)
  BY NodesAssumption
<1>3. Cardinality(1..n) <= Cardinality(Nodes)
  BY <1>1, <1>2, FS_Injection
<1>4. Cardinality(1..n) = n
  <2>1. Cardinality(1..n) = IF 1 > n THEN 0 ELSE n - 1 + 1
    BY FS_Interval
  <2> QED
    BY <2>1
<1>5. Cardinality(Nodes) \in Nat
  BY <1>2, FS_CardinalityType
<1> QED
  BY <1>3, <1>4, <1>5

(* The places a walk of m steps from h passes. *)
Steps(m, nx, h) == CHOOSE f : f = [i \in 0..m |-> IF i = 0 THEN h ELSE nx[f[i - 1]]]

LEMMA StepsAre ==
  ASSUME NEW m \in Nat, NEW nx \in Links, NEW h \in Nodes
  PROVE  /\ Steps(m, nx, h) \in [0..m -> Nodes] /\ Steps(m, nx, h)[0] = h
         /\ \A i \in 1..m : Steps(m, nx, h)[i] = nx[Steps(m, nx, h)[i - 1]]
<1> DEFINE turn == [k \in 1..m |-> nx]
           P(f) == f = [i \in 0..m |-> IF i = 0 THEN h ELSE nx[f[i - 1]]]
           w == Steps(m, nx, h)
<1>1. turn \in Loops(m, Nodes)
  BY DEF Loops, Links
<1>2. PICK f : Run(f, m, Nodes, h, turn)
  BY <1>1, Loop
<1>3. f \in [0..m -> Nodes] /\ f[0] = h /\ \A k \in 1..m : f[k] = nx[f[k - 1]]
  BY <1>2 DEF Run
<1>4. P(f)
  <2>1. \A i \in 0..m : f[i] = IF i = 0 THEN h ELSE nx[f[i - 1]]
    BY <1>3
  <2> QED
    BY <1>3, <2>1
<1>5. w = CHOOSE g : P(g)
  BY DEF Steps
<1> HIDE DEF P
<1>6. P(w)
  <2>1. P(CHOOSE g : P(g))
    BY <1>4
  <2> QED
    BY <1>5, <2>1
<1> HIDE DEF w
<1>7. w = [i \in 0..m |-> IF i = 0 THEN h ELSE nx[w[i - 1]]]
  BY <1>6 DEF P
<1>8. DOMAIN w = 0..m /\ \A i \in 0..m : w[i] = IF i = 0 THEN h ELSE nx[w[i - 1]]
  BY <1>7
<1>9. w[0] = h /\ \A i \in 1..m : w[i] = nx[w[i - 1]]
  BY <1>8
<1>10. 0..m \subseteq {i \in 0..m : w[i] \in Nodes}
  <2> DEFINE S == {i \in 0..m : w[i] \in Nodes}
  <2>1. 0 \in S
    BY <1>9
  <2>2. ASSUME NEW k \in 0..(m - 1), k \in S PROVE k + 1 \in S
    <3>1. k + 1 \in 1..m /\ (k + 1) - 1 = k
      OBVIOUS
    <3>2. w[k + 1] = nx[w[k]]
      BY <1>9, <3>1
    <3> QED
      BY <2>2, <3>1, <3>2 DEF Links
  <2> HIDE DEF S
  <2>3. 0..m \subseteq S
    BY <2>1, <2>2, Induct
  <2> QED
    BY <2>3 DEF S
<1>11. w \in [0..m -> Nodes]
  BY <1>7, <1>8, <1>10
<1> QED
  BY <1>9, <1>11 DEF w

(* A walk around a circle, either way. *)
Rounds(nx, pv, s, n, m) ==
  /\ \A i \in 0..(n - 1) : Steps(m, nx, s[1])[i] = s[i + 1]
  /\ Steps(m, nx, s[1])[n] = s[1]
  /\ \A i \in 1..n : Steps(m, pv, s[1])[i] = s[n + 1 - i]

LEMMA Around ==
  ASSUME NEW nx \in Links, NEW pv \in Links, NEW n \in Nat \ {0}, NEW s \in [1..n -> Nodes],
         Circle(nx, pv, s, n), NEW m \in Nat, n <= m
  PROVE  Rounds(nx, pv, s, n, m)
<1> DEFINE f == Steps(m, nx, s[1])
           g == Steps(m, pv, s[1])
<1>0. s[1] \in Nodes
  OBVIOUS
<1>1. f[0] = s[1] /\ \A i \in 1..m : f[i] = nx[f[i - 1]]
  BY <1>0, StepsAre
<1>2. g[0] = s[1] /\ \A i \in 1..m : g[i] = pv[g[i - 1]]
  BY <1>0, StepsAre
<1>3. \A k \in 1..n : nx[s[k]] = s[After(k, n)] /\ pv[s[After(k, n)]] = s[k]
  BY DEF Circle
<1> HIDE DEF f, g
<1>4. \A i \in 0..(n - 1) : f[i] = s[i + 1]
  <2> DEFINE S == {i \in 0..(n - 1) : f[i] = s[i + 1]}
  <2>1. 0 \in S
    BY <1>1
  <2>2. ASSUME NEW k \in 0..(n - 1 - 1), k \in S PROVE k + 1 \in S
    <3>1. k + 1 \in 1..m /\ (k + 1) - 1 = k /\ k + 1 \in 0..(n - 1)
      OBVIOUS
    <3>2. f[k + 1] = nx[s[k + 1]]
      BY <1>1, <2>2, <3>1
    <3>3. nx[s[k + 1]] = s[k + 1 + 1]
      BY <1>3 DEF After
    <3> QED
      BY <3>1, <3>2, <3>3
  <2> HIDE DEF S
  <2>3. n - 1 \in Nat
    OBVIOUS
  <2>4. 0..(n - 1) \subseteq S
    BY <2>1, <2>2, <2>3, Induct
  <2> QED
    BY <2>4 DEF S
<1>5. f[n] = s[1]
  <2>1. f[n] = nx[f[n - 1]] /\ n - 1 \in 0..(n - 1) /\ (n - 1) + 1 = n
    BY <1>1
  <2>2. f[n - 1] = s[n]
    BY <1>4, <2>1
  <2>3. nx[s[n]] = s[1]
    BY <1>3 DEF After
  <2> QED
    BY <2>1, <2>2, <2>3
<1>6. \A i \in 0..n : i # 0 => g[i] = s[n + 1 - i]
  <2> DEFINE S == {i \in 0..n : i # 0 => g[i] = s[n + 1 - i]}
  <2>1. 0 \in S
    OBVIOUS
  <2>2. ASSUME NEW k \in 0..(n - 1), k \in S PROVE k + 1 \in S
    <3>1. k + 1 \in 1..m /\ (k + 1) - 1 = k /\ k + 1 \in 0..n /\ n + 1 - (k + 1) = n - k
      OBVIOUS
    <3>2. g[k + 1] = pv[g[k]]
      BY <1>2, <3>1
    <3>3. CASE k = 0
      <4>1. pv[s[1]] = s[n]
        BY <1>3 DEF After
      <4> QED
        BY <1>2, <3>1, <3>2, <3>3, <4>1
    <3>4. CASE k # 0
      <4>1. g[k] = s[n + 1 - k]
        BY <2>2, <3>4
      <4>2. n - k \in 1..n /\ After(n - k, n) = n + 1 - k
        BY <3>4 DEF After
      <4>3. pv[s[n + 1 - k]] = s[n - k]
        BY <1>3, <4>2
      <4> QED
        BY <3>1, <3>2, <4>1, <4>3
    <3> QED
      BY <3>3, <3>4
  <2> HIDE DEF S
  <2>3. 0..n \subseteq S
    BY <2>1, <2>2, Induct
  <2> QED
    BY <2>3 DEF S
<1>7. \A i \in 1..n : g[i] = s[n + 1 - i]
  BY <1>6
<1> QED
  BY <1>4, <1>5, <1>7 DEF Rounds, f, g

(* A walk into a dead end never comes back, unless it begins there. *)
LEMMA IntoDeadEnd ==
  ASSUME NEW nx \in Links, NEW n \in Nat, NEW u \in [1..n -> Nodes], Distinct(u, n),
         Dead(nx, u, n), NEW j \in 1..n, NEW m \in Nat
  PROVE  \A i \in 1..m : Steps(m, nx, u[j])[i] = u[j] <=> j = n
<1> DEFINE f == Steps(m, nx, u[j])
<1>1. f[0] = u[j] /\ \A i \in 1..m : f[i] = nx[f[i - 1]]
  BY StepsAre
<1> HIDE DEF f
<1> DEFINE S == {i \in 0..m : \E k \in 1..n : f[i] = u[k] /\ k = IF j + i <= n THEN j + i ELSE n}
<1>2. 0 \in S
  BY <1>1
<1>3. ASSUME NEW i \in 0..(m - 1), i \in S PROVE i + 1 \in S
  <2>1. PICK k \in 1..n : f[i] = u[k] /\ k = IF j + i <= n THEN j + i ELSE n
    BY <1>3
  <2>2. i + 1 \in 1..m /\ (i + 1) - 1 = i
    OBVIOUS
  <2>3. f[i + 1] = nx[u[k]]
    BY <1>1, <2>1, <2>2
  <2> DEFINE l == IF k = n THEN n ELSE k + 1
  <2>4. l \in 1..n /\ l = IF j + (i + 1) <= n THEN j + (i + 1) ELSE n
    BY <2>1
  <2>5. nx[u[k]] = u[l]
    BY DEF Dead
  <2> QED
    BY <2>2, <2>3, <2>4, <2>5
<1> HIDE DEF S
<1>4. 0..m \subseteq S
  BY <1>2, <1>3, Induct
<1>5. ASSUME NEW i \in 1..m PROVE f[i] = u[j] <=> j = n
  <2>1. PICK k \in 1..n : f[i] = u[k] /\ k = IF j + i <= n THEN j + i ELSE n
    <3>1. i \in S
      BY <1>4
    <3> QED
      BY <3>1 DEF S
  <2>2. f[i] = u[j] <=> k = j
    BY <2>1 DEF Distinct
  <2>3. k = j <=> j = n
    BY <2>1
  <2> QED
    BY <2>2, <2>3
<1> QED
  BY <1>5 DEF f
-----------------------------------------------------------------------------
(* The list in a state. *)

(* s is the list, from the head on. *)
Whole(s, n) ==
  /\ n \in Nat /\ s \in [1..n -> Nodes] /\ Distinct(s, n) /\ Circle(next, prev, s, n)
  /\ list = IF n = 0 THEN NULL ELSE s[1]

(* The head is on a walk into a node that is linked to itself one way only. *)
Ended(u, n) ==
  /\ n \in Nat /\ u \in [1..n -> Nodes] /\ Distinct(u, n) /\ Dead(next, u, n)
  /\ n > 1 /\ prev[u[n]] # u[n]
  /\ list \in Elements(u, n)

(* What the loops of list.c see of a whole list. *)
Seen(s, n) ==
  /\ List!Turns = n /\ List!print_list = s /\ List!InList = Elements(s, n)
  /\ \A i \in 0..(n - 1) : List!NextFrom[i] = s[i + 1]
  /\ n > 0 => List!NextFrom[n] = s[1]
  /\ \A k \in 1..n : List!print_list_reverse[k] = s[n + 1 - k]

AllSeen == next \in Links /\ prev \in Links => \A n, s : Whole(s, n) => Seen(s, n)

LEMMA WalksAre ==
  List!NextFrom = Steps(Cardinality(Nodes), next, list) /\ List!PrevFrom = Steps(Cardinality(Nodes), prev, list)
<1>1. List!Cardinality(Nodes) = Cardinality(Nodes)
  BY DEF List!Cardinality, Cardinality
<1>2. List!NextFrom = Steps(Cardinality(Nodes), next, list)
  BY <1>1 DEF List!NextFrom, Steps
<1>3. List!PrevFrom = Steps(Cardinality(Nodes), prev, list)
  BY <1>1 DEF List!PrevFrom, Steps
<1> QED
  BY <1>2, <1>3

LEMMA WholeIsSeen == AllSeen
<1> SUFFICES ASSUME next \in Links, prev \in Links, NEW n, NEW s, Whole(s, n) PROVE Seen(s, n)
  BY DEF AllSeen
<1>1. n \in Nat /\ s \in [1..n -> Nodes] /\ Distinct(s, n) /\ Circle(next, prev, s, n)
  BY DEF Whole
<1>2. CASE n = 0
  <2>1. list = NULL
    BY <1>2 DEF Whole
  <2>2. List!Turns = 0
    BY <2>1 DEF List!Turns
  <2>3. List!print_list = s
    BY <1>1, <1>2, <2>2 DEF List!print_list
  <2>4. List!InList = {}
    BY <2>2 DEF List!InList
  <2> QED
    BY <1>2, <2>2, <2>3, <2>4 DEF Seen, Elements
<1>3. CASE n # 0
  <2> DEFINE m == Cardinality(Nodes)
  <2>1. list = s[1] /\ s[1] \in Nodes /\ list # NULL
    BY <1>1, <1>3, NodesAssumption DEF Whole
  <2>2. n <= m /\ m \in Nat
    BY <1>1, Crowd
  <2> HIDE DEF m
  <2>3. List!NextFrom = Steps(m, next, s[1]) /\ List!PrevFrom = Steps(m, prev, s[1])
    BY <2>1, WalksAre DEF m
  <2>4. /\ \A i \in 0..(n - 1) : List!NextFrom[i] = s[i + 1]
        /\ List!NextFrom[n] = s[1]
        /\ \A i \in 1..n : List!PrevFrom[i] = s[n + 1 - i]
    <3>1. n \in Nat \ {0}
      BY <1>1, <1>3
    <3>2. Rounds(next, prev, s, n, m)
      BY <1>1, <2>2, <3>1, Around
    <3> QED
      BY <2>3, <3>2 DEF Rounds
  <2>5. List!Cardinality(Nodes) = m
    BY DEF List!Cardinality, Cardinality, m
  <2> DEFINE back == {i \in 1..m : List!NextFrom[i] = list}
  <2>6. n \in back
    BY <1>1, <1>3, <2>1, <2>2, <2>4
  <2>7. ASSUME NEW i \in back PROVE n <= i
    <3>1. i \in 1..m /\ List!NextFrom[i] = s[1]
      BY <2>1
    <3>2. SUFFICES ASSUME i < n PROVE FALSE
      BY <1>1, <2>2, <3>1
    <3>3. i \in 0..(n - 1) /\ i + 1 \in 1..n /\ 1 \in 1..n
      BY <1>1, <2>2, <3>1, <3>2
    <3>4. s[i + 1] = s[1]
      BY <2>4, <3>1, <3>3
    <3>5. i + 1 = 1
      BY <1>1, <3>3, <3>4 DEF Distinct
    <3> QED
      BY <2>2, <3>1, <3>5
  <2>8. back \in SUBSET Nat
    BY <2>2
  <2>9. List!Turns = IF list = NULL \/ back = {} THEN 0 ELSE List!Min(back)
    BY <2>5 DEF List!Turns
  <2> HIDE DEF back
  <2>10. List!Min(back) \in back /\ \A k \in back : List!Min(back) <= k
    BY <2>6, <2>8, ListMinIs
  <2>11. List!Min(back) = n
    <3>1. PICK v \in back : v = List!Min(back)
      BY <2>10
    <3>2. v <= n /\ n <= v /\ v \in Nat
      BY <2>6, <2>7, <2>8, <2>10, <3>1
    <3> QED
      BY <1>1, <3>1, <3>2
  <2>12. List!Turns = n
    BY <2>1, <2>6, <2>9, <2>11
  <2>13. List!print_list = s
    <3>1. List!print_list = [k \in 1..n |-> List!NextFrom[k - 1]]
      BY <2>12 DEF List!print_list
    <3>2. \A k \in 1..n : List!NextFrom[k - 1] = s[k]
      <4> TAKE k \in 1..n
      <4>1. k - 1 \in 0..(n - 1) /\ (k - 1) + 1 = k
        BY <1>1
      <4> QED
        BY <2>4, <4>1
    <3>3. [k \in 1..n |-> List!NextFrom[k - 1]] = [k \in 1..n |-> s[k]]
      BY <3>2
    <3> QED
      BY <1>1, <3>1, <3>3
  <2>14. List!InList = Elements(s, n)
    <3>1. List!InList = {List!NextFrom[i] : i \in 0..(n - 1)}
      BY <2>12 DEF List!InList
    <3>2. ASSUME NEW i \in 0..(n - 1) PROVE List!NextFrom[i] \in Elements(s, n)
      <4>1. i + 1 \in 1..n
        BY <1>1
      <4> QED
        BY <2>4, <4>1 DEF Elements
    <3>3. ASSUME NEW k \in 1..n PROVE s[k] \in {List!NextFrom[i] : i \in 0..(n - 1)}
      <4>1. k - 1 \in 0..(n - 1) /\ (k - 1) + 1 = k
        BY <1>1
      <4> QED
        BY <2>4, <4>1
    <3> QED
      BY <3>1, <3>2, <3>3 DEF Elements
  <2>15. \A k \in 1..n : List!print_list_reverse[k] = s[n + 1 - k]
    <3>1. \A k \in 1..n : List!print_list_reverse[k] = List!PrevFrom[k]
      BY <2>12 DEF List!print_list_reverse
    <3> QED
      BY <2>4, <3>1
  <2> QED
    BY <2>4, <2>12, <2>13, <2>14, <2>15 DEF Seen
<1> QED
  BY <1>2, <1>3

(* The two walks of a list that is taken apart do not agree. *)
LEMMA EndedDisagree ==
  ASSUME next \in Links, prev \in Links, NEW n, NEW u, Ended(u, n)
  PROVE  /\ list # NULL
         /\ ~(/\ List!Turns > 0
              /\ \A k \in 1..List!Turns :
                   List!print_list_reverse[k] = List!print_list[List!Turns + 1 - k])
<1> DEFINE m == Cardinality(Nodes)
<1>1. n \in Nat /\ u \in [1..n -> Nodes] /\ Distinct(u, n) /\ Dead(next, u, n) /\ n > 1
  BY DEF Ended
<1>2. PICK j \in 1..n : list = u[j]
  BY DEF Ended, Elements
<1>3. list \in Nodes /\ list # NULL
  BY <1>1, <1>2, NodesAssumption
<1>4. n <= m /\ m \in Nat
  BY <1>1, Crowd
<1> HIDE DEF m
<1>5. List!NextFrom = Steps(m, next, u[j]) /\ List!PrevFrom = Steps(m, prev, list)
  BY <1>2, WalksAre DEF m
<1>6. \A i \in 1..m : List!NextFrom[i] = list <=> j = n
  <2>1. \A i \in 1..m : Steps(m, next, u[j])[i] = u[j] <=> j = n
    BY <1>1, <1>4, IntoDeadEnd
  <2> QED
    BY <1>2, <1>5, <2>1
<1>7. List!Cardinality(Nodes) = m
  BY DEF List!Cardinality, Cardinality, m
<1> DEFINE back == {i \in 1..m : List!NextFrom[i] = list}
<1>8. List!Turns = IF list = NULL \/ back = {} THEN 0 ELSE List!Min(back)
  BY <1>7 DEF List!Turns
<1>9. CASE j # n
  <2>1. back = {}
    BY <1>6, <1>9
  <2> HIDE DEF back
  <2>2. List!Turns = 0
    BY <1>8, <2>1
  <2> QED
    BY <1>3, <2>2
<1>10. CASE j = n
  <2>1. 1 \in back /\ back \in SUBSET Nat /\ \A k \in back : 1 <= k
    BY <1>1, <1>4, <1>6, <1>10
  <2> HIDE DEF back
  <2>2. List!Min(back) \in back /\ \A k \in back : List!Min(back) <= k
    BY <2>1, ListMinIs
  <2>3. List!Min(back) = 1
    <3>1. PICK v \in back : v = List!Min(back)
      BY <2>2
    <3>2. v <= 1 /\ 1 <= v /\ v \in Nat
      BY <2>1, <2>2, <3>1
    <3> QED
      BY <3>1, <3>2
  <2>4. List!Turns = 1
    BY <1>3, <1>8, <2>1, <2>3
  <2>5. List!print_list[1] = list
    <3>1. List!print_list[1] = List!NextFrom[1 - 1]
      BY <2>4 DEF List!print_list
    <3>2. Steps(m, next, list)[0] = list
      BY <1>3, <1>4, StepsAre
    <3> QED
      BY <1>2, <1>5, <3>1, <3>2
  <2>6. List!print_list_reverse[1] = prev[list]
    <3>1. List!print_list_reverse[1] = List!PrevFrom[1]
      BY <2>4 DEF List!print_list_reverse
    <3>2. Steps(m, prev, list)[0] = list /\ \A i \in 1..m : Steps(m, prev, list)[i] = prev[Steps(m, prev, list)[i - 1]]
      BY <1>3, <1>4, StepsAre
    <3>3. 1 \in 1..m /\ 1 - 1 = 0
      BY <1>1, <1>4
    <3>4. Steps(m, prev, list)[1] = prev[list]
      BY <3>2, <3>3
    <3> QED
      BY <1>5, <3>1, <3>4
  <2>7. prev[list] # list
    BY <1>2, <1>10 DEF Ended
  <2>8. 1 \in 1..List!Turns /\ List!Turns + 1 - 1 = 1
    BY <2>4
  <2> QED
    BY <1>3, <2>5, <2>6, <2>7, <2>8
<1> QED
  BY <1>9, <1>10
-----------------------------------------------------------------------------
(* The functions of list.c on a whole list. *)

LEMMA WithElements ==
  ASSUME NEW n \in Nat, NEW s \in [1..n -> Nodes], NEW i \in 1..(n + 1), NEW x
  PROVE  Elements(With(s, n, i, x), n + 1) = Elements(s, n) \union {x}
<1> DEFINE t == With(s, n, i, x)
<1>1. \A k \in 1..(n + 1) : t[k] = IF k < i THEN s[k] ELSE IF k = i THEN x ELSE s[k - 1]
  BY DEF With
<1> HIDE DEF t
<1>2. ASSUME NEW k \in 1..(n + 1) PROVE t[k] \in Elements(s, n) \union {x}
  <2>1. CASE k < i
    <3>1. k \in 1..n /\ t[k] = s[k]
      BY <1>1, <2>1
    <3> QED
      BY <3>1 DEF Elements
  <2>2. CASE k = i
    BY <1>1, <2>2
  <2>3. CASE k > i
    <3>1. k - 1 \in 1..n /\ t[k] = s[k - 1]
      BY <1>1, <2>3
    <3> QED
      BY <3>1 DEF Elements
  <2> QED
    BY <2>1, <2>2, <2>3
<1>3. ASSUME NEW k \in 1..n PROVE s[k] \in Elements(t, n + 1)
  <2>1. CASE k < i
    <3>1. k \in 1..(n + 1) /\ t[k] = s[k]
      BY <1>1, <2>1
    <3> QED
      BY <3>1 DEF Elements
  <2>2. CASE k >= i
    <3>1. k + 1 \in 1..(n + 1) /\ ~(k + 1 < i) /\ k + 1 # i /\ (k + 1) - 1 = k
      BY <2>2
    <3>2. t[k + 1] = s[k]
      BY <1>1, <3>1
    <3> QED
      BY <3>1, <3>2 DEF Elements
  <2> QED
    BY <2>1, <2>2
<1>4. x \in Elements(t, n + 1)
  <2>1. t[i] = x
    BY <1>1
  <2> QED
    BY <2>1 DEF Elements
<1> QED
  BY <1>2, <1>3, <1>4 DEF Elements, t

LEMMA WithoutElements ==
  ASSUME NEW n \in Nat, NEW s \in [1..n -> Nodes], Distinct(s, n), NEW i \in 1..n
  PROVE  Elements(Without(s, n, i), n - 1) = Elements(s, n) \ {s[i]}
<1> DEFINE t == Without(s, n, i)
<1>1. \A k \in 1..(n - 1) : t[k] = IF k < i THEN s[k] ELSE s[k + 1]
  BY DEF Without
<1>0. \A a, b \in 1..n : s[a] = s[b] => a = b
  BY DEF Distinct
<1> HIDE DEF t
<1>2. ASSUME NEW k \in 1..(n - 1) PROVE t[k] \in Elements(s, n) \ {s[i]}
  <2>1. CASE k < i
    <3>1. k \in 1..n /\ t[k] = s[k] /\ k # i
      BY <1>1, <2>1
    <3> QED
      BY <1>0, <3>1 DEF Elements
  <2>2. CASE ~(k < i)
    <3>1. k + 1 \in 1..n /\ t[k] = s[k + 1] /\ k + 1 # i
      BY <1>1, <2>2
    <3> QED
      BY <1>0, <3>1 DEF Elements
  <2> QED
    BY <2>1, <2>2
<1>3. ASSUME NEW k \in 1..n, s[k] # s[i] PROVE s[k] \in Elements(t, n - 1)
  <2>1. CASE k < i
    <3>1. k \in 1..(n - 1) /\ t[k] = s[k]
      BY <1>1, <2>1
    <3> QED
      BY <3>1 DEF Elements
  <2>2. CASE k > i
    <3>1. k - 1 \in 1..(n - 1) /\ ~(k - 1 < i) /\ (k - 1) + 1 = k
      BY <2>2
    <3>2. t[k - 1] = s[k]
      BY <1>1, <3>1
    <3> QED
      BY <3>1, <3>2 DEF Elements
  <2>3. k # i
    BY <1>3
  <2> QED
    BY <2>1, <2>2, <2>3
<1> QED
  BY <1>2, <1>3 DEF Elements, t

LEMMA TurnedElements ==
  ASSUME NEW n \in Nat, NEW s, NEW j \in 1..n
  PROVE  Elements(Turned(s, n, j), n) = Elements(s, n)
<1>1. ASSUME NEW k \in 1..n PROVE Turned(s, n, j)[k] \in Elements(s, n)
  BY TurnedAt DEF Elements
<1>2. ASSUME NEW i \in 1..n PROVE s[i] \in Elements(Turned(s, n, j), n)
  <2>1. PICK k \in 1..n : Turned(s, n, j)[k] = s[i]
    BY TurnedCovers DEF Covers
  <2> QED
    BY <2>1 DEF Elements
<1> QED
  BY <1>1, <1>2 DEF Elements

LEMMA ExchangeElements ==
  ASSUME NEW n \in Nat, NEW s \in [1..n -> Nodes], NEW i \in 1..n, NEW j \in 1..n
  PROVE  Elements(Exchange(s, i, j), n) = Elements(s, n)
<1>1. ASSUME NEW k \in 1..n PROVE Exchange(s, i, j)[k] \in Elements(s, n)
  <2>1. Exchange(s, i, j)[k] = IF k = i THEN s[j] ELSE IF k = j THEN s[i] ELSE s[k]
    BY ExchangeAt
  <2> QED
    BY <2>1 DEF Elements
<1>2. ASSUME NEW l \in 1..n PROVE s[l] \in Elements(Exchange(s, i, j), n)
  <2>1. PICK k \in 1..n : Exchange(s, i, j)[k] = s[l]
    BY ExchangeCovers DEF Covers
  <2> QED
    BY <2>1 DEF Elements
<1> QED
  BY <1>1, <1>2 DEF Elements

Linked == next \in Links /\ prev \in Links

(* The nodes are those of the list and the one that a caller holds. *)
Sound(s, n) ==
  /\ Whole(s, n)
  /\ live = Elements(s, n) \union ({held} \ {NULL}) /\ held \notin Elements(s, n)

(* Where add_node_before is called to insert at place i. *)
Spot(s, n, i) == IF n = 0 THEN NULL ELSE s[IF i > n THEN 1 ELSE i]

LEMMA InsertStep ==
  ASSUME Linked, NEW n, NEW s, Sound(s, n), NEW x, List!malloc(x), NEW i \in 1..(n + 1),
         List!add_node_before(Spot(s, n, i), x), list' = IF i = 1 THEN x ELSE list
  PROVE  Sound(With(s, n, i, x), n + 1)' /\ Linked'
<1> DEFINE t == With(s, n, i, x)
<1>1. n \in Nat /\ s \in [1..n -> Nodes] /\ Distinct(s, n) /\ Circle(next, prev, s, n)
  BY DEF Sound, Whole
<1>2. x \in Nodes /\ x \notin live /\ x # NULL /\ live' = live \union {x} /\ held' = held
  BY NodesAssumption DEF List!malloc
<1>3. x \notin Elements(s, n) /\ x # held
  BY <1>2 DEF Sound
<1>4. \A k \in 1..n : s[k] # x
  BY <1>3 DEF Elements
<1>5. Elements(t, n + 1) = Elements(s, n) \union {x}
  BY <1>1, WithElements
<1>6. IsRing(next', prev', t, n + 1) /\ next' \in Links /\ prev' \in Links
  <2>1. CASE n = 0
    <3>1. next' = [next EXCEPT ![x] = x] /\ prev' = [prev EXCEPT ![x] = x]
      BY <2>1 DEF List!add_node_before, Spot
    <3>2. next' \in Links /\ prev' \in Links /\ next'[x] = x /\ prev'[x] = x
      BY <1>2, <3>1 DEF Links, Linked
    <3>3. i = 1 /\ t \in [1..1 -> Nodes] /\ t[1] = x
      BY <1>2, <2>1 DEF With
    <3>4. n + 1 = 1
      BY <2>1
    <3> HIDE DEF t
    <3>5. Distinct(t, 1)
      BY DEF Distinct
    <3>6. Circle(next', prev', t, 1)
      BY <3>2, <3>3 DEF Circle, After
    <3> QED
      BY <3>2, <3>3, <3>4, <3>5, <3>6 DEF IsRing
  <2>2. CASE n # 0
    <3>1. PICK p : p = s[IF i > n THEN 1 ELSE i] /\ p = Spot(s, n, i)
      BY <2>2 DEF Spot
    <3>2. p \in Nodes /\ p # NULL
      <4>1. (IF i > n THEN 1 ELSE i) \in 1..n
        BY <1>1, <2>2
      <4>2. p \in Nodes
        BY <1>1, <3>1, <4>1
      <4> QED
        BY <4>2, NodesAssumption
    <3>3. /\ next' = [next EXCEPT ![x] = p, ![prev[p]] = x]
          /\ prev' = [prev EXCEPT ![x] = prev[p], ![p] = x]
      BY <3>1, <3>2 DEF List!add_node_before
    <3>4. next' \in Links /\ prev' \in Links
      BY <1>2, <3>2, <3>3 DEF Links, Linked
    <3>5. n \in Nat \ {0} /\ next \in Links /\ prev \in Links
      BY <1>1, <2>2 DEF Linked
    <3>6. IsRing([next EXCEPT ![x] = p, ![prev[p]] = x], [prev EXCEPT ![x] = prev[p], ![p] = x],
                 t, n + 1)
      BY <1>1, <1>2, <1>4, <3>1, <3>5, InsertedIs
    <3> QED
      BY <3>3, <3>4, <3>6
  <2> QED
    BY <2>1, <2>2
<1>7. list' = t[1]
  <2>1. CASE i = 1
    BY <1>1, <2>1 DEF With
  <2>2. CASE i # 1
    <3>1. n # 0 /\ t[1] = s[1]
      BY <1>1, <2>2 DEF With
    <3> QED
      BY <2>2, <3>1 DEF Sound, Whole
  <2> QED
    BY <2>1, <2>2
<1> HIDE DEF t
<1>8. n + 1 # 0
  BY <1>1
<1>9. Whole(t, n + 1)'
  BY <1>6, <1>7, <1>8 DEF Whole, IsRing
<1>10. /\ live' = Elements(t, n + 1) \union ({held'} \ {NULL})
       /\ held' \notin Elements(t, n + 1)
  BY <1>2, <1>3, <1>5 DEF Sound
<1>11. Sound(t, n + 1)'
  BY <1>9, <1>10 DEF Sound, Elements
<1> QED
  BY <1>6, <1>11 DEF t, Linked

LEMMA RemoveStep ==
  ASSUME Linked, NEW n, NEW s, Sound(s, n), NEW i \in 1..n, List!TakeOut(s[i]),
         list' = IF n = 1 THEN NULL ELSE IF i = 1 THEN s[2] ELSE list
  PROVE  Sound(Without(s, n, i), n - 1)' /\ Linked'
<1> DEFINE t == Without(s, n, i)
<1>1. n \in Nat /\ s \in [1..n -> Nodes] /\ Distinct(s, n) /\ Circle(next, prev, s, n)
  BY DEF Sound, Whole
<1>2. PICK p \in Nodes : p = s[i] /\ p # NULL
  BY <1>1, NodesAssumption
<1>3. held = NULL /\ held' = p /\ live' = live /\ List!extract(p)
  BY <1>2 DEF List!TakeOut
<1>4. Elements(t, n - 1) = Elements(s, n) \ {p}
  BY <1>1, <1>2, WithoutElements
<1>5. p \in Elements(s, n)
  BY <1>2 DEF Elements
<1>6. IsRing(next', prev', t, n - 1) /\ next' \in Links /\ prev' \in Links
  <2>1. After(i, n) \in 1..n /\ next[p] = s[After(i, n)]
    BY <1>1, <1>2, AfterIs DEF Circle
  <2>2. CASE n = 1
    <3>1. next[p] = p
      BY <1>2, <2>1, <2>2 DEF After
    <3>2. next' = next /\ prev' = prev
      BY <1>3, <3>1 DEF List!extract, List!links
    <3>3. n - 1 = 0 /\ t \in [1..0 -> Nodes]
      BY <2>2 DEF Without
    <3> HIDE DEF t
    <3> QED
      BY <3>2, <3>3 DEF IsRing, Distinct, Circle, Linked
  <2>3. CASE n # 1
    <3>1. n > 1 /\ After(i, n) # i
      BY <1>1, <2>3, AfterIs
    <3>2. next[p] # p
      BY <1>1, <1>2, <2>1, <3>1 DEF Distinct
    <3>3. /\ next' = [next EXCEPT ![prev[p]] = next[p], ![p] = p]
          /\ prev' = [prev EXCEPT ![next[p]] = prev[p], ![p] = p]
      BY <1>3, <3>2 DEF List!extract
    <3>4. next' \in Links /\ prev' \in Links
      BY <3>3 DEF Links, Linked
    <3>5. IsRing([next EXCEPT ![prev[p]] = next[p], ![p] = p],
                 [prev EXCEPT ![next[p]] = prev[p], ![p] = p], t, n - 1)
      BY <1>1, <1>2, <3>1, RemovedIs DEF Linked
    <3> QED
      BY <3>3, <3>4, <3>5
  <2> QED
    BY <2>2, <2>3
<1>7. list' = IF n - 1 = 0 THEN NULL ELSE t[1]
  <2>1. CASE n = 1
    BY <2>1
  <2>2. CASE n # 1 /\ i = 1
    <3>1. t[1] = s[2]
      BY <1>1, <2>2 DEF Without
    <3> QED
      BY <1>1, <2>2, <3>1
  <2>3. CASE n # 1 /\ i # 1
    <3>1. t[1] = s[1] /\ n # 0
      BY <1>1, <2>3 DEF Without
    <3>2. list = s[1]
      BY <3>1 DEF Sound, Whole
    <3> QED
      BY <1>1, <2>3, <3>1, <3>2
  <2> QED
    BY <2>1, <2>2, <2>3
<1> HIDE DEF t
<1>8. Whole(t, n - 1)'
  BY <1>6, <1>7 DEF Whole, IsRing
<1>9. /\ live' = Elements(t, n - 1) \union ({held'} \ {NULL})
      /\ held' \notin Elements(t, n - 1)
  BY <1>2, <1>3, <1>4, <1>5 DEF Sound
<1>10. Sound(t, n - 1)'
  BY <1>8, <1>9 DEF Sound, Elements
<1> QED
  BY <1>6, <1>10 DEF t, Linked

(* The places that swap may be called on without harm. *)
LEMMA SwapStep ==
  ASSUME Linked, NEW n, NEW s, Sound(s, n), NEW i \in 1..n, NEW j \in 1..n,
         ~(s[i] # s[j] /\ prev[s[i]] = s[j]),
         List!Swapped(s[i], s[j]), UNCHANGED <<live, held>>,
         \/ list' = list
         \/ list = s[i] /\ list' = s[j]
         \/ list = s[j] /\ list' = s[i]
  PROVE  /\ Linked'
         /\ \/ Sound(Exchange(s, i, j), n)'
            \/ i = 1 /\ Sound(Turned(Exchange(s, i, j), n, j), n)'
            \/ j = 1 /\ Sound(Turned(Exchange(s, j, i), n, i), n)'
<1> DEFINE e == Exchange(s, i, j)
<1>1. n \in Nat /\ s \in [1..n -> Nodes] /\ Distinct(s, n) /\ Circle(next, prev, s, n)
  BY DEF Sound, Whole
<1>2. list = s[1] /\ n # 0 /\ 1 \in 1..n
  BY <1>1 DEF Sound, Whole
<1>3. i # j => After(j, n) # i
  <2> SUFFICES ASSUME i # j, After(j, n) = i PROVE FALSE
    OBVIOUS
  <2>1. prev[s[i]] = s[j]
    BY <1>1 DEF Circle
  <2>2. s[i] # s[j]
    BY <1>1 DEF Distinct
  <2> QED
    BY <2>1, <2>2
<1>4. next' \in Links /\ prev' \in Links /\ Circle(next', prev', e, n)
  BY <1>1, <1>3, SwapKeepsCircle DEF Linked
<1>5. e \in [1..n -> Nodes] /\ Distinct(e, n)
  BY <1>1, ExchangeIs
<1>6. \A k \in 1..n : e[k] = IF k = i THEN s[j] ELSE IF k = j THEN s[i] ELSE s[k]
  BY <1>1, ExchangeAt
<1>7. Elements(e, n) = Elements(s, n)
  BY <1>1, ExchangeElements
<1>8. e = Exchange(s, j, i)
  <2>1. \A k \in 1..n : Exchange(s, j, i)[k] = e[k]
    <3>1. \A k \in 1..n : Exchange(s, j, i)[k] = IF k = j THEN s[i] ELSE IF k = i THEN s[j] ELSE s[k]
      BY <1>1, ExchangeAt
    <3> HIDE DEF e
    <3> QED
      BY <1>6, <3>1
  <2> DEFINE f == Exchange(s, j, i)
  <2>2. f \in [1..n -> Nodes]
    BY <1>1, ExchangeIs
  <2>3. e \in [1..n -> Nodes]
    BY <1>5
  <2>4. \A k \in 1..n : f[k] = e[k]
    BY <2>1
  <2> HIDE DEF e, f
  <2>5. e = [k \in 1..n |-> e[k]] /\ f = [k \in 1..n |-> f[k]]
    BY <2>2, <2>3
  <2>6. [k \in 1..n |-> e[k]] = [k \in 1..n |-> f[k]]
    BY <2>4
  <2>7. e = f
    BY <2>5, <2>6
  <2> QED
    BY <2>7 DEF f
<1>9. live' = Elements(s, n) \union ({held'} \ {NULL}) /\ held' \notin Elements(s, n)
  BY DEF Sound
<1> HIDE DEF e
<1>10. ASSUME list' = e[1] PROVE Sound(e, n)'
  <2>1. Whole(e, n)'
    BY <1>1, <1>2, <1>4, <1>5, <1>10 DEF Whole
  <2> QED
    BY <1>7, <1>9, <2>1 DEF Sound, Elements
<1>11. ASSUME NEW l \in 1..n, list' = e[l] PROVE Sound(Turned(e, n, l), n)'
  <2> DEFINE t == Turned(e, n, l)
  <2>1. t \in [1..n -> Nodes] /\ Distinct(t, n) /\ Circle(next', prev', t, n) /\ t[1] = e[l]
    BY <1>1, <1>4, <1>5, TurnedIs
  <2>2. Elements(t, n) = Elements(s, n)
    BY <1>1, <1>7, TurnedElements
  <2> HIDE DEF t
  <2>3. Whole(t, n)'
    BY <1>1, <1>2, <1>11, <2>1 DEF Whole
  <2>4. Sound(t, n)'
    BY <1>9, <2>2, <2>3 DEF Sound, Elements
  <2> QED
    BY <2>4 DEF t
<1>12. \A k \in 1..n : s[1] = s[k] <=> k = 1
  BY <1>1, <1>2 DEF Distinct
<1>13. CASE list' = list
  <2>1. CASE i = 1
    <3>1. e[j] = s[1]
      BY <1>2, <1>6, <2>1
    <3> QED
      BY <1>2, <1>4, <1>11, <1>13, <2>1, <3>1 DEF e, Linked
  <2>2. CASE j = 1 /\ i # 1
    <3>1. e[i] = s[1]
      BY <1>6, <2>2
    <3>2. Sound(Turned(e, n, i), n)'
      BY <1>2, <1>11, <1>13, <3>1
    <3> QED
      BY <1>4, <1>8, <2>2, <3>2 DEF Linked
  <2>3. CASE i # 1 /\ j # 1
    <3>1. e[1] = s[1]
      BY <1>2, <1>6, <2>3
    <3> QED
      BY <1>2, <1>4, <1>10, <1>13, <3>1 DEF e, Linked
  <2> QED
    BY <2>1, <2>2, <2>3
<1>14. CASE list = s[i] /\ list' = s[j]
  <2>1. i = 1
    BY <1>2, <1>12, <1>14
  <2>2. e[1] = s[j]
    BY <1>2, <1>6, <2>1
  <2> QED
    BY <1>4, <1>10, <1>14, <2>2 DEF e, Linked
<1>15. CASE list = s[j] /\ list' = s[i]
  <2>1. j = 1
    BY <1>2, <1>12, <1>15
  <2>2. e[1] = s[i]
    BY <1>2, <1>6, <2>1
  <2> QED
    BY <1>4, <1>10, <1>15, <2>2 DEF e, Linked
<1> QED
  BY <1>13, <1>14, <1>15

LEMMA TearStep ==
  ASSUME Linked, NEW n, NEW s, Sound(s, n), NEW i \in 1..n, NEW j \in 1..n,
         s[i] # s[j], prev[s[i]] = s[j], List!Swapped(s[i], s[j]),
         \/ list' = list
         \/ list = s[i] /\ list' = s[j]
         \/ list = s[j] /\ list' = s[i]
  PROVE  Linked' /\ \E u : Ended(u, n)'
<1>1. n \in Nat /\ s \in [1..n -> Nodes] /\ Distinct(s, n) /\ Circle(next, prev, s, n)
  BY DEF Sound, Whole
<1>2. i # j /\ n > 1
  <2>1. i # j
    OBVIOUS
  <2> QED
    BY <1>1, <2>1
<1>3. PICK h \in 1..n : After(h, n) = i
  BY <1>1, AfterIs
<1>4. h = j
  <2>1. prev[s[i]] = s[h]
    BY <1>1, <1>3 DEF Circle
  <2> QED
    BY <1>1, <2>1 DEF Distinct
<1>5. After(j, n) = i
  BY <1>3, <1>4
<1>6. /\ next' \in Links /\ prev' \in Links
      /\ \E u \in [1..n -> Nodes] :
           /\ Distinct(u, n) /\ Dead(next', u, n) /\ prev'[u[n]] # u[n]
           /\ \A k \in 1..n : \E l \in 1..n : u[l] = s[k]
  BY <1>1, <1>2, <1>5, SwapTears DEF Linked
<1>7. PICK u \in [1..n -> Nodes] :
           /\ Distinct(u, n) /\ Dead(next', u, n) /\ prev'[u[n]] # u[n]
           /\ \A k \in 1..n : \E l \in 1..n : u[l] = s[k]
  BY <1>6
<1>8. \E k \in 1..n : list' = s[k]
  <2>1. list = s[1] /\ 1 \in 1..n
    BY <1>1, <1>2 DEF Sound, Whole
  <2> QED
    BY <2>1
<1>9. list' \in Elements(u, n)
  BY <1>7, <1>8 DEF Elements
<1>10. Ended(u, n)'
  BY <1>1, <1>2, <1>7, <1>9 DEF Ended, Elements
<1> QED
  BY <1>6, <1>10 DEF Linked
-----------------------------------------------------------------------------
(* The same changes of the sequence that Ring promises. *)

LEMMA IsSeq ==
  ASSUME NEW n \in Nat, NEW s \in [1..n -> Nodes]
  PROVE  s \in Seq(Nodes) /\ Len(s) = n
  OBVIOUS

LEMMA JoinIs ==
  ASSUME NEW a \in Seq(Nodes), NEW c \in Seq(Nodes)
  PROVE  /\ a \o c \in Seq(Nodes)
         /\ Len(a \o c) = Len(a) + Len(c)
         /\ \A k \in 1..Len(a) : (a \o c)[k] = a[k]
         /\ \A k \in 1..Len(c) : (a \o c)[Len(a) + k] = c[k]
<1>1. a \o c \in Seq(Nodes)
  OBVIOUS
<1>2. Len(a \o c) = Len(a) + Len(c)
  OBVIOUS
<1>3. \A k \in 1..Len(a) : (a \o c)[k] = a[k]
  OBVIOUS
<1>4. \A k \in 1..Len(c) : (a \o c)[Len(a) + k] = c[k]
  OBVIOUS
<1> QED
  BY <1>1, <1>2, <1>3, <1>4

LEMMA InsertAtIs ==
  ASSUME NEW n \in Nat, NEW s \in [1..n -> Nodes], NEW i \in 1..(n + 1), NEW x \in Nodes
  PROVE  List!Shown!InsertAt(s, i, x) = With(s, n, i, x)
<1> DEFINE a == SubSeq(s, 1, i - 1)
           b == <<x>>
           c == SubSeq(s, i, n)
           r == (a \o b) \o c
           t == With(s, n, i, x)
<1>1. s \in Seq(Nodes) /\ Len(s) = n
  BY IsSeq
<1>2. List!Shown!InsertAt(s, i, x) = r
  BY <1>1 DEF List!Shown!InsertAt
<1>3. a \in Seq(Nodes) /\ Len(a) = i - 1 /\ \A k \in 1..(i - 1) : a[k] = s[k]
  BY <1>1
<1>4. b \in Seq(Nodes) /\ Len(b) = 1 /\ b[1] = x
  OBVIOUS
<1>5. c \in Seq(Nodes) /\ Len(c) = n + 1 - i /\ \A k \in 1..(n + 1 - i) : c[k] = s[k + i - 1]
  BY <1>1
<1> HIDE DEF a, b, c
<1> DEFINE d == a \o b
<1>a. /\ d \in Seq(Nodes) /\ Len(d) = Len(a) + Len(b)
      /\ \A k \in 1..Len(a) : d[k] = a[k]
      /\ \A k \in 1..Len(b) : d[Len(a) + k] = b[k]
  BY <1>3, <1>4, JoinIs
<1> HIDE DEF d
<1>6. d \in Seq(Nodes) /\ Len(d) = i
  BY <1>3, <1>4, <1>a
<1>7. ASSUME NEW k \in 1..i PROVE d[k] = IF k < i THEN s[k] ELSE x
  <2>1. CASE k < i
    BY <1>3, <1>a, <2>1
  <2>2. CASE k = i
    <3>1. 1 \in 1..Len(b) /\ k = Len(a) + 1
      BY <1>3, <1>4, <2>2
    <3> QED
      BY <1>4, <1>a, <2>2, <3>1
  <2> QED
    BY <2>1, <2>2
<1> DEFINE q == d \o c
<1>b. /\ q \in Seq(Nodes) /\ Len(q) = Len(d) + Len(c)
      /\ \A k \in 1..Len(d) : q[k] = d[k]
      /\ \A k \in 1..Len(c) : q[Len(d) + k] = c[k]
  BY <1>5, <1>6, JoinIs
<1>11. r = q
  BY DEF d
<1> HIDE DEF q
<1>8. q \in Seq(Nodes) /\ Len(q) = n + 1
  BY <1>5, <1>6, <1>b
<1>9. ASSUME NEW k \in 1..(n + 1) PROVE q[k] = t[k]
  <2>1. t[k] = IF k < i THEN s[k] ELSE IF k = i THEN x ELSE s[k - 1]
    BY DEF With
  <2> HIDE DEF t
  <2>2. CASE k <= i
    <3>1. q[k] = d[k]
      BY <1>6, <1>b, <2>2
    <3> QED
      BY <1>7, <2>1, <2>2, <3>1
  <2>3. CASE k > i
    <3>2. k - i \in 1..(n + 1 - i) /\ (k - i) + i - 1 = k - 1 /\ i + (k - i) = k
      BY <2>3
    <3>1. q[k] = c[k - i]
      BY <1>5, <1>6, <1>b, <3>2
    <3>3. c[k - i] = s[k - 1]
      BY <1>5, <3>2
    <3> QED
      BY <2>1, <2>3, <3>1, <3>3
  <2> QED
    BY <2>2, <2>3
<1>10. t \in Seq(Nodes) /\ Len(t) = n + 1
  <2>1. t \in [1..(n + 1) -> Nodes]
    BY DEF With
  <2> HIDE DEF t
  <2> QED
    BY <2>1, IsSeq
<1> HIDE DEF t, r
<1> QED
  BY <1>2, <1>8, <1>9, <1>10, <1>11 DEF t

LEMMA RemoveAtIs ==
  ASSUME NEW n \in Nat, NEW s \in [1..n -> Nodes], NEW i \in 1..n
  PROVE  List!Shown!RemoveAt(s, i) = Without(s, n, i)
<1> DEFINE a == SubSeq(s, 1, i - 1)
           c == SubSeq(s, i + 1, n)
           q == a \o c
           t == Without(s, n, i)
<1>1. s \in Seq(Nodes) /\ Len(s) = n
  BY IsSeq
<1>2. List!Shown!RemoveAt(s, i) = q
  BY <1>1 DEF List!Shown!RemoveAt
<1>3. a \in Seq(Nodes) /\ Len(a) = i - 1 /\ \A k \in 1..(i - 1) : a[k] = s[k]
  BY <1>1
<1>4. c \in Seq(Nodes) /\ Len(c) = n - i /\ \A k \in 1..(n - i) : c[k] = s[k + i]
  BY <1>1
<1> HIDE DEF a, c
<1>a. /\ q \in Seq(Nodes) /\ Len(q) = Len(a) + Len(c)
      /\ \A k \in 1..Len(a) : q[k] = a[k]
      /\ \A k \in 1..Len(c) : q[Len(a) + k] = c[k]
  BY <1>3, <1>4, JoinIs
<1> HIDE DEF q
<1>5. q \in Seq(Nodes) /\ Len(q) = n - 1
  BY <1>3, <1>4, <1>a
<1>6. ASSUME NEW k \in 1..(n - 1) PROVE q[k] = t[k]
  <2>1. t[k] = IF k < i THEN s[k] ELSE s[k + 1]
    BY DEF Without
  <2> HIDE DEF t
  <2>2. CASE k < i
    <3>1. q[k] = a[k]
      BY <1>3, <1>a, <2>2
    <3> QED
      BY <1>3, <2>1, <2>2, <3>1
  <2>3. CASE ~(k < i)
    <3>2. k - (i - 1) \in 1..(n - i) /\ k - (i - 1) + i = k + 1 /\ (i - 1) + (k - (i - 1)) = k
      BY <2>3
    <3>1. q[k] = c[k - (i - 1)]
      BY <1>3, <1>4, <1>a, <3>2
    <3>3. c[k - (i - 1)] = s[k + 1]
      BY <1>4, <3>2
    <3> QED
      BY <2>1, <2>3, <3>1, <3>3
  <2> QED
    BY <2>2, <2>3
<1>7. t \in Seq(Nodes) /\ Len(t) = n - 1
  <2>1. t \in [1..(n - 1) -> Nodes] /\ n - 1 \in Nat
    BY DEF Without
  <2> HIDE DEF t
  <2> QED
    BY <2>1, IsSeq
<1> HIDE DEF t
<1> QED
  BY <1>2, <1>5, <1>6, <1>7 DEF t

LEMMA FromIs ==
  ASSUME NEW n \in Nat, NEW s \in [1..n -> Nodes], NEW j \in 1..n
  PROVE  List!Shown!From(s, j) = Turned(s, n, j)
<1> DEFINE a == SubSeq(s, j, n)
           c == SubSeq(s, 1, j - 1)
           q == a \o c
           t == Turned(s, n, j)
<1>1. s \in Seq(Nodes) /\ Len(s) = n
  BY IsSeq
<1>2. List!Shown!From(s, j) = q
  BY <1>1 DEF List!Shown!From
<1>3. a \in Seq(Nodes) /\ Len(a) = n + 1 - j /\ \A k \in 1..(n + 1 - j) : a[k] = s[k + j - 1]
  BY <1>1
<1>4. c \in Seq(Nodes) /\ Len(c) = j - 1 /\ \A k \in 1..(j - 1) : c[k] = s[k]
  BY <1>1
<1> HIDE DEF a, c
<1>a. /\ q \in Seq(Nodes) /\ Len(q) = Len(a) + Len(c)
      /\ \A k \in 1..Len(a) : q[k] = a[k]
      /\ \A k \in 1..Len(c) : q[Len(a) + k] = c[k]
  BY <1>3, <1>4, JoinIs
<1> HIDE DEF q
<1>5. q \in Seq(Nodes) /\ Len(q) = n
  BY <1>3, <1>4, <1>a
<1>6. ASSUME NEW k \in 1..n PROVE q[k] = t[k]
  <2>1. t[k] = IF k + j - 1 <= n THEN s[k + j - 1] ELSE s[k + j - 1 - n]
    BY DEF Turned
  <2> HIDE DEF t
  <2>2. CASE k + j - 1 <= n
    <3>1. k \in 1..(n + 1 - j)
      BY <2>2
    <3>2. q[k] = a[k]
      BY <1>3, <1>a, <3>1
    <3> QED
      BY <1>3, <2>1, <2>2, <3>1, <3>2
  <2>3. CASE ~(k + j - 1 <= n)
    <3>1. /\ k - (n + 1 - j) \in 1..(j - 1) /\ k - (n + 1 - j) = k + j - 1 - n
          /\ (n + 1 - j) + (k - (n + 1 - j)) = k
      BY <2>3
    <3>2. q[k] = c[k - (n + 1 - j)]
      BY <1>3, <1>4, <1>a, <3>1
    <3>3. c[k - (n + 1 - j)] = s[k + j - 1 - n]
      BY <1>4, <3>1
    <3> QED
      BY <2>1, <2>3, <3>2, <3>3
  <2> QED
    BY <2>2, <2>3
<1>7. t \in Seq(Nodes) /\ Len(t) = n
  <2>1. t \in [1..n -> Nodes]
    BY DEF Turned
  <2> HIDE DEF t
  <2> QED
    BY <2>1, IsSeq
<1> HIDE DEF t
<1> QED
  BY <1>2, <1>5, <1>6, <1>7 DEF t

LEMMA ExchangedIs ==
  ASSUME NEW s, NEW i, NEW j
  PROVE  List!Shown!Exchanged(s, i, j) = Exchange(s, i, j)
  BY DEF List!Shown!Exchanged, Exchange
-----------------------------------------------------------------------------
(* Until swap tears it, the list is whole. *)
LInv ==
  /\ List!TypeOK
  /\ torn => \E n, u : Ended(u, n)
  /\ ~torn => \E n, s : Sound(s, n)

LEMMA ShownNow ==
  ASSUME Linked, NEW n, NEW s, Sound(s, n)
  PROVE  /\ n \in Nat /\ s \in [1..n -> Nodes] /\ Distinct(s, n) /\ Seen(s, n)
         /\ List!print_list = s /\ Len(s) = n /\ list = IF n = 0 THEN NULL ELSE s[1]
<1>1. n \in Nat /\ s \in [1..n -> Nodes] /\ Distinct(s, n) /\ list = IF n = 0 THEN NULL ELSE s[1]
  BY DEF Sound, Whole
<1>2. Seen(s, n)
  BY WholeIsSeen DEF AllSeen, Linked, Sound
<1>3. Len(s) = n
  BY <1>1, IsSeq
<1>4. List!print_list = s
  BY <1>2 DEF Seen
<1> QED
  BY <1>1, <1>2, <1>3, <1>4

LEMMA ShownThen ==
  ASSUME Linked', held' \in Nodes \union {NULL}, torn' = FALSE, NEW n, NEW s, Sound(s, n)'
  PROVE  LInv' /\ List!print_list' = s
<1>1. AllSeen'
  BY WholeIsSeen, PTL
<1>2. Whole(s, n)'
  BY DEF Sound
<1>3. Seen(s, n)'
  BY <1>1, <1>2 DEF AllSeen, Linked
<1>4. List!print_list' = s
  BY <1>3 DEF Seen
<1>5. n \in Nat /\ s \in [1..n -> Nodes] /\ list' = IF n = 0 THEN NULL ELSE s[1]
  BY <1>2 DEF Whole
<1>6. list' \in Nodes \union {NULL}
  BY <1>5
<1>7. Elements(s, n) \subseteq Nodes
  BY <1>5 DEF Elements
<1>8. live' \subseteq Nodes
  <2>1. live' = Elements(s, n) \union ({held'} \ {NULL})
    BY DEF Sound, Elements
  <2> QED
    BY <1>7, <2>1
<1>9. List!TypeOK'
  BY <1>6, <1>8 DEF List!TypeOK, Linked, Links
<1>10. \E m, t : Sound(t, m)'
  OBVIOUS
<1> QED
  BY <1>4, <1>9, <1>10 DEF LInv

LEMMA TypeIs == LInv => Linked /\ held \in Nodes \union {NULL} /\ torn \in BOOLEAN
  BY DEF LInv, List!TypeOK, Linked, Links

LEMMA Inserts ==
  ASSUME LInv, NEW n, NEW s, Sound(s, n), NEW x, List!malloc(x), NEW i \in 1..(n + 1),
         List!add_node_before(Spot(s, n, i), x), list' = IF i = 1 THEN x ELSE list
  PROVE  LInv' /\ List!Shown!Insert(i)
<1> DEFINE t == With(s, n, i, x)
<1>1. Linked /\ held \in Nodes \union {NULL}
  BY TypeIs
<1>2. Sound(t, n + 1)' /\ Linked'
  BY <1>1, InsertStep
<1>3. /\ x \in Nodes /\ x \notin live /\ held' = held /\ torn' = torn /\ ~torn
  BY DEF List!malloc
<1>4. torn' = FALSE
  BY <1>3, TypeIs
<1> HIDE DEF t
<1>5. LInv' /\ List!print_list' = t
  BY <1>1, <1>2, <1>3, <1>4, ShownThen
<1>6. n \in Nat /\ s \in [1..n -> Nodes] /\ List!print_list = s /\ Len(s) = n
  BY <1>1, ShownNow
<1>7. List!Shown!InsertAt(s, i, x) = t
  BY <1>3, <1>6, InsertAtIs DEF t
<1>8. List!Shown!ToSet(s) = Elements(s, n)
  <2>1. DOMAIN s = 1..n
    BY <1>6
  <2> QED
    BY <2>1 DEF List!Shown!ToSet, Elements
<1>9. x \notin Elements(s, n) /\ x # held
  BY <1>3, NodesAssumption DEF Sound
<1>10. List!Shown!Insert(i)
  BY <1>3, <1>5, <1>6, <1>7, <1>8, <1>9 DEF List!Shown!Insert
<1> QED
  BY <1>5, <1>10

LEMMA Takes ==
  ASSUME LInv, NEW n, NEW s, Sound(s, n), NEW i \in 1..n, List!TakeOut(s[i]),
         list' = IF n = 1 THEN NULL ELSE IF i = 1 THEN s[2] ELSE list
  PROVE  LInv' /\ List!Shown!Take(i)
<1> DEFINE t == Without(s, n, i)
<1>1. Linked /\ held \in Nodes \union {NULL}
  BY TypeIs
<1>2. Sound(t, n - 1)' /\ Linked'
  BY <1>1, RemoveStep
<1>3. held = NULL /\ held' = s[i] /\ torn' = torn /\ ~torn
  BY DEF List!TakeOut
<1>4. torn' = FALSE
  BY <1>3, TypeIs
<1>5. n \in Nat /\ s \in [1..n -> Nodes] /\ List!print_list = s /\ Len(s) = n
  BY <1>1, ShownNow
<1>6. held' \in Nodes \union {NULL}
  BY <1>3, <1>5
<1> HIDE DEF t
<1>7. LInv' /\ List!print_list' = t
  BY <1>2, <1>4, <1>6, ShownThen
<1>8. List!Shown!RemoveAt(s, i) = t
  BY <1>5, RemoveAtIs DEF t
<1>9. s # <<>>
  BY <1>5
<1>10. List!Shown!Take(i)
  BY <1>3, <1>5, <1>7, <1>8, <1>9 DEF List!Shown!Take
<1> QED
  BY <1>7, <1>10
-----------------------------------------------------------------------------
(* Every function of list.c. *)

(* A step keeps the list whole and is one of the steps that Ring promises, *)
(* or it tears the list.                                                   *)
Follows == LInv' /\ (torn' \/ List!Shown!Next)

LEMMA PlacesAre ==
  ASSUME NEW n, NEW s, n \in Nat, List!print_list = s, Len(s) = n
  PROVE  List!Shown!Places = 1..n
  BY DEF List!Shown!Places

LEMMA PushBackStep ==
  ASSUME LInv, NEW n, NEW s, Sound(s, n), NEW x, List!push_back(x)
  PROVE  Follows
<1>1. n \in Nat /\ List!print_list = s /\ Len(s) = n /\ list = IF n = 0 THEN NULL ELSE s[1]
  BY ShownNow, TypeIs
<1>2. s \in [1..n -> Nodes]
  BY ShownNow, TypeIs
<1>3. list = NULL <=> n = 0
  <2>1. CASE n = 0
    BY <1>1, <2>1
  <2>2. CASE n # 0
    <3>1. s[1] \in Nodes
      BY <1>1, <1>2, <2>2
    <3> QED
      BY <1>1, <2>2, <3>1, NodesAssumption
  <2> QED
    BY <2>1, <2>2
<1>4. n + 1 \in 1..(n + 1) /\ (n + 1 = 1 <=> n = 0) /\ n + 1 > n
  BY <1>1
<1>5. Spot(s, n, n + 1) = list
  BY <1>1, <1>4 DEF Spot
<1>6. /\ List!malloc(x) /\ List!add_node_before(Spot(s, n, n + 1), x)
      /\ list' = IF n + 1 = 1 THEN x ELSE list
  BY <1>3, <1>4, <1>5 DEF List!push_back
<1>7. LInv' /\ List!Shown!Insert(n + 1)
  BY <1>4, <1>6, Inserts
<1>8. List!Shown!Next
  BY <1>1, <1>7 DEF List!Shown!Next, List!push_back
<1> QED
  BY <1>7, <1>8 DEF Follows

LEMMA PushFrontStep ==
  ASSUME LInv, NEW n, NEW s, Sound(s, n), NEW x, List!PushFront(x)
  PROVE  LInv' /\ List!Shown!Insert(1)
<1>1. n \in Nat /\ list = IF n = 0 THEN NULL ELSE s[1]
  BY ShownNow, TypeIs
<1>2. 1 \in 1..(n + 1) /\ (n # 0 => ~(1 > n))
  BY <1>1
<1>3. Spot(s, n, 1) = list
  BY <1>1, <1>2 DEF Spot
<1>4. /\ List!malloc(x) /\ List!add_node_before(Spot(s, n, 1), x)
      /\ list' = IF 1 = 1 THEN x ELSE list
  BY <1>3 DEF List!PushFront
<1> QED
  BY <1>2, <1>4, Inserts

LEMMA PushIndexStep ==
  ASSUME LInv, NEW n, NEW s, Sound(s, n), NEW x, NEW i \in Nat, List!push_index(i, x)
  PROVE  Follows
<1>1. n \in Nat /\ List!print_list = s /\ Len(s) = n /\ list = IF n = 0 THEN NULL ELSE s[1]
  BY ShownNow, TypeIs
<1>2. call' = <<"push_index", i>>
  BY DEF List!push_index
<1>3. List!Shown!Places = 1..n
  BY <1>1, PlacesAre
<1>4. CASE i = 0
  <2>1. List!PushFront(x)
    BY <1>4 DEF List!push_index
  <2>2. LInv' /\ List!Shown!Insert(1)
    BY <2>1, PushFrontStep
  <2>3. 1 \in (1..n) \union {n + 1} /\ 1 - 1 = i
    BY <1>1, <1>4
  <2>4. List!Shown!Next
    BY <1>1, <1>2, <1>3, <2>2, <2>3 DEF List!Shown!Next
  <2> QED
    BY <2>2, <2>4 DEF Follows
<1>5. CASE i # 0
  <2>1. /\ list # NULL /\ i <= List!Turns /\ List!malloc(x)
        /\ List!add_node_before(List!NextFrom[i], x) /\ list' = list
    BY <1>5 DEF List!push_index
  <2>2. Seen(s, n)
    BY ShownNow, TypeIs
  <2>3. i <= n /\ n # 0
    BY <1>1, <2>1, <2>2 DEF Seen
  <2>4. i + 1 \in 1..(n + 1) /\ i + 1 # 1 /\ i + 1 \in (1..n) \union {n + 1} /\ (i + 1) - 1 = i
    BY <1>1, <1>5, <2>3
  <2>5. List!NextFrom[i] = Spot(s, n, i + 1)
    <3>1. CASE i = n
      <4>1. List!NextFrom[i] = s[1]
        BY <1>1, <2>2, <2>3, <3>1 DEF Seen
      <4>2. i + 1 > n
        BY <1>1, <3>1
      <4> QED
        BY <2>3, <4>1, <4>2 DEF Spot
    <3>2. CASE i # n
      <4>1. i \in 0..(n - 1) /\ ~(i + 1 > n)
        BY <1>1, <2>3, <3>2
      <4>2. List!NextFrom[i] = s[i + 1]
        BY <2>2, <4>1 DEF Seen
      <4> QED
        BY <2>3, <4>1, <4>2 DEF Spot
    <3> QED
      BY <3>1, <3>2
  <2>6. /\ List!add_node_before(Spot(s, n, i + 1), x)
        /\ list' = IF i + 1 = 1 THEN x ELSE list
    BY <2>1, <2>4, <2>5
  <2>7. LInv' /\ List!Shown!Insert(i + 1)
    BY <2>1, <2>4, <2>6, Inserts
  <2>8. List!Shown!Next
    BY <1>1, <1>2, <1>3, <2>4, <2>7 DEF List!Shown!Next
  <2> QED
    BY <2>7, <2>8 DEF Follows
<1> QED
  BY <1>4, <1>5

(* The links around the head, and of the one node that is left. *)
LEMMA Ends ==
  ASSUME LInv, NEW n, NEW s, Sound(s, n), list # NULL
  PROVE  /\ n \in Nat /\ n # 0 /\ 1 \in 1..n /\ n \in 1..n /\ list = s[1]
         /\ prev[list] = s[n] /\ prev[next[list]] = list
         /\ n # 1 => next[list] = s[2]
         /\ \A k \in 1..n : next[s[k]] = s[k] <=> n = 1
         /\ \A k \in 1..n : s[k] = s[1] <=> k = 1
<1>1. n \in Nat /\ s \in [1..n -> Nodes] /\ Distinct(s, n) /\ list = IF n = 0 THEN NULL ELSE s[1]
  BY ShownNow, TypeIs
<1>2. \A k \in 1..n : next[s[k]] = s[After(k, n)] /\ prev[s[After(k, n)]] = s[k]
  BY DEF Sound, Whole, Circle
<1>3. n # 0 /\ 1 \in 1..n /\ n \in 1..n /\ list = s[1]
  BY <1>1
<1>4. prev[list] = s[n]
  <2>1. After(n, n) = 1
    BY DEF After
  <2> QED
    BY <1>2, <1>3, <2>1
<1>5. prev[next[list]] = list
  BY <1>2, <1>3
<1>6. n # 1 => next[list] = s[2]
  <2>1. n # 1 => After(1, n) = 2
    BY DEF After
  <2> QED
    BY <1>2, <1>3, <2>1
<1>7. ASSUME NEW k \in 1..n PROVE next[s[k]] = s[k] <=> n = 1
  <2>1. After(k, n) \in 1..n /\ (n > 1 => After(k, n) # k)
    BY <1>1, AfterIs
  <2>2. s[After(k, n)] = s[k] <=> After(k, n) = k
    BY <1>1, <2>1 DEF Distinct
  <2>3. n = 1 => After(k, n) = k
    BY <1>1 DEF After
  <2>4. After(k, n) = k <=> n = 1
    BY <1>1, <1>3, <2>1, <2>3
  <2> QED
    BY <1>2, <2>2, <2>4
<1>8. \A k \in 1..n : s[k] = s[1] <=> k = 1
  BY <1>1, <1>3 DEF Distinct
<1> QED
  BY <1>1, <1>3, <1>4, <1>5, <1>6, <1>7, <1>8

LEMMA HeadStep ==
  ASSUME LInv, NEW n, NEW s, Sound(s, n), list # NULL, List!TakeOut(list),
         list' = IF next[list] = list THEN NULL ELSE next[list],
         call' \in {<<"pop_front">>, <<"extract_node">>}
  PROVE  Follows
<1>1. /\ n # 0 /\ 1 \in 1..n /\ list = s[1] /\ (n # 1 => next[list] = s[2])
      /\ (next[list] = list <=> n = 1)
  BY Ends
<1>2. List!TakeOut(s[1]) /\ list' = IF n = 1 THEN NULL ELSE IF 1 = 1 THEN s[2] ELSE list
  BY <1>1
<1>3. LInv' /\ List!Shown!Take(1)
  BY <1>1, <1>2, Takes
<1>4. List!Shown!Next
  BY <1>3 DEF List!Shown!Next
<1> QED
  BY <1>3, <1>4 DEF Follows

LEMMA PopFrontStep ==
  ASSUME LInv, NEW n, NEW s, Sound(s, n), List!pop_front
  PROVE  Follows
<1>1. list # NULL /\ call' = <<"pop_front">>
  BY DEF List!pop_front
<1>2. prev[next[list]] = list
  BY <1>1, Ends
<1>3. List!TakeOut(list) /\ list' = IF next[list] = list THEN NULL ELSE next[list]
  BY <1>2 DEF List!pop_front
<1> QED
  BY <1>1, <1>3, HeadStep

LEMMA ExtractStep ==
  ASSUME LInv, NEW n, NEW s, Sound(s, n), List!extract_node
  PROVE  Follows
<1>1. /\ list # NULL /\ call' = <<"extract_node">> /\ List!TakeOut(list)
      /\ list' = IF next[list] = list THEN NULL ELSE next[list]
  BY DEF List!extract_node, List!HeadExtracted
<1> QED
  BY <1>1, HeadStep

LEMMA PopBackStep ==
  ASSUME LInv, NEW n, NEW s, Sound(s, n), List!pop_back
  PROVE  Follows
<1>1. list # NULL /\ call' = <<"pop_back">>
  BY DEF List!pop_back
<1>2. n # 0 /\ n \in 1..n /\ prev[list] = s[n] /\ (next[s[n]] = s[n] <=> n = 1)
  BY <1>1, Ends
<1>3. List!TakeOut(s[n]) /\ list' = IF n = 1 THEN NULL ELSE list
  BY <1>2 DEF List!pop_back
<1>4. list' = IF n = 1 THEN NULL ELSE IF n = 1 THEN s[2] ELSE list
  BY <1>3
<1>5. LInv' /\ List!Shown!Take(n)
  BY <1>2, <1>3, <1>4, Takes
<1>6. List!print_list = s /\ Len(s) = n
  BY ShownNow, TypeIs
<1>7. List!Shown!Next
  BY <1>1, <1>5, <1>6 DEF List!Shown!Next
<1> QED
  BY <1>5, <1>7 DEF Follows

LEMMA PopIndexStep ==
  ASSUME LInv, NEW n, NEW s, Sound(s, n), NEW i \in Nat, List!pop_index(i)
  PROVE  Follows
<1>1. n \in Nat /\ List!print_list = s /\ Len(s) = n /\ Seen(s, n)
  BY ShownNow, TypeIs
<1>2. /\ list # NULL /\ List!find_index(i) # NULL /\ call' = <<"pop_index", i>>
      /\ List!TakeOut(List!find_index(i))
      /\ list' = IF List!find_index(i) = list
                 THEN IF next[list] = list THEN NULL ELSE next[list] ELSE list
  BY DEF List!pop_index, List!HeadExtracted
<1>3. i < n
  BY <1>1, <1>2 DEF List!find_index, Seen
<1>4. i + 1 \in 1..n /\ (i + 1) - 1 = i /\ i \in 0..(n - 1)
  BY <1>1, <1>3
<1>5. List!find_index(i) = s[i + 1]
  BY <1>1, <1>3, <1>4 DEF List!find_index, Seen
<1>6. /\ n # 0 /\ list = s[1] /\ (n # 1 => next[list] = s[2])
      /\ (next[s[1]] = s[1] <=> n = 1) /\ (s[i + 1] = s[1] <=> i + 1 = 1)
  BY <1>2, <1>4, Ends
<1>7. list' = IF n = 1 THEN NULL ELSE IF i + 1 = 1 THEN s[2] ELSE list
  <2>1. n = 1 => i + 1 = 1
    BY <1>4
  <2> QED
    BY <1>2, <1>5, <1>6, <2>1
<1>8. List!TakeOut(s[i + 1])
  BY <1>2, <1>5
<1>9. LInv' /\ List!Shown!Take(i + 1)
  BY <1>4, <1>7, <1>8, Takes
<1>10. List!Shown!Places = 1..n
  BY <1>1, PlacesAre
<1>11. List!Shown!Next
  BY <1>2, <1>4, <1>9, <1>10 DEF List!Shown!Next
<1> QED
  BY <1>9, <1>11 DEF Follows


LEMMA FreeStep ==
  ASSUME LInv, NEW n, NEW s, Sound(s, n), ~torn, List!free_if_not_null
  PROVE  Follows
<1>1. /\ held # NULL /\ call' = <<"free">> /\ held' = NULL /\ live' = live \ {held}
      /\ next' = next /\ prev' = prev /\ list' = list /\ torn' = torn
  BY DEF List!free_if_not_null
<1>2. n \in Nat /\ s \in [1..n -> Nodes] /\ List!print_list = s
  BY ShownNow, TypeIs
<1>3. Elements(s, n) \subseteq Nodes
  BY <1>2 DEF Elements
<1>4. Whole(s, n)'
  BY <1>1 DEF Sound, Whole, Circle
<1>5. live' = Elements(s, n) /\ NULL \notin Elements(s, n)
  BY <1>1, <1>3, NodesAssumption DEF Sound
<1>6. Sound(s, n)'
  BY <1>1, <1>4, <1>5 DEF Sound, Elements
<1>7. Linked' /\ torn' = FALSE
  BY <1>1, TypeIs DEF Linked
<1>8. LInv' /\ List!print_list' = s
  BY <1>1, <1>6, <1>7, ShownThen
<1>9. List!Shown!Next
  BY <1>1, <1>2, <1>8 DEF List!Shown!Next
<1> QED
  BY <1>8, <1>9 DEF Follows

LEMMA DeleteStep ==
  ASSUME LInv, NEW n, NEW s, Sound(s, n), List!delete_list
  PROVE  Follows
<1>1. /\ ~torn /\ list # NULL /\ call' = <<"delete_list">> /\ live' = live \ List!InList
      /\ list' = NULL /\ next' = next /\ prev' = prev /\ held' = held /\ torn' = torn
  BY DEF List!delete_list, List!Deleted
<1>2. n \in Nat /\ s \in [1..n -> Nodes] /\ List!print_list = s /\ Seen(s, n)
      /\ list = IF n = 0 THEN NULL ELSE s[1]
  BY ShownNow, TypeIs
<1>3. List!InList = Elements(s, n)
  BY <1>2 DEF Seen
<1>4. live' = {held'} \ {NULL}
  BY <1>1, <1>3 DEF Sound
<1>5. Whole(<<>>, 0)'
  <2>1. <<>> \in [1..0 -> Nodes]
    OBVIOUS
  <2>2. Distinct(<<>>, 0)
    BY DEF Distinct
  <2>3. Circle(next', prev', <<>>, 0)
    BY DEF Circle
  <2> QED
    BY <1>1, <2>1, <2>2, <2>3 DEF Whole
<1>6. Elements(<<>>, 0) = {}
  BY DEF Elements
<1>7. Sound(<<>>, 0)'
  BY <1>4, <1>5, <1>6 DEF Sound, Elements
<1>8. Linked' /\ torn' = FALSE /\ held' \in Nodes \union {NULL}
  BY <1>1, TypeIs DEF Linked
<1>9. LInv' /\ List!print_list' = <<>>
  BY <1>7, <1>8, ShownThen
<1>10. s # <<>>
  BY <1>1, <1>2
<1>11. List!Shown!Next
  BY <1>1, <1>2, <1>9, <1>10 DEF List!Shown!Next
<1> QED
  BY <1>9, <1>11 DEF Follows

LEMMA SwapsStep ==
  ASSUME LInv, NEW n, NEW s, Sound(s, n), NEW a, NEW b, List!swap(a, b)
  PROVE  Follows
<1>1. /\ ~torn /\ a \in List!InList /\ b \in List!InList /\ call' = <<"swap">>
      /\ List!Swapped(a, b) /\ torn' = (a # b /\ prev[a] = b)
      /\ live' = live /\ held' = held
  BY DEF List!swap
<1>2. \/ list' = list
      \/ list = a /\ list' = b
      \/ list = b /\ list' = a
  BY DEF List!swap
<1>3. /\ n \in Nat /\ s \in [1..n -> Nodes] /\ List!print_list = s /\ Seen(s, n) /\ Len(s) = n
      /\ Distinct(s, n)
  BY ShownNow, TypeIs
<1>4. List!InList = Elements(s, n)
  BY <1>3 DEF Seen
<1>5. PICK i \in 1..n : a = s[i]
  BY <1>1, <1>4 DEF Elements
<1>6. PICK j \in 1..n : b = s[j]
  BY <1>1, <1>4 DEF Elements
<1>7. Linked
  BY TypeIs
<1>8. List!Swapped(s[i], s[j])
  BY <1>1, <1>5, <1>6
<1>9. \/ list' = list
      \/ list = s[i] /\ list' = s[j]
      \/ list = s[j] /\ list' = s[i]
  BY <1>2, <1>5, <1>6
<1>10. CASE a # b /\ prev[a] = b
  <2>1. s[i] # s[j] /\ prev[s[i]] = s[j]
    BY <1>5, <1>6, <1>10
  <2>2. Linked' /\ \E u : Ended(u, n)'
    BY <1>7, <1>8, <1>9, <2>1, TearStep
  <2>3. torn' = TRUE
    BY <1>1, <1>10
  <2>4. PICK u : Ended(u, n)'
    BY <2>2
  <2>5. list' \in Nodes
    BY <2>4 DEF Ended, Elements
  <2>6. List!TypeOK'
    BY <1>1, <2>2, <2>3, <2>5 DEF LInv, List!TypeOK, Linked, Links
  <2>7. LInv'
    BY <2>3, <2>4, <2>6 DEF LInv
  <2> QED
    BY <2>3, <2>7 DEF Follows
<1>11. CASE ~(a # b /\ prev[a] = b)
  <2>1. ~(s[i] # s[j] /\ prev[s[i]] = s[j])
    BY <1>5, <1>6, <1>11
  <2>2. UNCHANGED <<live, held>>
    BY <1>1
  <2>3. /\ Linked'
        /\ \/ Sound(Exchange(s, i, j), n)'
           \/ i = 1 /\ Sound(Turned(Exchange(s, i, j), n, j), n)'
           \/ j = 1 /\ Sound(Turned(Exchange(s, j, i), n, i), n)'
    BY <1>7, <1>8, <1>9, <2>1, <2>2, SwapStep
  <2>4. torn' = FALSE /\ held' \in Nodes \union {NULL}
    BY <1>1, <1>11, TypeIs
  <2>5. List!Shown!Places = 1..n
    BY <1>3, PlacesAre
  <2>6. ASSUME NEW k \in 1..n, NEW l \in 1..n, List!Shown!Exchange(k, l)
        PROVE  List!Shown!Next
    BY <1>1, <2>5, <2>6 DEF List!Shown!Next
  <2>7. \A k \in 1..n, l \in 1..n : Exchange(s, k, l) \in [1..n -> Nodes]
    BY <1>3, ExchangeIs
  <2>8. CASE Sound(Exchange(s, i, j), n)'
    <3>1. LInv' /\ List!print_list' = Exchange(s, i, j)
      BY <2>3, <2>4, <2>8, ShownThen
    <3>2. List!Shown!Exchange(i, j)
      BY <1>1, <1>3, <3>1, ExchangedIs DEF List!Shown!Exchange
    <3> QED
      BY <2>6, <3>1, <3>2 DEF Follows
  <2>9. CASE i = 1 /\ Sound(Turned(Exchange(s, i, j), n, j), n)'
    <3>1. LInv' /\ List!print_list' = Turned(Exchange(s, i, j), n, j)
      BY <2>3, <2>4, <2>9, ShownThen
    <3>2. List!Shown!From(Exchange(s, i, j), j) = Turned(Exchange(s, i, j), n, j)
      BY <1>3, <2>7, FromIs
    <3>3. List!Shown!Exchange(i, j)
      BY <1>1, <1>3, <2>9, <3>1, <3>2, ExchangedIs DEF List!Shown!Exchange
    <3> QED
      BY <2>6, <3>1, <3>3 DEF Follows
  <2>10. CASE j = 1 /\ Sound(Turned(Exchange(s, j, i), n, i), n)'
    <3>1. LInv' /\ List!print_list' = Turned(Exchange(s, j, i), n, i)
      BY <2>3, <2>4, <2>10, ShownThen
    <3>2. List!Shown!From(Exchange(s, j, i), i) = Turned(Exchange(s, j, i), n, i)
      BY <1>3, <2>7, FromIs
    <3>3. List!Shown!Exchange(j, i)
      BY <1>1, <1>3, <2>10, <3>1, <3>2, ExchangedIs DEF List!Shown!Exchange
    <3> QED
      BY <2>6, <3>1, <3>3 DEF Follows
  <2> QED
    BY <2>3, <2>8, <2>9, <2>10
<1> QED
  BY <1>10, <1>11

(* A torn list is left as it is. *)
LEMMA TornStep ==
  ASSUME LInv, torn, List!Next
  PROVE  Follows
<1>1. List!free_if_not_null \/ List!Hang
  BY DEF List!Next, List!push_back, List!push_front, List!push_index, List!PushFront,
         List!malloc, List!extract_node, List!pop_back, List!pop_front, List!pop_index,
         List!TakeOut, List!delete_list, List!swap
<1>2. next' = next /\ prev' = prev /\ list' = list /\ torn' = torn
  BY <1>1 DEF List!free_if_not_null, List!Hang, List!vars
<1>3. live' \subseteq Nodes /\ held' \in Nodes \union {NULL}
  BY <1>1 DEF List!free_if_not_null, List!Hang, List!vars, LInv, List!TypeOK
<1>4. List!TypeOK'
  BY <1>2, <1>3 DEF LInv, List!TypeOK
<1>5. PICK n, u : Ended(u, n)
  BY DEF LInv
<1>6. Ended(u, n)'
  BY <1>2, <1>5 DEF Ended, Dead, Elements
<1>7. LInv'
  BY <1>2, <1>4, <1>6 DEF LInv
<1> QED
  BY <1>2, <1>7 DEF Follows

LEMMA ListStep ==
  ASSUME LInv, List!Next
  PROVE  Follows
<1>1. CASE torn
  BY <1>1, TornStep
<1>2. CASE ~torn
  <2>1. PICK n, s : Sound(s, n)
    BY <1>2 DEF LInv
  <2>2. ASSUME NEW x \in Nodes, List!push_back(x) PROVE Follows
    BY <2>1, <2>2, PushBackStep
  <2>3. ASSUME NEW x \in Nodes, List!push_front(x) PROVE Follows
    <3>1. List!PushFront(x) /\ call' = <<"push_front">>
      BY <2>3 DEF List!push_front
    <3>2. LInv' /\ List!Shown!Insert(1)
      BY <2>1, <3>1, PushFrontStep
    <3>3. List!Shown!Next
      BY <3>1, <3>2 DEF List!Shown!Next
    <3> QED
      BY <3>2, <3>3 DEF Follows
  <2>4. List!Index \subseteq Nat
    <3>1. List!Cardinality(Nodes) = Cardinality(Nodes)
      BY DEF List!Cardinality, Cardinality
    <3>2. Cardinality(Nodes) \in Nat
      BY NodesAssumption, FS_CardinalityType
    <3> QED
      BY <3>1, <3>2 DEF List!Index
  <2>5. ASSUME NEW x \in Nodes, NEW i \in List!Index, List!push_index(i, x) PROVE Follows
    BY <2>1, <2>4, <2>5, PushIndexStep
  <2>6. CASE List!extract_node
    BY <2>1, <2>6, ExtractStep
  <2>7. CASE List!pop_back
    BY <2>1, <2>7, PopBackStep
  <2>8. CASE List!pop_front
    BY <2>1, <2>8, PopFrontStep
  <2>9. ASSUME NEW i \in List!Index, List!pop_index(i) PROVE Follows
    BY <2>1, <2>4, <2>9, PopIndexStep
  <2>10. CASE List!free_if_not_null
    BY <1>2, <2>1, <2>10, FreeStep
  <2>11. CASE List!delete_list
    BY <2>1, <2>11, DeleteStep
  <2>12. ASSUME NEW a \in Nodes, NEW b \in Nodes, List!swap(a, b) PROVE Follows
    BY <2>1, <2>12, SwapsStep
  <2>13. ~List!Hang
    BY <1>2 DEF List!Hang
  <2> QED
    BY <2>2, <2>3, <2>5, <2>6, <2>7, <2>8, <2>9, <2>10, <2>11, <2>12, <2>13 DEF List!Next
<1> QED
  BY <1>1, <1>2

LEMMA ListBegins ==
  ASSUME List!Init
  PROVE  LInv /\ List!Shown!Init
<1>1. /\ next = [x \in Nodes |-> x] /\ prev = [x \in Nodes |-> x]
      /\ list = NULL /\ live = {} /\ held = NULL /\ call = <<"main">> /\ torn = FALSE
  BY DEF List!Init
<1>2. Linked
  BY <1>1 DEF Linked, Links
<1>3. Whole(<<>>, 0)
  BY <1>1 DEF Whole, Distinct, Circle
<1>4. Elements(<<>>, 0) = {}
  BY DEF Elements
<1>5. Sound(<<>>, 0)
  BY <1>1, <1>3, <1>4 DEF Sound
<1>6. List!print_list = <<>>
  BY <1>2, <1>5, ShownNow
<1>7. List!TypeOK
  BY <1>1 DEF List!TypeOK
<1>8. LInv
  BY <1>1, <1>5, <1>7 DEF LInv
<1> QED
  BY <1>1, <1>6, <1>8 DEF List!Shown!Init

LEMMA ListIdles ==
  ASSUME UNCHANGED lvars
  PROVE  /\ LInv => LInv'
         /\ List!print_list' = List!print_list /\ held' = held /\ call' = call
<1>1. /\ next' = next /\ prev' = prev /\ list' = list /\ live' = live /\ held' = held
      /\ call' = call /\ torn' = torn
  BY DEF lvars
<1>2. LInv => LInv'
  BY <1>1 DEF LInv, List!TypeOK, Ended, Dead, Elements, Sound, Whole, Circle
<1>3. List!NextFrom' = List!NextFrom
  BY <1>1 DEF List!NextFrom
<1>4. List!Turns' = List!Turns
  BY <1>1, <1>3 DEF List!Turns
<1>5. List!print_list' = List!print_list
  BY <1>3, <1>4 DEF List!print_list
<1> QED
  BY <1>1, <1>2, <1>5

LEMMA ListIsWhole == LInv => List!WalksAgree /\ List!NothingLost
<1> SUFFICES ASSUME LInv PROVE List!WalksAgree /\ List!NothingLost
  OBVIOUS
<1>1. Linked /\ next \in Links /\ prev \in Links
  BY TypeIs DEF Linked
<1>2. CASE torn
  <2>1. PICK n, u : Ended(u, n)
    BY <1>2 DEF LInv
  <2>2. /\ list # NULL
        /\ ~(/\ List!Turns > 0
             /\ \A k \in 1..List!Turns :
                  List!print_list_reverse[k] = List!print_list[List!Turns + 1 - k])
    BY <1>1, <2>1, EndedDisagree
  <2> QED
    BY <1>2, <2>2 DEF List!WalksAgree, List!NothingLost
<1>3. CASE ~torn
  <2>1. PICK n, s : Sound(s, n)
    BY <1>3 DEF LInv
  <2>2. n \in Nat /\ Seen(s, n) /\ List!print_list = s /\ list = IF n = 0 THEN NULL ELSE s[1]
    BY <1>1, <2>1, ShownNow
  <2>3. List!Turns = n /\ List!InList = Elements(s, n)
    BY <2>2 DEF Seen
  <2>4. \A k \in 1..n : List!print_list_reverse[k] = s[n + 1 - k]
    BY <2>2 DEF Seen
  <2>5. list # NULL => n > 0
    BY <2>2
  <2>6. List!WalksAgree
    BY <1>3, <2>2, <2>3, <2>4, <2>5 DEF List!WalksAgree
  <2>7. List!NothingLost
    BY <2>1, <2>3 DEF List!NothingLost, Sound
  <2> QED
    BY <2>6, <2>7
<1> QED
  BY <1>2, <1>3
-----------------------------------------------------------------------------
LEMMA ProgramsStep ==
  ASSUME LInv, RInv, [ProgramNext]_<<program, bvars, lvars>>
  PROVE  /\ LInv' /\ RInv'
         /\ [torn' \/ List!Shown!Next]_<<List!print_list, held, call>>
<1>1. CASE program = "list" /\ List!Next /\ UNCHANGED <<program, bvars>>
  <2>1. Follows
    BY <1>1, ListStep
  <2>2. UNCHANGED bvars
    BY <1>1
  <2>3. RInv'
    BY <2>2, RInvKept
  <2> QED
    BY <2>1, <2>3 DEF Follows
<1>2. CASE program = "buffer" /\ BufferNext /\ UNCHANGED <<program, lvars>>
  <2>1. RInv'
    BY <1>2, RInvKept
  <2>2. UNCHANGED lvars
    BY <1>2
  <2> QED
    BY <2>1, <2>2, ListIdles
<1>3. CASE UNCHANGED <<program, bvars, lvars>>
  <2>1. UNCHANGED bvars /\ UNCHANGED lvars
    BY <1>3
  <2>2. RInv'
    BY <2>1, RInvKept
  <2> QED
    BY <2>1, <2>2, ListIdles
<1> QED
  BY <1>1, <1>2, <1>3 DEF ProgramNext

LEMMA ProgramsBegin == ProgramInit => LInv /\ RInv /\ List!Shown!Init
  BY ListBegins, RInvInit DEF ProgramInit

LEMMA ProgramsHold == ProgramSpec => [](LInv /\ RInv)
<1>1. ProgramInit => LInv /\ RInv
  BY ProgramsBegin
<1>2. LInv /\ RInv /\ [ProgramNext]_<<program, bvars, lvars>> => (LInv /\ RInv)'
  BY ProgramsStep
<1> QED
  BY <1>1, <1>2, PTL DEF ProgramSpec

(* After any sequence of calls both structures are whole, whatever their   *)
(* sizes: the indices of the buffer agree; the walks of the list come back *)
(* both ways exactly until swap is called on a node and the one right      *)
(* before it; and every allocated node is in the list or in a caller's     *)
(* hands (buffer.c:31-53, list.c:14-274).                                  *)
THEOREM StructuresAlwaysSound == ProgramSpec => []StructuresSound
<1>1. LInv /\ RInv => StructuresSound
  BY ListIsWhole DEF StructuresSound, RInv, LInv
<1> QED
  BY <1>1, ProgramsHold, PTL

(* The pointers of list.c implement a sequence, for any number of nodes:   *)
(* each function inserts, removes or exchanges what its name and its index *)
(* say, until a call of swap tears the list (list.c:14-274).               *)
THEOREM ListIsSequence == ProgramSpec => ListSpec
<1>1. ProgramInit => List!Shown!Init
  BY ProgramsBegin
<1>2. LInv /\ RInv /\ [ProgramNext]_<<program, bvars, lvars>>
        => [torn' \/ List!Shown!Next]_<<List!print_list, held, call>>
  BY ProgramsStep
<1> QED
  BY <1>1, <1>2, ProgramsHold, PTL DEF ProgramSpec, ListSpec, List!ListSpec
=============================================================================
