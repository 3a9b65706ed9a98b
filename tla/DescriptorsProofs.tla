------------------------- MODULE DescriptorsProofs -------------------------
(***************************************************************************)
(* What the shifts, masks and ranges of BitAccess compute, for words of    *)
(* every width, and what the words and tables of Descriptors hold.         *)
(***************************************************************************)
EXTENDS Descriptors, TLAPS

----------------------------------------------------------------------------
(* Shifts, by positions.                                                   *)

LEMMA InShl ==
  ASSUME NEW w, NEW k, NEW n, NEW i
  PROVE  i \in Shl(w, k, n) <=> i \in 0 .. n - 1 /\ i - k \in w
BY DEF Shl

LEMMA InShr ==
  ASSUME NEW w \in SUBSET Int, NEW k \in Int
  PROVE  /\ Shr(w, k) \subseteq Nat
         /\ \A i \in Nat : i \in Shr(w, k) <=> i + k \in w
<1>1. ASSUME NEW i \in Shr(w, k) PROVE i \in Nat /\ i + k \in w
  <2>1. PICK j \in w : j >= k /\ i = j - k
    BY <1>1 DEF Shr
  <2> QED BY <2>1
<1>2. ASSUME NEW i \in Nat, i + k \in w PROVE i \in Shr(w, k)
  <2>1. i + k \in {j \in w : j >= k} /\ i = (i + k) - k
    BY <1>2
  <2> QED BY <2>1 DEF Shr
<1> QED BY <1>1, <1>2

\* Pushing a word to the top and back keeps its low bits.
LEMMA ShlShr ==
  ASSUME NEW n \in Nat, NEW w \in Word(n), NEW k \in 0 .. n
  PROVE  Shr(Shl(w, k, n), k) = {i \in w : i < n - k}
<1>1. Shl(w, k, n) \in SUBSET Int
  BY DEF Shl
<1>2. Shr(Shl(w, k, n), k) \subseteq Nat
  BY <1>1, InShr
<1>3. ASSUME NEW i \in Nat PROVE i \in Shr(Shl(w, k, n), k) <=> i \in w /\ i < n - k
  <2>1. i \in Shr(Shl(w, k, n), k) <=> i + k \in Shl(w, k, n)
    BY <1>1, InShr
  <2>2. i + k \in Shl(w, k, n) <=> i + k \in 0 .. n - 1 /\ (i + k) - k \in w
    BY InShl
  <2>3. (i + k) - k = i /\ (i + k \in 0 .. n - 1 <=> i < n - k)
    OBVIOUS
  <2> QED BY <2>1, <2>2, <2>3
<1>4. w \subseteq Nat
  BY DEF Word
<1> QED BY <1>2, <1>3, <1>4

\* get_bits: the bits from a up to b, moved down.
LEMMA Window ==
  ASSUME NEW n \in Nat, NEW w \in Word(n), NEW a \in 0 .. n, NEW b \in 0 .. n
  PROVE  /\ Shr(Shr(Shl(w, n - b, n), n - b), a) \subseteq Nat
         /\ \A i \in Nat : i \in Shr(Shr(Shl(w, n - b, n), n - b), a)
                         <=> i + a \in w /\ i + a < b
<1> DEFINE low == Shr(Shl(w, n - b, n), n - b)
<1>1. low = {i \in w : i < b}
  <2>1. n - b \in 0 .. n /\ n - (n - b) = b
    OBVIOUS
  <2> QED BY <2>1, ShlShr
<1>2. low \in SUBSET Int
  <2>1. w \subseteq Int
    BY DEF Word
  <2>2. {i \in w : i < b} \subseteq w
    OBVIOUS
  <2> QED BY <1>1, <2>1, <2>2
<1> HIDE DEF low
<1>3. Shr(low, a) \subseteq Nat /\ \A i \in Nat : i \in Shr(low, a) <=> i + a \in low
  BY <1>2, InShr
<1> QED BY <1>1, <1>3 DEF low

\* set_bits: the positions from a up to b are cleared by the mask.
LEMMA Mask ==
  ASSUME NEW n \in Nat, NEW a \in 0 .. n, NEW b \in 0 .. n, a <= b
  PROVE  Not(Shl(Shr(Shr(Shl(0 .. n - 1, n - b, n), n - b), a), a, n), n)
           = {i \in 0 .. n - 1 : ~(a <= i /\ i < b)}
<1> DEFINE g == Shr(Shr(Shl(0 .. n - 1, n - b, n), n - b), a)
<1>1. 0 .. n - 1 \in Word(n)
  BY DEF Word
<1>2. g \subseteq Nat /\ \A i \in Nat : i \in g <=> i + a \in 0 .. n - 1 /\ i + a < b
  BY <1>1, Window
<1> HIDE DEF g
<1>3. ASSUME NEW i \in 0 .. n - 1 PROVE i \in Shl(g, a, n) <=> a <= i /\ i < b
  <2>1. i \in Shl(g, a, n) <=> i - a \in g
    BY InShl
  <2>2. CASE a <= i
    <3>1. i - a \in Nat /\ (i - a) + a = i
      BY <2>2
    <3>2. i - a \in g <=> (i - a) + a \in 0 .. n - 1 /\ (i - a) + a < b
      BY <1>2, <3>1
    <3> QED BY <2>1, <2>2, <3>1, <3>2
  <2>3. CASE ~(a <= i)
    <3>1. i - a \notin Nat
      BY <2>3
    <3> QED BY <1>2, <2>1, <2>3, <3>1
  <2> QED BY <2>2, <2>3
<1> QED BY <1>3 DEF g, Not

----------------------------------------------------------------------------
(* The trait's methods on the ranges a .. b - 1 that the kernel uses.      *)

LEMMA GetBitsAt ==
  ASSUME NEW n \in Nat, NEW w \in Word(n), NEW a \in 0 .. n, NEW b \in 0 .. n,
         NEW r, r = HalfOpen(a, b) \/ r = Closed(a, b - 1)
  PROVE  /\ get_bits(w, r, n) \subseteq Nat
         /\ \A i \in Nat : i \in get_bits(w, r, n) <=> i + a \in w /\ i + a < b
<1>1. to_regular_range(r, n).start = a /\ to_regular_range(r, n).end = b
  BY DEF to_regular_range, HalfOpen, Closed
<1> DEFINE g == Shr(Shr(Shl(w, n - b, n), n - b), a)
<1>2. get_bits(w, r, n) = g
  BY <1>1 DEF get_bits
<1>3. g \subseteq Nat /\ \A i \in Nat : i \in g <=> i + a \in w /\ i + a < b
  BY Window
<1> HIDE DEF g
<1> QED BY <1>2, <1>3

LEMMA SetBitsAt ==
  ASSUME NEW n \in Nat, NEW w \in Word(n), NEW a \in 0 .. n, NEW b \in 0 .. n, a <= b, NEW v,
         NEW r, r = HalfOpen(a, b) \/ r = Closed(a, b - 1)
  PROVE  /\ set_bits(w, r, v, n) \in Word(n)
         /\ \A i \in 0 .. n - 1 :
              i \in set_bits(w, r, v, n) <=> (i \in w /\ ~(a <= i /\ i < b)) \/ i - a \in v
<1>1. to_regular_range(r, n).start = a /\ to_regular_range(r, n).end = b
  BY DEF to_regular_range, HalfOpen, Closed
<1> DEFINE mask == {i \in 0 .. n - 1 : ~(a <= i /\ i < b)}
<1>2. Not(Shl(Shr(Shr(Shl(0 .. n - 1, n - b, n), n - b), a), a, n), n) = mask
  BY Mask
<1>3. set_bits(w, r, v, n) = (w \cap mask) \cup Shl(v, a, n)
  BY <1>1, <1>2 DEF set_bits
<1>4. \A i \in 0 .. n - 1 : i \in Shl(v, a, n) <=> i - a \in v
  BY InShl
<1>5. Shl(v, a, n) \subseteq 0 .. n - 1 /\ mask \subseteq 0 .. n - 1
  BY DEF Shl
<1> QED BY <1>3, <1>4, <1>5 DEF Word

----------------------------------------------------------------------------
(* The layout of the interrupt table.                                      *)

\* The defining equation of Before, from a function that satisfies it.
LEMMA BeforeDef ==
  Before = [k \in 1 .. Len(Fields) |-> IF k = 1 THEN 0 ELSE Before[k - 1] + Fields[k - 1][2]]
<1> DEFINE D(f) == [k \in 1 .. Len(Fields) |-> IF k = 1 THEN 0 ELSE f[k - 1] + Fields[k - 1][2]]
           g == [k \in 1 .. 25 |-> IF k <= 22 THEN k - 1 ELSE k + 7]
<1>1. Len(Fields) = 25
  BY DEF Fields
<1>2. \A k \in 1 .. 24 : Fields[k][2] = IF k = 22 THEN 9 ELSE 1
  BY DEF Fields
<1>3. g = D(g)
  BY <1>1, <1>2
<1>4. \E f : f = D(f)
  BY <1>3
<1> HIDE DEF D
<1>5. Before = CHOOSE f : f = D(f)
  BY DEF Before, D
<1>6. Before = D(Before)
  BY <1>4, <1>5
<1> QED BY <1>6 DEF D

\* The places of the fields, as the structure lays them out.
LEMMA BeforeIs ==
  \A k \in 1 .. 25 : Before[k] = IF k <= 22 THEN k - 1 ELSE k + 7
<1>1. Len(Fields) = 25
  BY DEF Fields
<1>2. \A k \in 1 .. 24 : Fields[k][2] = IF k = 22 THEN 9 ELSE 1
  BY DEF Fields
<1>3. Before[1] = 0
  BY <1>1, BeforeDef
<1>4. \A k \in 2 .. 25 : Before[k] = Before[k - 1] + (IF k = 23 THEN 9 ELSE 1)
  <2>1. ASSUME NEW k \in 2 .. 25 PROVE Before[k] = Before[k - 1] + Fields[k - 1][2]
    BY <1>1, BeforeDef
  <2> QED BY <1>2, <2>1
<1>5. Before[2] = 1 /\ Before[3] = 2 /\ Before[4] = 3 /\ Before[5] = 4 /\ Before[6] = 5
  BY <1>3, <1>4
<1>6. Before[7] = 6 /\ Before[8] = 7 /\ Before[9] = 8 /\ Before[10] = 9 /\ Before[11] = 10
  BY <1>4, <1>5
<1>7. Before[12] = 11 /\ Before[13] = 12 /\ Before[14] = 13 /\ Before[15] = 14 /\ Before[16] = 15
  BY <1>4, <1>6
<1>8. Before[17] = 16 /\ Before[18] = 17 /\ Before[19] = 18 /\ Before[20] = 19 /\ Before[21] = 20 /\ Before[22] = 21
  BY <1>4, <1>7
<1>9. Before[23] = 30 /\ Before[24] = 31 /\ Before[25] = 32
  BY <1>4, <1>8
<1> QED BY <1>3, <1>5, <1>6, <1>7, <1>8, <1>9

\* The vector of an entry, from the number of its field.
LEMMA VectorAt ==
  ASSUME NEW name, NEW k \in 1 .. 25, \A j \in 1 .. 25 : Fields[j][1] = name <=> j = k, NEW i
  PROVE  Vector(name, i) = Before[k] + i
<1>1. DOMAIN Fields = 1 .. 25
  BY DEF Fields
<1>2. (CHOOSE j \in DOMAIN Fields : Fields[j][1] = name) = k
  BY <1>1
<1> QED BY <1>2, Zenon DEF Vector

\* The k-th field, and only it, has the name.
Only(name, k) == \A j \in 1 .. 25 : Fields[j][1] = name <=> j = k

LEMMA ExceptionVector ==
  ASSUME NEW name, NEW k \in 1 .. 21, Only(name, k)
  PROVE  Vector(name, 0) = k - 1
<1>1. k \in 1 .. 25
  OBVIOUS
<1>2. Vector(name, 0) = Before[k] + 0
  BY <1>1, VectorAt, Zenon DEF Only
<1> QED BY <1>1, <1>2, BeforeIs

LEMMA ExceptionVectors ==
  /\ Vector("divide_error", 0) = 0 /\ Vector("debug", 0) = 1
  /\ Vector("non_maskable_interrupt", 0) = 2 /\ Vector("breakpoint", 0) = 3
  /\ Vector("overflow", 0) = 4 /\ Vector("bound_range_exceeded", 0) = 5
  /\ Vector("invalid_opcode", 0) = 6 /\ Vector("device_not_available", 0) = 7
  /\ Vector("coprocessor_segment_overrun", 0) = 9 /\ Vector("x87_floating_point", 0) = 16
  /\ Vector("simd_floating_point", 0) = 19 /\ Vector("virtualization", 0) = 20
<1>1. /\ Only("divide_error", 1)
      /\ Only("debug", 2)
      /\ Only("non_maskable_interrupt", 3)
      /\ Only("breakpoint", 4)
      /\ Only("overflow", 5)
      /\ Only("bound_range_exceeded", 6)
      /\ Only("invalid_opcode", 7)
      /\ Only("device_not_available", 8)
      /\ Only("coprocessor_segment_overrun", 10)
      /\ Only("x87_floating_point", 17)
      /\ Only("simd_floating_point", 20)
      /\ Only("virtualization", 21)
  BY DEF Only, Fields
<1>2. Vector("divide_error", 0) = 0
  BY <1>1, ExceptionVector
<1>3. Vector("debug", 0) = 1
  BY <1>1, ExceptionVector
<1>4. Vector("non_maskable_interrupt", 0) = 2
  BY <1>1, ExceptionVector
<1>5. Vector("breakpoint", 0) = 3
  BY <1>1, ExceptionVector
<1>6. Vector("overflow", 0) = 4
  BY <1>1, ExceptionVector
<1>7. Vector("bound_range_exceeded", 0) = 5
  BY <1>1, ExceptionVector
<1>8. Vector("invalid_opcode", 0) = 6
  BY <1>1, ExceptionVector
<1>9. Vector("device_not_available", 0) = 7
  BY <1>1, ExceptionVector
<1>10. Vector("coprocessor_segment_overrun", 0) = 9
  BY <1>1, ExceptionVector
<1>11. Vector("x87_floating_point", 0) = 16
  BY <1>1, ExceptionVector
<1>12. Vector("simd_floating_point", 0) = 19
  BY <1>1, ExceptionVector
<1>13. Vector("virtualization", 0) = 20
  BY <1>1, ExceptionVector
<1> QED BY <1>2, <1>3, <1>4, <1>5, <1>6, <1>7, <1>8, <1>9, <1>10, <1>11, <1>12, <1>13

LEMMA DeviceVectors == \A i \in Int : Vector("interrupts", i) = 32 + i
<1>1. \A k \in 1 .. 25 : Fields[k][1] = "interrupts" <=> k = 25
  BY DEF Fields
<1>2. ASSUME NEW i \in Int PROVE Vector("interrupts", i) = 32 + i
  <2>1. Vector("interrupts", i) = Before[25] + i
    BY <1>1, VectorAt
  <2> QED BY <2>1, BeforeIs
<1> QED BY <1>2

\* index and index_mut give access to the entry that the CPU uses.
LEMMA IndexVector ==
  ASSUME NEW i \in (0 .. 255) \ Refused
  PROVE  Vector(index(i)[1], index(i)[2]) = i
<1>1. CASE i \in 32 .. 255
  <2>1. index(i) = <<"interrupts", i - 32>>
    BY <1>1 DEF index
  <2> QED BY <1>1, <2>1, DeviceVectors
<1>2. CASE i \in 0 .. 31
  <2>1. index(i) = exceptions(i) /\ i \in 0 .. 7 \cup {9, 16, 19, 20}
    BY <1>2 DEF index, Refused
  <2>2. /\ exceptions(0) = <<"divide_error", 0>> /\ exceptions(1) = <<"debug", 0>>
        /\ exceptions(2) = <<"non_maskable_interrupt", 0>> /\ exceptions(3) = <<"breakpoint", 0>>
    BY DEF exceptions
  <2>3. /\ exceptions(4) = <<"overflow", 0>> /\ exceptions(5) = <<"bound_range_exceeded", 0>>
        /\ exceptions(6) = <<"invalid_opcode", 0>> /\ exceptions(7) = <<"device_not_available", 0>>
    BY DEF exceptions
  <2>4. /\ exceptions(9) = <<"coprocessor_segment_overrun", 0>>
        /\ exceptions(16) = <<"x87_floating_point", 0>>
        /\ exceptions(19) = <<"simd_floating_point", 0>>
        /\ exceptions(20) = <<"virtualization", 0>>
    BY DEF exceptions
  <2>5. \A e : <<e, 0>>[1] = e /\ <<e, 0>>[2] = 0
    OBVIOUS
  <2>6. i \in {0, 1, 2, 3, 4, 5, 6, 7, 9, 16, 19, 20}
    BY <2>1
  <2> QED BY <2>1, <2>2, <2>3, <2>4, <2>5, <2>6, ExceptionVectors
<1> QED BY <1>1, <1>2

----------------------------------------------------------------------------
(* Interrupt entries.                                                      *)

LEMMA SameWord ==
  ASSUME NEW n, NEW v \in Word(n), NEW w \in Word(n), \A i \in 0 .. n - 1 : i \in v <=> i \in w
  PROVE  v = w
BY DEF Word

\* The options with a gate type, a level and the present bit.
Holds(i, trap, level, pres) ==
  \/ i \in {9, 10, 11} \/ (i = 8 /\ trap) \/ (i = 15 /\ pres)
  \/ i \in {13, 14} /\ i - 13 \in level
Packed(trap, level, pres) == {i \in 0 .. 15 : Holds(i, trap, level, pres)}

LEMMA InPacked ==
  ASSUME NEW trap, NEW level, NEW pres
  PROVE  /\ Packed(trap, level, pres) \in Word(16)
         /\ \A i \in 0 .. 15 : i \in Packed(trap, level, pres) <=> Holds(i, trap, level, pres)
BY DEF Packed, Word

LEMMA LevelBits == \A level \in PrivilegeLevel, i \in Int : i \in level => i \in {0, 1}
BY DEF PrivilegeLevel

\* What set_bit does to a word.
LEMMA SetBitAt ==
  ASSUME NEW n \in Nat, NEW w \in Word(n), NEW bit \in 0 .. n - 1, NEW val \in BOOLEAN
  PROVE  /\ set_bit(w, bit, val) \in Word(n)
         /\ \A i \in 0 .. n - 1 : i \in set_bit(w, bit, val) <=> IF i = bit THEN val ELSE i \in w
<1>1. CASE val = TRUE
  <2>1. set_bit(w, bit, val) = w \cup {bit}
    BY <1>1, Zenon DEF set_bit
  <2> QED BY <1>1, <2>1 DEF Word
<1>2. CASE val = FALSE
  <2>1. set_bit(w, bit, val) = w \ {bit}
    BY <1>2, Zenon DEF set_bit
  <2> QED BY <1>2, <2>1 DEF Word
<1> QED BY <1>1, <1>2

LEMMA SetTrapPacked ==
  ASSUME NEW trap, NEW level, NEW pres, NEW val \in BOOLEAN
  PROVE  set_trap(Packed(trap, level, pres), val) = Packed(val, level, pres)
<1> DEFINE w == Packed(trap, level, pres)
           v == set_trap(w, val)
<1>1. w \in Word(16) /\ \A i \in 0 .. 15 : i \in w <=> Holds(i, trap, level, pres)
  BY InPacked
<1> HIDE DEF w
<1>2. v \in Word(16) /\ \A i \in 0 .. 15 : i \in v <=> IF i = 8 THEN val ELSE i \in w
  BY <1>1, SetBitAt DEF set_trap
<1> HIDE DEF v
<1>3. \A i \in 0 .. 15 : i \in v <=> Holds(i, val, level, pres)
  BY <1>1, <1>2 DEF Holds
<1> QED BY <1>2, <1>3, InPacked, SameWord DEF v, w

LEMMA SetPresentPacked ==
  ASSUME NEW trap, NEW level, NEW pres, NEW val \in BOOLEAN
  PROVE  set_present(Packed(trap, level, pres), val) = Packed(trap, level, val)
<1> DEFINE w == Packed(trap, level, pres)
           v == set_present(w, val)
<1>1. w \in Word(16) /\ \A i \in 0 .. 15 : i \in w <=> Holds(i, trap, level, pres)
  BY InPacked
<1> HIDE DEF w
<1>2. v \in Word(16) /\ \A i \in 0 .. 15 : i \in v <=> IF i = 15 THEN val ELSE i \in w
  BY <1>1, SetBitAt DEF set_present
<1> HIDE DEF v
<1>3. \A i \in 0 .. 15 : i \in v <=> Holds(i, trap, level, val)
  BY <1>1, <1>2 DEF Holds
<1> QED BY <1>2, <1>3, InPacked, SameWord DEF v, w

LEMMA SetLevelPacked ==
  ASSUME NEW trap, NEW level, NEW pres, NEW val \in PrivilegeLevel
  PROVE  set_privilege_level(Packed(trap, level, pres), val) = Packed(trap, val, pres)
<1> DEFINE w == Packed(trap, level, pres)
           v == set_privilege_level(w, val)
<1>1. w \in Word(16) /\ \A i \in 0 .. 15 : i \in w <=> Holds(i, trap, level, pres)
  BY InPacked
<1> HIDE DEF w
<1>2. /\ v \in Word(16)
      /\ \A i \in 0 .. 15 : i \in v <=> (i \in w /\ ~(13 <= i /\ i < 15)) \/ i - 13 \in val
  <2>1. Closed(13, 14) = Closed(13, 15 - 1)
    OBVIOUS
  <2> QED BY <1>1, <2>1, SetBitsAt DEF set_privilege_level
<1> HIDE DEF v
<1>3. \A i \in 0 .. 15 : i - 13 \in val => i \in {13, 14}
  BY LevelBits
<1>4. \A i \in 0 .. 15 : i \in v <=> Holds(i, trap, val, pres)
  BY <1>1, <1>2, <1>3 DEF Holds
<1> QED BY <1>2, <1>4, InPacked, SameWord DEF v, w

\* InterruptOption::new.
LEMMA NewPacked ==
  ASSUME NEW trap \in BOOLEAN, NEW level \in PrivilegeLevel, NEW pres \in BOOLEAN
  PROVE  option_new(trap, level, pres) = Packed(trap, level, pres)
<1>1. PICK no \in BOOLEAN : no = FALSE
  OBVIOUS
<1>2. {9, 10, 11} = Packed(no, Ring0, no)
  BY <1>1 DEF Packed, Holds, Ring0
<1>3. set_trap({9, 10, 11}, trap) = Packed(trap, Ring0, no)
  BY <1>2, SetTrapPacked
<1>4. set_privilege_level(Packed(trap, Ring0, no), level) = Packed(trap, level, no)
  BY SetLevelPacked
<1>5. set_present(Packed(trap, level, no), pres) = Packed(trap, level, pres)
  BY SetPresentPacked
<1> QED BY <1>3, <1>4, <1>5 DEF option_new

\* The getters read back what is packed.
LEMMA GetPacked ==
  ASSUME NEW trap \in BOOLEAN, NEW level \in PrivilegeLevel, NEW pres \in BOOLEAN
  PROVE  /\ is_trap(Packed(trap, level, pres)) = trap
         /\ is_present(Packed(trap, level, pres)) = pres
         /\ privilege_level(Packed(trap, level, pres)) = level
<1> DEFINE w == Packed(trap, level, pres)
<1>1. w \in Word(16) /\ \A i \in 0 .. 15 : i \in w <=> Holds(i, trap, level, pres)
  BY InPacked
<1> HIDE DEF w
<1>2. (8 \in w <=> trap) /\ (15 \in w <=> pres)
  BY <1>1 DEF Holds
<1>3. is_trap(w) = trap /\ is_present(w) = pres
  BY <1>2 DEF is_trap, is_present, get_bit
<1> DEFINE g == privilege_level(w)
<1>4. g \subseteq Nat /\ \A i \in Nat : i \in g <=> i + 13 \in w /\ i + 13 < 15
  <2>1. Closed(13, 14) = Closed(13, 15 - 1)
    OBVIOUS
  <2> QED BY <1>1, <2>1, GetBitsAt DEF privilege_level
<1> HIDE DEF g
<1>5. \A i \in Nat : i \in g <=> i \in level
  BY <1>1, <1>4, LevelBits DEF Holds
<1>6. level \subseteq Nat
  BY DEF PrivilegeLevel
<1>7. g = level
  BY <1>4, <1>5, <1>6
<1> QED BY <1>3, <1>7 DEF g, w

\* An entry by its fields, as set_handle_addr fills it.
Entry(p, cs, opts) ==
  [pointer_low |-> p \cap (0 .. 15), gdt_selector |-> cs, pointer_middle |-> Shr(p, 16),
   options |-> opts]

\* The eight bytes: the pointer's low half, the selector, the options, the
\* pointer's high half.
LEMMA GateBits ==
  ASSUME NEW p \in Word(32), NEW cs \in Word(16), NEW opts \in Word(16)
  PROVE  /\ InMemory(Entry(p, cs, opts)) \in Word(64)
         /\ \A i \in 0 .. 63 :
              i \in InMemory(Entry(p, cs, opts))
              <=> \/ i <= 15 /\ i \in p
                  \/ 16 <= i /\ i <= 31 /\ i - 16 \in cs
                  \/ 32 <= i /\ i <= 47 /\ i - 32 \in opts
                  \/ 48 <= i /\ i - 32 \in p
<1> DEFINE high == Shr(p, 16)
           gate == (p \cap (0 .. 15)) \cup Shl(cs, 16, 64) \cup Shl(opts, 32, 64)
                   \cup Shl(high, 48, 64)
<1>1. InMemory(Entry(p, cs, opts)) = gate
  BY DEF InMemory, Entry
<1>2. p \subseteq 0 .. 31 /\ cs \subseteq 0 .. 15 /\ opts \subseteq 0 .. 15
  BY DEF Word
<1>3. high \subseteq Nat /\ \A i \in Nat : i \in high <=> i + 16 \in p
  BY <1>2, InShr
<1> HIDE DEF high
<1>4. gate \in Word(64)
  BY DEF Word, Shl
<1>5. ASSUME NEW i \in 0 .. 63
      PROVE  i \in gate <=> \/ i <= 15 /\ i \in p
                            \/ 16 <= i /\ i <= 31 /\ i - 16 \in cs
                            \/ 32 <= i /\ i <= 47 /\ i - 32 \in opts
                            \/ 48 <= i /\ i - 32 \in p
  <2>1. /\ i \in Shl(cs, 16, 64) <=> i - 16 \in cs
        /\ i \in Shl(opts, 32, 64) <=> i - 32 \in opts
        /\ i \in Shl(high, 48, 64) <=> i - 48 \in high
    BY InShl
  <2>2. i - 16 \in cs <=> 16 <= i /\ i <= 31 /\ i - 16 \in cs
    BY <1>2
  <2>3. i - 32 \in opts <=> 32 <= i /\ i <= 47 /\ i - 32 \in opts
    BY <1>2
  <2>4. i - 48 \in high <=> 48 <= i /\ i - 32 \in p
    <3>1. CASE i < 48
      BY <1>3, <3>1
    <3>2. CASE 48 <= i
      <4>1. i - 48 \in Nat /\ (i - 48) + 16 = i - 32
        BY <3>2
      <4>2. i - 48 \in high <=> (i - 48) + 16 \in p
        BY <1>3, <4>1
      <4> QED BY <3>2, <4>1, <4>2
    <3> QED BY <3>1, <3>2
  <2>5. i \in p \cap (0 .. 15) <=> i <= 15 /\ i \in p
    OBVIOUS
  <2> QED BY <2>1, <2>2, <2>3, <2>4, <2>5
<1> HIDE DEF gate
<1> QED BY <1>1, <1>4, <1>5

\* The CPU reads the pointer from the two halves of the entry.
LEMMA PointerDecodes ==
  ASSUME NEW p \in Word(32), NEW cs \in Word(16), NEW opts \in Word(16)
  PROVE  LET gate == InMemory(Entry(p, cs, opts))
         IN  /\ (gate \cap (0 .. 15)) \cup Shl(Shr(gate, 48), 16, 32) = p
             /\ Shr(gate, 16) \cap (0 .. 15) = cs
<1> DEFINE gate == InMemory(Entry(p, cs, opts))
           high == Shr(gate, 48)
           sel == Shr(gate, 16)
           both == (gate \cap (0 .. 15)) \cup Shl(high, 16, 32)
<1>1. gate \in SUBSET Int /\ gate \subseteq 0 .. 63
  <2>1. gate \in Word(64)
    BY GateBits
  <2> QED BY <2>1 DEF Word
<1>0. \A i \in 0 .. 63 : i \in gate <=> \/ i <= 15 /\ i \in p
                                        \/ 16 <= i /\ i <= 31 /\ i - 16 \in cs
                                        \/ 32 <= i /\ i <= 47 /\ i - 32 \in opts
                                        \/ 48 <= i /\ i - 32 \in p
  BY GateBits
<1>2. p \subseteq 0 .. 31 /\ cs \subseteq 0 .. 15
  BY DEF Word
<1> HIDE DEF gate
<1>3. /\ high \subseteq Nat /\ \A i \in Nat : i \in high <=> i + 48 \in gate
      /\ sel \subseteq Nat /\ \A i \in Nat : i \in sel <=> i + 16 \in gate
  BY <1>1, InShr
<1> HIDE DEF high, sel
<1>4. ASSUME NEW i \in 0 .. 31 PROVE i \in both <=> i \in p
  <2>1. i \in Shl(high, 16, 32) <=> i - 16 \in high
    BY InShl
  <2>2. i - 16 \in high <=> i >= 16 /\ i + 32 \in gate
    <3>1. CASE i < 16
      BY <1>3, <3>1
    <3>2. CASE i >= 16
      <4>1. i - 16 \in Nat /\ (i - 16) + 48 = i + 32
        BY <3>2
      <4> QED BY <1>3, <3>2, <4>1
    <3> QED BY <3>1, <3>2
  <2>3. i >= 16 => (i + 32 \in gate <=> i \in p)
    <3>1. SUFFICES ASSUME i >= 16 PROVE i + 32 \in gate <=> i \in p
      OBVIOUS
    <3>2. i + 32 \in 0 .. 63 /\ 48 <= i + 32 /\ (i + 32) - 32 = i
      BY <3>1
    <3> QED BY <1>0, <3>2
  <2>4. i \in gate \cap (0 .. 15) <=> i <= 15 /\ i \in p
    <3>1. i \in 0 .. 63 /\ ~(48 <= i) /\ (i <= 15 => ~(16 <= i) /\ ~(32 <= i))
      OBVIOUS
    <3>2. i \in gate <=> \/ i <= 15 /\ i \in p
                         \/ 16 <= i /\ i <= 31 /\ i - 16 \in cs
                         \/ 32 <= i /\ i <= 47 /\ i - 32 \in opts
                         \/ 48 <= i /\ i - 32 \in p
      BY <1>0, <3>1
    <3> QED BY <3>1, <3>2
  <2> QED BY <2>1, <2>2, <2>3, <2>4
<1>5. both \subseteq 0 .. 31
  BY DEF Shl
<1>6. both = p
  BY <1>2, <1>4, <1>5
<1>7. ASSUME NEW i \in 0 .. 15 PROVE i \in sel <=> i \in cs
  <2>1. i + 16 \in 0 .. 63 /\ 16 <= i + 16 /\ i + 16 <= 31 /\ (i + 16) - 16 = i /\ i \in Nat
    OBVIOUS
  <2>2. i + 16 \in gate <=> (i + 16) - 16 \in cs
    <3>1. i + 16 \in gate <=> \/ i + 16 <= 15 /\ i + 16 \in p
                              \/ 16 <= i + 16 /\ i + 16 <= 31 /\ (i + 16) - 16 \in cs
                              \/ 32 <= i + 16 /\ i + 16 <= 47 /\ (i + 16) - 32 \in opts
                              \/ 48 <= i + 16 /\ (i + 16) - 32 \in p
      BY <1>0, <2>1
    <3> QED BY <2>1, <3>1
  <2>3. i \in sel <=> i + 16 \in gate
    BY <1>3, <2>1
  <2> QED BY <2>1, <2>2, <2>3
<1>8. sel \cap (0 .. 15) = cs
  BY <1>2, <1>7
<1> QED BY <1>6, <1>8 DEF gate, high, sel

\* ... and the gate type, the level and the present bit, with zeros between.
LEMMA OptionsDecode ==
  ASSUME NEW p \in Word(32), NEW cs \in Word(16), NEW trap \in BOOLEAN,
         NEW level \in PrivilegeLevel, NEW pres \in BOOLEAN
  PROVE  LET gate == InMemory(Entry(p, cs, Packed(trap, level, pres)))
         IN  /\ Shr(gate, 40) \cap (0 .. 4) = {1, 2, 3} \cup IF trap THEN {0} ELSE {}
             /\ Shr(gate, 45) \cap (0 .. 1) = level
             /\ 47 \in gate <=> pres
             /\ gate \cap (32 .. 39) = {}
<1> DEFINE opts == Packed(trap, level, pres)
           gate == InMemory(Entry(p, cs, opts))
           type == Shr(gate, 40)
           lev == Shr(gate, 45)
<1>1. opts \in Word(16) /\ \A i \in 0 .. 15 : i \in opts <=> Holds(i, trap, level, pres)
  BY InPacked
<1> HIDE DEF opts
<1>2. gate \in SUBSET Int /\ \A i \in 0 .. 15 : i + 32 \in gate <=> i \in opts
  <2>1. gate \in Word(64)
    BY <1>1, GateBits
  <2>2. gate \in SUBSET Int
    BY <2>1 DEF Word
  <2>3. ASSUME NEW i \in 0 .. 15 PROVE i + 32 \in gate <=> i \in opts
    <3>1. i + 32 \in 0 .. 63 /\ 32 <= i + 32 /\ i + 32 <= 47 /\ (i + 32) - 32 = i
      OBVIOUS
    <3> HIDE DEF gate
    <3>2. i + 32 \in gate <=> \/ i + 32 <= 15 /\ i + 32 \in p
                              \/ 16 <= i + 32 /\ i + 32 <= 31 /\ (i + 32) - 16 \in cs
                              \/ 32 <= i + 32 /\ i + 32 <= 47 /\ (i + 32) - 32 \in opts
                              \/ 48 <= i + 32 /\ (i + 32) - 32 \in p
      BY <1>1, <3>1, GateBits DEF gate
    <3> QED BY <3>1, <3>2
  <2> QED BY <2>2, <2>3
<1> HIDE DEF gate
<1>3. /\ \A i \in Nat : i \in type <=> i + 40 \in gate
      /\ \A i \in Nat : i \in lev <=> i + 45 \in gate
  BY <1>2, InShr
<1> HIDE DEF type, lev
<1>4. \A i \in 0 .. 15 : i + 32 \in gate <=> Holds(i, trap, level, pres)
  BY <1>1, <1>2
<1>5. /\ 0 \in type <=> 40 \in gate
      /\ 1 \in type <=> 41 \in gate
      /\ 2 \in type <=> 42 \in gate
      /\ 3 \in type <=> 43 \in gate
      /\ 4 \in type <=> 44 \in gate
      /\ 0 \in lev <=> 45 \in gate
      /\ 1 \in lev <=> 46 \in gate
  BY <1>3
<1>6. /\ 40 \in gate <=> Holds(8, trap, level, pres)
      /\ 41 \in gate <=> Holds(9, trap, level, pres)
      /\ 42 \in gate <=> Holds(10, trap, level, pres)
      /\ 43 \in gate <=> Holds(11, trap, level, pres)
      /\ 44 \in gate <=> Holds(12, trap, level, pres)
      /\ 45 \in gate <=> Holds(13, trap, level, pres)
      /\ 46 \in gate <=> Holds(14, trap, level, pres)
      /\ 47 \in gate <=> Holds(15, trap, level, pres)
  BY <1>4
<1>7. /\ Holds(8, trap, level, pres) <=> trap
      /\ Holds(15, trap, level, pres) <=> pres
      /\ Holds(13, trap, level, pres) <=> 0 \in level
      /\ Holds(14, trap, level, pres) <=> 1 \in level
      /\ ~Holds(12, trap, level, pres)
      /\ Holds(9, trap, level, pres) /\ Holds(10, trap, level, pres) /\ Holds(11, trap, level, pres)
  BY DEF Holds
<1>8. type \cap (0 .. 4) = {1, 2, 3} \cup IF trap THEN {0} ELSE {}
  BY <1>5, <1>6, <1>7
<1>9. lev \cap (0 .. 1) = level
  <2>1. \A i \in 0 .. 1 : i \in lev <=> i \in level
    BY <1>5, <1>6, <1>7
  <2>2. level \subseteq 0 .. 1
    BY DEF PrivilegeLevel
  <2> QED BY <2>1, <2>2
<1>10. gate \cap (32 .. 39) = {}
  <2>1. ASSUME NEW j \in 32 .. 39, j \in gate PROVE FALSE
    <3>1. j - 32 \in 0 .. 7 /\ (j - 32) + 32 = j
      OBVIOUS
    <3>2. Holds(j - 32, trap, level, pres)
      BY <1>4, <2>1, <3>1
    <3> QED BY <3>1, <3>2 DEF Holds
  <2> QED BY <2>1
<1> QED BY <1>6, <1>7, <1>8, <1>9, <1>10 DEF type, lev, gate, opts

----------------------------------------------------------------------------
(* Selectors.                                                              *)

LEMMA SelectorBits ==
  ASSUME NEW ix \in Word(13), NEW rpl \in PrivilegeLevel
  PROVE  /\ selector_new(ix, rpl) \in Word(16)
         /\ \A i \in 0 .. 15 : i \in selector_new(ix, rpl) <=> i - 3 \in ix \/ i \in rpl
         /\ \A i \in Int : i \in rpl => i \in {0, 1}
         /\ \A i \in Int : i \in ix => i \in 0 .. 12
<1>1. rpl \subseteq {0, 1} /\ ix \subseteq 0 .. 12
  BY DEF PrivilegeLevel, Word
<1>2. \A i \in 0 .. 15 : i \in Shl(ix, 3, 16) <=> i - 3 \in ix
  BY InShl
<1>3. Shl(ix, 3, 16) \subseteq 0 .. 15
  BY DEF Shl
<1>4. selector_new(ix, rpl) = Shl(ix, 3, 16) \cup rpl
  BY DEF selector_new
<1>5. selector_new(ix, rpl) \subseteq 0 .. 15
  <2>1. rpl \subseteq 0 .. 15
    BY <1>1
  <2> QED BY <1>3, <1>4, <2>1
<1>6. \A i \in 0 .. 15 : i \in selector_new(ix, rpl) <=> i - 3 \in ix \/ i \in rpl
  BY <1>2, <1>4
<1> QED BY <1>1, <1>5, <1>6 DEF Word

LEMMA SelectorDecode ==
  ASSUME NEW ix \in Word(13), NEW rpl \in PrivilegeLevel
  PROVE  selector_index(selector_new(ix, rpl)) = ix /\ selector_rpl(selector_new(ix, rpl)) = rpl
<1> DEFINE sel == selector_new(ix, rpl)
           index0 == Shr(sel, 3)
           level == get_bits(sel, HalfOpen(0, 2), 16)
<1>1. /\ sel \in Word(16)
      /\ \A i \in 0 .. 15 : i \in sel <=> i - 3 \in ix \/ i \in rpl
      /\ \A i \in Int : i \in rpl => i \in {0, 1}
      /\ \A i \in Int : i \in ix => i \in 0 .. 12
  BY SelectorBits
<1>2. ix \subseteq 0 .. 12 /\ rpl \subseteq {0, 1}
  BY DEF Word, PrivilegeLevel
<1> HIDE DEF sel
<1>3. sel \in SUBSET Int /\ sel \subseteq 0 .. 15
  BY <1>1 DEF Word
<1>4. index0 \subseteq Nat /\ \A i \in Nat : i \in index0 <=> i + 3 \in sel
  BY <1>3, InShr
<1>5. level \subseteq Nat /\ \A i \in Nat : i \in level <=> i + 0 \in sel /\ i + 0 < 2
  BY <1>1, GetBitsAt
<1> HIDE DEF index0, level
<1>6. ASSUME NEW i \in Nat PROVE i \in index0 <=> i \in ix
  <2>1. CASE i <= 12
    <3>1. i + 3 \in 0 .. 15 /\ (i + 3) - 3 = i /\ i + 3 \notin {0, 1}
      BY <2>1
    <3>2. i + 3 \in sel <=> (i + 3) - 3 \in ix \/ i + 3 \in rpl
      BY <1>1, <3>1
    <3>3. i + 3 \notin rpl
      BY <1>2, <3>1
    <3> QED BY <1>4, <3>1, <3>2, <3>3
  <2>2. CASE i > 12
    <3>1. i + 3 \notin 0 .. 15 /\ i \notin 0 .. 12
      BY <2>2
    <3> QED BY <1>2, <1>3, <1>4, <3>1
  <2> QED BY <2>1, <2>2
<1>7. index0 = ix
  <2>1. ix \subseteq Nat
    BY <1>2
  <2> QED BY <1>4, <1>6, <2>1
<1>8. ASSUME NEW i \in Nat PROVE i \in level <=> i \in rpl
  <2>1. i \in level <=> i \in sel /\ i < 2
    BY <1>5
  <2>2. i < 2 => (i \in sel <=> i \in rpl)
    <3>1. SUFFICES ASSUME i < 2 PROVE i \in sel <=> i \in rpl
      OBVIOUS
    <3>2. i \in 0 .. 15 /\ i - 3 \notin 0 .. 12
      BY <3>1
    <3> QED BY <1>1, <1>2, <3>2
  <2> QED BY <1>2, <2>1, <2>2
<1>9. level = rpl
  BY <1>2, <1>5, <1>8
<1> QED BY <1>7, <1>9 DEF selector_index, selector_rpl, sel, index0, level

LEMMA SelectorSet ==
  ASSUME NEW ix \in Word(13), NEW rpl \in PrivilegeLevel, NEW val \in PrivilegeLevel
  PROVE  set_rpl(selector_new(ix, rpl), val) = selector_new(ix, val)
<1> DEFINE sel == selector_new(ix, rpl)
           new == selector_new(ix, val)
           got == set_bits(sel, HalfOpen(0, 2), val, 16)
<1>1. /\ sel \in Word(16)
      /\ \A i \in 0 .. 15 : i \in sel <=> i - 3 \in ix \/ i \in rpl
      /\ new \in Word(16)
      /\ \A i \in 0 .. 15 : i \in new <=> i - 3 \in ix \/ i \in val
  BY SelectorBits
<1>2. ix \subseteq 0 .. 12 /\ rpl \subseteq {0, 1} /\ val \subseteq {0, 1}
  BY DEF Word, PrivilegeLevel
<1> HIDE DEF sel, new
<1>3. /\ got \in Word(16)
      /\ \A i \in 0 .. 15 : i \in got <=> (i \in sel /\ ~(0 <= i /\ i < 2)) \/ i - 0 \in val
  BY <1>1, SetBitsAt
<1> HIDE DEF got
<1>4. ASSUME NEW i \in 0 .. 15 PROVE i \in got <=> i \in new
  <2>1. i \in got <=> (i \in sel /\ ~(i < 2)) \/ i \in val
    BY <1>3
  <2>2. /\ i \in sel <=> i - 3 \in ix \/ i \in rpl
        /\ i \in new <=> i - 3 \in ix \/ i \in val
    BY <1>1
  <2>3. (i < 2 => i - 3 \notin ix) /\ (i \in rpl => i < 2)
    BY <1>2
  <2> QED BY <2>1, <2>2, <2>3
<1>5. got = new
  BY <1>1, <1>3, <1>4, SameWord
<1> QED BY <1>5 DEF set_rpl, sel, new, got

----------------------------------------------------------------------------
(* Page table entries.                                                     *)

\* An entry of the loader, with the CPU's marks.
Pte(frame, acc, dirt) ==
  Shl(frame, 12, 32) \cup {0, 1, 2} \cup {i \in {5} : acc} \cup {i \in {6} : dirt}

LEMMA PteBits ==
  ASSUME NEW frame \in Word(20), NEW acc \in BOOLEAN, NEW dirt \in BOOLEAN
  PROVE  /\ Pte(frame, acc, dirt) \in Word(32)
         /\ \A i \in 0 .. 31 : i \in Pte(frame, acc, dirt)
                               <=> \/ i - 12 \in frame \/ i \in {0, 1, 2}
                                   \/ (i = 5 /\ acc) \/ (i = 6 /\ dirt)
<1>1. \A i \in 0 .. 31 : i \in Shl(frame, 12, 32) <=> i - 12 \in frame
  BY InShl
<1>2. Shl(frame, 12, 32) \subseteq 0 .. 31
  BY DEF Shl
<1> QED BY <1>1, <1>2 DEF Pte, Word

LEMMA PteMark ==
  ASSUME NEW frame \in Word(20), NEW acc \in BOOLEAN, NEW dirt \in BOOLEAN, NEW write \in BOOLEAN
  PROVE  Pte(frame, acc, dirt) \cup (IF write THEN {5, 6} ELSE {5}) = Pte(frame, TRUE, dirt \/ write)
BY DEF Pte

LEMMA PteAddr ==
  ASSUME NEW frame \in Word(20), NEW acc \in BOOLEAN, NEW dirt \in BOOLEAN
  PROVE  /\ addr(Pte(frame, acc, dirt)) = Shl(frame, 12, 32)
         /\ available(Pte(frame, acc, dirt)) = {}
<1> DEFINE w == Pte(frame, acc, dirt)
           high == get_bits(w, Closed(12, 31), 32)
           free == get_bits(w, Closed(9, 11), 32)
<1>1. /\ w \in Word(32)
      /\ \A i \in 0 .. 31 : i \in w <=> \/ i - 12 \in frame \/ i \in {0, 1, 2}
                                        \/ (i = 5 /\ acc) \/ (i = 6 /\ dirt)
  BY PteBits
<1>2. frame \subseteq 0 .. 19
  BY DEF Word
<1> HIDE DEF w
<1>3. high \subseteq Nat /\ \A i \in Nat : i \in high <=> i + 12 \in w /\ i + 12 < 32
  <2>1. Closed(12, 31) = Closed(12, 32 - 1)
    OBVIOUS
  <2> QED BY <1>1, <2>1, GetBitsAt
<1>4. free \subseteq Nat /\ \A i \in Nat : i \in free <=> i + 9 \in w /\ i + 9 < 12
  <2>1. Closed(9, 11) = Closed(9, 12 - 1)
    OBVIOUS
  <2> QED BY <1>1, <2>1, GetBitsAt
<1> HIDE DEF high, free
<1>5. ASSUME NEW i \in Nat PROVE i \in high <=> i \in frame
  <2>1. CASE i <= 19
    <3>1. i + 12 \in 0 .. 31 /\ (i + 12) - 12 = i /\ i + 12 \notin {0, 1, 2, 5, 6} /\ i + 12 < 32
      BY <2>1
    <3>2. i + 12 \in w <=> (i + 12) - 12 \in frame
      BY <1>1, <3>1
    <3> QED BY <1>3, <3>1, <3>2
  <2>2. CASE i > 19
    BY <1>2, <1>3, <2>2
  <2> QED BY <2>1, <2>2
<1>6. high = frame
  <2>1. frame \subseteq Nat
    BY <1>2
  <2> QED BY <1>3, <1>5, <2>1
<1>7. ASSUME NEW i \in free PROVE FALSE
  <2>1. i \in Nat /\ i + 9 \in w /\ i + 9 < 12
    BY <1>4, <1>7
  <2>2. i + 9 \in 0 .. 31 /\ (i + 9) - 12 \notin 0 .. 19 /\ i + 9 \notin {0, 1, 2, 5, 6}
    BY <2>1
  <2> QED BY <1>1, <1>2, <2>1, <2>2
<1>8. free = {}
  BY <1>7
<1> QED BY <1>6, <1>8 DEF addr, available, w, high, free

LEMMA PteFlags ==
  ASSUME NEW frame \in Word(20), NEW acc \in BOOLEAN, NEW dirt \in BOOLEAN
  PROVE  LET w == Pte(frame, acc, dirt)
         IN  /\ present(w) /\ rw(w) /\ is_user(w)
             /\ accessed(w) = acc /\ dirty(w) = dirt
             /\ ~(write_through(w) \/ cache_disable(w) \/ page_attribute(w) \/ global(w))
<1> DEFINE w == Pte(frame, acc, dirt)
<1>1. \A i \in 0 .. 31 : i \in w <=> \/ i - 12 \in frame \/ i \in {0, 1, 2}
                                    \/ (i = 5 /\ acc) \/ (i = 6 /\ dirt)
  BY PteBits
<1>2. frame \subseteq 0 .. 19
  BY DEF Word
<1> HIDE DEF w
<1>3. \A i \in 0 .. 8 : i \in w <=> i \in {0, 1, 2} \/ (i = 5 /\ acc) \/ (i = 6 /\ dirt)
  BY <1>1, <1>2
<1>4. /\ 0 \in w /\ 1 \in w /\ 2 \in w /\ 3 \notin w /\ 4 \notin w /\ 7 \notin w /\ 8 \notin w
      /\ 5 \in w <=> acc
      /\ 6 \in w <=> dirt
  BY <1>3
<1>5. present(w) /\ rw(w) /\ is_user(w)
  BY <1>4 DEF present, rw, is_user, get_bit
<1>6. accessed(w) = acc /\ dirty(w) = dirt
  BY <1>4, Zenon DEF accessed, dirty, get_bit
<1>7. ~(write_through(w) \/ cache_disable(w) \/ page_attribute(w) \/ global(w))
  BY <1>4 DEF write_through, cache_disable, page_attribute, global, get_bit
<1> QED BY <1>5, <1>6, <1>7 DEF w

\* pg_round_down clears the offset and nothing else.
LEMMA RoundsDown ==
  ASSUME NEW frame \in Word(20), NEW offset \in Word(12)
  PROVE  pg_round_down(Shl(frame, 12, 32) \cup offset) = Shl(frame, 12, 32)
<1> DEFINE a == Shl(frame, 12, 32)
<1>1. frame \subseteq 0 .. 19 /\ offset \subseteq 0 .. 11
  BY DEF Word
<1>2. a \subseteq 0 .. 31 /\ \A i \in a : i - 12 \in frame
  BY DEF Shl
<1> HIDE DEF a
<1>3. \A i \in a : i \in 0 .. 31 /\ i \notin 0 .. 11
  BY <1>1, <1>2
<1>4. (a \cup offset) \cap ((0 .. 31) \ (0 .. 11)) = a
  BY <1>1, <1>3
<1> QED BY <1>4 DEF pg_round_down, Not, a
=============================================================================
