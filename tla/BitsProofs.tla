----------------------------- MODULE BitsProofs -----------------------------
(***************************************************************************)
(* Proofs about the clients of the bit-packing code, for words of every    *)
(* width and bit maps of every size.                                       *)
(***************************************************************************)
EXTENDS Bits, DescriptorsProofs, TLAPS, WellFoundedInduction

----------------------------------------------------------------------------
(* Ranges.                                                                 *)

Span(s, e) == [start |-> s, end |-> e]

\* The first position of a range, and the one after its last.
Lo(s) == CASE s[1] = "Excluded" -> s[2] + 1
           [] s[1] = "Included" -> s[2]
           [] s[1] = "Unbounded" -> 0
Hi(e) == CASE e[1] = "Excluded" -> e[2]
           [] e[1] = "Included" -> e[2] + 1
           [] e[1] = "Unbounded" -> N

LEMMA BoundForms ==
  ASSUME NEW s \in Bounds
  PROVE  \/ s[1] = "Included" /\ s[2] \in 0 .. N
         \/ s[1] = "Excluded" /\ s[2] \in 0 .. N
         \/ s[1] = "Unbounded"
BY DEF Bounds

LEMMA LoHi ==
  ASSUME NEW s \in Bounds, NEW e \in Bounds
  PROVE  Lo(s) \in 0 .. N + 1 /\ Hi(e) \in 0 .. N + 1
<1>1. N \in Nat
  BY BitsAssumption
<1>2. Lo(s) \in 0 .. N + 1
  BY <1>1, BoundForms DEF Lo
<1>3. Hi(e) \in 0 .. N + 1
  BY <1>1, BoundForms DEF Hi
<1> QED BY <1>2, <1>3

LEMMA RegularRange ==
  ASSUME NEW s \in Bounds, NEW e \in Bounds
  PROVE  /\ to_regular_range(Span(s, e), N).start = Lo(s)
         /\ to_regular_range(Span(s, e), N).end = Hi(e)
BY DEF to_regular_range, Span, Lo, Hi

LEMMA RangeOk ==
  ASSUME NEW s \in Bounds, NEW e \in Bounds
  PROVE  rangeOk(Span(s, e), N) <=> Lo(s) < N /\ Hi(e) <= N /\ Lo(s) < Hi(e)
BY RegularRange DEF rangeOk

\* However a range is written, it denotes the positions between the two.
LEMMA DenotedInterval ==
  ASSUME NEW s \in Bounds, NEW e \in Bounds
  PROVE  Denoted(Span(s, e)) = Lo(s) .. Hi(e) - 1
<1>1. N \in Nat
  BY BitsAssumption
<1> DEFINE from(i) == /\ (s[1] = "Included" => i >= s[2])
                      /\ (s[1] = "Excluded" => i > s[2])
           upto(i) == /\ (e[1] = "Included" => i <= e[2])
                      /\ (e[1] = "Excluded" => i < e[2])
                      /\ (e[1] = "Unbounded" => i < N)
<1>2. ASSUME NEW i \in 0 .. N + 1 PROVE from(i) <=> Lo(s) <= i
  BY <1>1, BoundForms DEF Lo
<1>3. ASSUME NEW i \in 0 .. N + 1 PROVE upto(i) <=> i < Hi(e)
  BY <1>1, BoundForms DEF Hi
<1>4. ASSUME NEW i \in 0 .. N + 1
      PROVE  i \in Denoted(Span(s, e)) <=> from(i) /\ upto(i)
  BY DEF Denoted, Span
<1>5. Denoted(Span(s, e)) \subseteq 0 .. N + 1
  BY DEF Denoted
<1> HIDE DEF from, upto
<1>6. Lo(s) \in 0 .. N + 1 /\ Hi(e) \in 0 .. N + 1
  BY LoHi
<1>7. Lo(s) .. Hi(e) - 1 \subseteq 0 .. N + 1
  BY <1>1, <1>6
<1>8. ASSUME NEW i \in 0 .. N + 1
      PROVE  i \in Denoted(Span(s, e)) <=> i \in Lo(s) .. Hi(e) - 1
  BY <1>1, <1>2, <1>3, <1>4, <1>6
<1> QED BY <1>5, <1>7, <1>8

LEMMA FirstOf ==
  ASSUME NEW a \in Int, NEW b \in Int, a <= b
  PROVE  (CHOOSE i \in a .. b : \A j \in a .. b : i <= j) = a
<1>1. a \in a .. b /\ \A j \in a .. b : a <= j
  OBVIOUS
<1>2. ASSUME NEW i \in a .. b, \A j \in a .. b : i <= j PROVE i = a
  BY <1>1, <1>2
<1> QED BY <1>1, <1>2

----------------------------------------------------------------------------
(* get_bits, set_bits and the assertion on the value, for a legal range.   *)

LEMMA GetBits ==
  ASSUME NEW s \in Bounds, NEW e \in Bounds, rangeOk(Span(s, e), N), NEW w \in Word(N)
  PROVE  /\ get_bits(w, Span(s, e), N) \subseteq Nat
         /\ \A i \in Nat : i \in get_bits(w, Span(s, e), N) <=> i + Lo(s) \in w /\ i + Lo(s) < Hi(e)
<1>1. N \in Nat /\ Lo(s) \in 0 .. N /\ Hi(e) \in 0 .. N
  BY BitsAssumption, LoHi, RangeOk
<1>2. get_bits(w, Span(s, e), N) = Shr(Shr(Shl(w, N - Hi(e), N), N - Hi(e)), Lo(s))
  BY RegularRange DEF get_bits
<1> DEFINE g == Shr(Shr(Shl(w, N - Hi(e), N), N - Hi(e)), Lo(s))
<1>3. g \subseteq Nat /\ \A i \in Nat : i \in g <=> i + Lo(s) \in w /\ i + Lo(s) < Hi(e)
  BY <1>1, Window
<1> HIDE DEF g
<1>4. get_bits(w, Span(s, e), N) = g
  BY <1>2 DEF g
<1> QED BY <1>3, <1>4

LEMMA SetBitsIn ==
  ASSUME NEW s \in Bounds, NEW e \in Bounds, rangeOk(Span(s, e), N), NEW w \in Word(N), NEW v
  PROVE  /\ set_bits(w, Span(s, e), v, N) \in Word(N)
         /\ \A i \in 0 .. N - 1 :
              i \in set_bits(w, Span(s, e), v, N)
              <=> \/ i \in w /\ ~(Lo(s) <= i /\ i < Hi(e))
                  \/ i - Lo(s) \in v
<1>1. N \in Nat /\ Lo(s) \in 0 .. N /\ Hi(e) \in 0 .. N /\ Lo(s) <= Hi(e)
  BY BitsAssumption, LoHi, RangeOk
<1> DEFINE mask == {i \in 0 .. N - 1 : ~(Lo(s) <= i /\ i < Hi(e))}
<1>2. Not(Shl(Shr(Shr(Shl(0 .. N - 1, N - Hi(e), N), N - Hi(e)), Lo(s)), Lo(s), N), N) = mask
  BY <1>1, Mask
<1>3. set_bits(w, Span(s, e), v, N) = (w \cap mask) \cup Shl(v, Lo(s), N)
  BY <1>2, RegularRange DEF set_bits
<1>4. \A i \in 0 .. N - 1 : i \in Shl(v, Lo(s), N) <=> i - Lo(s) \in v
  BY InShl
<1>5. Shl(v, Lo(s), N) \subseteq 0 .. N - 1 /\ mask \subseteq 0 .. N - 1
  BY DEF Shl
<1> QED BY <1>3, <1>4, <1>5 DEF Word

LEMMA Fits ==
  ASSUME NEW s \in Bounds, NEW e \in Bounds, rangeOk(Span(s, e), N), NEW v \in Word(N)
  PROVE  fits(v, Span(s, e), N) <=> \A i \in v : Lo(s) + i < Hi(e)
<1>1. N \in Nat /\ Lo(s) \in 0 .. N /\ Hi(e) \in 0 .. N /\ Lo(s) < Hi(e)
  BY BitsAssumption, LoHi, RangeOk
<1> DEFINE k == N - (Hi(e) - Lo(s))
<1>2. k \in 0 .. N /\ N - k = Hi(e) - Lo(s)
  BY <1>1
<1>3. fits(v, Span(s, e), N) <=> Shr(Shl(v, k, N), k) = v
  BY RegularRange DEF fits
<1>4. Shr(Shl(v, k, N), k) = {i \in v : i < N - k}
  BY <1>1, <1>2, ShlShr
<1> HIDE DEF k
<1>5. v \subseteq Int
  BY DEF Word
<1>6. \A i \in v : i < N - k <=> Lo(s) + i < Hi(e)
  BY <1>1, <1>2, <1>5
<1> QED BY <1>3, <1>4, <1>6
----------------------------------------------------------------------------
(* The client "word", and the assertions of all clients.                   *)

\* The word has exactly the bits that the record says.
WordInv ==
  subject = "word" =>
    /\ word \in Word(N)
    /\ ~panicked => ref = [i \in 0 .. N - 1 |-> i \in word]

IInv ==
  /\ panicked \in BOOLEAN /\ misused \in BOOLEAN
  /\ AssertsAreExact
  /\ WordInv

\* bad and fails of SetBits are the same, and the first bit is Lo.
LEMMA SetBitsAsserts ==
  ASSUME NEW s \in Bounds, NEW e \in Bounds, NEW val \in Word(N)
  PROVE  LET bits == Denoted(Span(s, e))
             first == CHOOSE i \in bits : \A j \in bits : i <= j
             bad == \/ bits = {} \/ ~(bits \subseteq 0 .. N - 1)
                    \/ \E i \in val : first + i \notin bits
         IN  /\ bad <=> ~rangeOk(Span(s, e), N) \/ ~fits(val, Span(s, e), N)
             /\ ~bad => first = Lo(s)
<1> DEFINE bits == Denoted(Span(s, e))
           first == CHOOSE i \in bits : \A j \in bits : i <= j
           bad == \/ bits = {} \/ ~(bits \subseteq 0 .. N - 1)
                  \/ \E i \in val : first + i \notin bits
<1>1. N \in Nat /\ Lo(s) \in 0 .. N + 1 /\ Hi(e) \in 0 .. N + 1
  BY BitsAssumption, LoHi
<1>2. bits = Lo(s) .. Hi(e) - 1
  BY DenotedInterval
<1>3. Lo(s) < Hi(e) => first = Lo(s)
  BY <1>1, <1>2, FirstOf
<1> HIDE DEF first, bits
<1>4. rangeOk(Span(s, e), N) <=> Lo(s) < N /\ Hi(e) <= N /\ Lo(s) < Hi(e)
  BY RangeOk
<1>5. ~rangeOk(Span(s, e), N) => bad
  <2>1. SUFFICES ASSUME ~rangeOk(Span(s, e), N), bits # {}, bits \subseteq 0 .. N - 1 PROVE FALSE
    OBVIOUS
  <2>2. Lo(s) < Hi(e)
    BY <1>1, <1>2, <2>1
  <2>3. Lo(s) \in bits /\ Hi(e) - 1 \in bits
    BY <1>1, <1>2, <2>2
  <2>4. Lo(s) \in 0 .. N - 1 /\ Hi(e) - 1 \in 0 .. N - 1
    BY <2>1, <2>3
  <2> QED BY <1>1, <1>4, <2>1, <2>2, <2>4
<1>6. ASSUME rangeOk(Span(s, e), N) PROVE bad <=> ~fits(val, Span(s, e), N)
  <2>1. Lo(s) < N /\ Hi(e) <= N /\ Lo(s) < Hi(e)
    BY <1>4, <1>6
  <2>2. bits # {} /\ bits \subseteq 0 .. N - 1 /\ first = Lo(s)
    BY <1>1, <1>2, <1>3, <2>1
  <2>3. val \subseteq Nat
    BY DEF Word
  <2>4. \A i \in val : first + i \notin bits <=> ~(Lo(s) + i < Hi(e))
    BY <1>1, <1>2, <2>2, <2>3
  <2>5. fits(val, Span(s, e), N) <=> \A i \in val : Lo(s) + i < Hi(e)
    BY <1>6, Fits
  <2> QED BY <2>2, <2>4, <2>5
<1>7. ~bad => first = Lo(s)
  BY <1>3, <1>4, <1>5
<1> QED BY <1>5, <1>6, <1>7 DEF first, bits

LEMMA SetBitsIInv ==
  ASSUME NEW s \in Bounds, NEW e \in Bounds, NEW val \in Word(N), IInv, SetBits(Span(s, e), val)
  PROVE  IInv'
<1> DEFINE bits == Denoted(Span(s, e))
           first == CHOOSE i \in bits : \A j \in bits : i <= j
           bad == \/ bits = {} \/ ~(bits \subseteq 0 .. N - 1)
                  \/ \E i \in val : first + i \notin bits
           fails == ~rangeOk(Span(s, e), N) \/ ~fits(val, Span(s, e), N)
<1>1. /\ bad <=> fails
      /\ ~bad => first = Lo(s)
  BY SetBitsAsserts
<1>2. /\ subject = "word" /\ ~panicked /\ misused' = bad /\ panicked' = fails /\ subject' = "word"
      /\ word' = IF panicked' THEN word ELSE set_bits(word, Span(s, e), val, N)
      /\ ref' = [i \in DOMAIN ref |-> IF i \in bits /\ ~bad THEN i - first \in val ELSE ref[i]]
  BY DEF SetBits, Call
<1>3. bits = Lo(s) .. Hi(e) - 1 /\ Lo(s) \in Int /\ Hi(e) \in Int /\ N \in Nat
  BY DenotedInterval, LoHi, BitsAssumption
<1>4. word \in Word(N) /\ ref = [i \in 0 .. N - 1 |-> i \in word]
  BY <1>2 DEF IInv, WordInv
<1> HIDE DEF first, bits, bad
<1>5. (panicked' <=> misused') /\ panicked' \in BOOLEAN /\ misused' \in BOOLEAN
  BY <1>1, <1>2, Zenon DEF bad
<1> HIDE DEF fails
<1>6. CASE fails
  BY <1>2, <1>4, <1>5, <1>6 DEF IInv, AssertsAreExact, WordInv
<1>7. CASE ~fails
  <2>1. ~bad /\ first = Lo(s) /\ rangeOk(Span(s, e), N) /\ fits(val, Span(s, e), N)
    BY <1>1, <1>7 DEF fails
  <2>2. word' = set_bits(word, Span(s, e), val, N)
    BY <1>2, <1>7
  <2>3. /\ word' \in Word(N)
        /\ \A i \in 0 .. N - 1 :
             i \in word' <=> (i \in word /\ ~(Lo(s) <= i /\ i < Hi(e))) \/ i - Lo(s) \in val
    BY <1>4, <2>1, <2>2, SetBitsIn
  <2>4. \A i \in val : i \in Nat /\ Lo(s) + i < Hi(e)
    <3>1. val \subseteq Nat
      BY DEF Word
    <3> QED BY <2>1, <3>1, Fits
  <2>5. ASSUME NEW i \in 0 .. N - 1
        PROVE  (i \in word') = (IF i \in bits THEN i - first \in val ELSE i \in word)
    <3>1. i \in bits <=> Lo(s) <= i /\ i < Hi(e)
      BY <1>3
    <3>2. i - Lo(s) \in val => Lo(s) <= i /\ i < Hi(e)
      <4>1. SUFFICES ASSUME i - Lo(s) \in val PROVE Lo(s) <= i /\ i < Hi(e)
        OBVIOUS
      <4>2. i - Lo(s) \in Nat /\ Lo(s) + (i - Lo(s)) < Hi(e)
        BY <2>4, <4>1
      <4> QED BY <1>3, <4>2
    <3>3. i \in word' <=> (i \in word /\ ~(Lo(s) <= i /\ i < Hi(e))) \/ i - Lo(s) \in val
      BY <2>3
    <3> QED BY <2>1, <3>1, <3>2, <3>3
  <2>6. ref' = [i \in 0 .. N - 1 |-> IF i \in bits THEN i - first \in val ELSE i \in word]
    BY <1>2, <1>4, <2>1
  <2>7. ref' = [i \in 0 .. N - 1 |-> i \in word']
    BY <2>5, <2>6
  <2> QED BY <1>2, <1>5, <2>3, <2>7 DEF IInv, AssertsAreExact, WordInv
<1> QED BY <1>6, <1>7

LEMMA SetBitIInv ==
  ASSUME NEW bit \in 0 .. N, NEW val \in BOOLEAN, IInv, SetBit(bit, val)
  PROVE  IInv'
<1>1. /\ subject = "word" /\ ~panicked /\ subject' = "word"
      /\ misused' = (bit >= N) /\ panicked' = ~(bit < N)
      /\ word' = IF panicked' THEN word ELSE set_bit(word, bit, val)
      /\ ref' = [i \in DOMAIN ref |-> IF i = bit THEN val ELSE ref[i]]
  BY DEF SetBit, Call
<1>2. word \in Word(N) /\ ref = [i \in 0 .. N - 1 |-> i \in word] /\ N \in Nat
  BY <1>1, BitsAssumption DEF IInv, WordInv
<1>3. (panicked' <=> misused') /\ panicked' \in BOOLEAN /\ misused' \in BOOLEAN
  BY <1>1, <1>2
<1>4. CASE ~(bit < N)
  BY <1>1, <1>2, <1>3, <1>4 DEF IInv, AssertsAreExact, WordInv
<1>5. CASE bit < N
  <2>1. word' = IF val THEN word \cup {bit} ELSE word \ {bit}
    BY <1>1, <1>5 DEF set_bit
  <2>2. bit \in 0 .. N - 1
    BY <1>2, <1>5
  <2>3. word' \in Word(N)
    BY <1>2, <2>1, <2>2 DEF Word
  <2>4. \A i \in 0 .. N - 1 : (i \in word') = (IF i = bit THEN val ELSE i \in word)
    BY <2>1
  <2>5. ref' = [i \in 0 .. N - 1 |-> IF i = bit THEN val ELSE i \in word]
    BY <1>1, <1>2
  <2>6. ref' = [i \in 0 .. N - 1 |-> i \in word']
    BY <2>4, <2>5
  <2> QED BY <1>1, <1>3, <2>3, <2>6 DEF IInv, AssertsAreExact, WordInv
<1> QED BY <1>4, <1>5
\* The other clients are never refused a legal call either, and leave "word"
\* alone.
LEMMA OthersIInv ==
  ASSUME NEW client, NEW bad \in BOOLEAN, IInv, client # "word", Call(client, bad, bad)
  PROVE  IInv'
BY DEF IInv, AssertsAreExact, WordInv, Call

LEMMA LoopAsserts ==
  ASSUME NEW idx \in 0 .. MapSize, NEW len \in 0 .. MaxRun
  PROVE  Bytes!loopPanics(idx, len) <=> len > 0 /\ idx + len > MapSize
<1>1. idx \in Nat /\ len \in Nat /\ MapSize \in Nat
  BY BitsAssumption
<1>2. len > 0 /\ idx + len > MapSize => len - 1 \in 0 .. len - 1 /\ ~(idx + (len - 1) < MapSize)
  BY <1>1
<1>3. \A i \in 0 .. len - 1 : ~(idx + i < MapSize) => len > 0 /\ idx + len > MapSize
  BY <1>1
<1> QED BY <1>2, <1>3 DEF Bytes!loopPanics

LEMMA NextIInv == IInv /\ [Next]_vars => IInv'
<1> SUFFICES ASSUME IInv, [Next]_vars PROVE IInv'
  OBVIOUS
<1>1. ASSUME NEW bit \in 0 .. N, NEW val \in BOOLEAN, SetBit(bit, val) PROVE IInv'
  BY <1>1, SetBitIInv
<1>2. ASSUME NEW s \in Bounds, NEW e \in Bounds, NEW val \in Word(N),
             SetBits([start |-> s, end |-> e], val)
      PROVE  IInv'
  BY <1>2, SetBitsIInv DEF Span
<1>3. ASSUME NEW p \in Pointers, SetHandleAddr(p) PROVE IInv'
  BY <1>3, OthersIInv DEF SetHandleAddr
<1>4. ASSUME NEW val \in BOOLEAN, SetTrap(val) \/ SetPresent(val) PROVE IInv'
  BY <1>4, OthersIInv DEF SetTrap, SetPresent
<1>5. ASSUME NEW val \in PrivilegeLevel, SetPrivilegeLevel(val) \/ SetRpl(val) PROVE IInv'
  BY <1>5, OthersIInv DEF SetPrivilegeLevel, SetRpl
<1>6. ASSUME NEW i \in 0 .. 255, Index(i) PROVE IInv'
  <2>1. Call("table", i \in Refused, i \in Refused) /\ (i \in Refused) \in BOOLEAN
    BY <1>6 DEF Index
  <2> QED BY <2>1, OthersIInv
<1>7. ASSUME NEW write \in BOOLEAN, CpuUses(write) PROVE IInv'
  BY <1>7, OthersIInv DEF CpuUses
<1>8. ASSUME NEW idx \in 0 .. MapSize, NEW len \in 0 .. MaxRun,
             Flips(idx, len) \/ \E val \in BOOLEAN : Sets(idx, len, val)
      PROVE  IInv'
  <2> DEFINE bad == len > 0 /\ idx + len > MapSize
  <2>1. Call("bitmap", bad, Bytes!loopPanics(idx, len))
    BY <1>8 DEF Flips, Sets
  <2>2. Bytes!loopPanics(idx, len) = bad /\ bad \in BOOLEAN
    BY LoopAsserts DEF Bytes!loopPanics
  <2> HIDE DEF bad
  <2>3. Call("bitmap", bad, bad)
    BY <2>1, <2>2
  <2> QED BY <2>2, <2>3, OthersIInv
<1>9. CASE UNCHANGED vars
  BY <1>9 DEF vars, IInv, AssertsAreExact, WordInv
<1> QED BY <1>1, <1>2, <1>3, <1>4, <1>5, <1>6, <1>7, <1>8, <1>9 DEF Next

LEMMA InitIInv == Init => IInv
<1> SUFFICES ASSUME Init PROVE IInv
  OBVIOUS
<1>1. panicked = FALSE /\ misused = FALSE
  BY DEF Init
<1>2. subject = "word" => word \in Word(N) /\ ref = [i \in 0 .. N - 1 |-> i \in word]
  BY DEF Init
<1> QED BY <1>1, <1>2 DEF IInv, AssertsAreExact, WordInv

LEMMA Invariance == Spec => []IInv
BY InitIInv, NextIInv, PTL DEF Spec

\* In words of every width, and maps of every size, exactly the calls that
\* name bits that are not there, or values that do not fit, panic.
THEOREM AssertsExact == Spec => []AssertsAreExact
<1>1. IInv => AssertsAreExact
  BY DEF IInv
<1> QED BY <1>1, Invariance, PTL

\* A word of any width holds what set_bit and set_bits stored in it, and
\* get_bit and get_bits read it back through every form of range.
THEOREM WordsHold == Spec => []WordHolds
<1>1. IInv => WordHolds
  <2> SUFFICES ASSUME IInv, subject = "word", ~panicked
               PROVE  /\ word \in Word(N)
                      /\ \A i \in 0 .. N - 1 : get_bit(word, i) = ref[i]
                      /\ \A s, e \in Bounds :
                           LET r == [start |-> s, end |-> e]
                               bits == Denoted(r)
                           IN  rangeOk(r, N) =>
                                 LET first == CHOOSE i \in bits : \A j \in bits : i <= j
                                 IN  get_bits(word, r, N) = {i - first : i \in {j \in bits : ref[j]}}
    BY DEF WordHolds
  <2>1. word \in Word(N) /\ ref = [i \in 0 .. N - 1 |-> i \in word]
    BY DEF IInv, WordInv
  <2>2. \A i \in 0 .. N - 1 : get_bit(word, i) = ref[i]
    BY <2>1 DEF get_bit
  <2>3. ASSUME NEW s \in Bounds, NEW e \in Bounds, rangeOk(Span(s, e), N)
        PROVE  LET bits == Denoted(Span(s, e))
                   first == CHOOSE i \in bits : \A j \in bits : i <= j
               IN  get_bits(word, Span(s, e), N) = {i - first : i \in {j \in bits : ref[j]}}
    <3> DEFINE bits == Denoted(Span(s, e))
               first == CHOOSE i \in bits : \A j \in bits : i <= j
               g == get_bits(word, Span(s, e), N)
    <3>1. N \in Nat /\ Lo(s) \in 0 .. N /\ Hi(e) \in 0 .. N /\ Lo(s) < Hi(e)
      BY <2>3, BitsAssumption, LoHi, RangeOk
    <3>2. bits = Lo(s) .. Hi(e) - 1
      BY DenotedInterval
    <3>3. first = Lo(s)
      BY <3>1, <3>2, FirstOf
    <3>4. g \subseteq Nat /\ \A i \in Nat : i \in g <=> i + Lo(s) \in word /\ i + Lo(s) < Hi(e)
      BY <2>1, <2>3, GetBits
    <3> HIDE DEF bits, first, g
    <3>5. {j \in bits : ref[j]} = {j \in bits : j \in word}
      <4>1. \A j \in bits : j \in 0 .. N - 1
        BY <3>1, <3>2
      <4>2. \A j \in bits : ref[j] <=> j \in word
        BY <2>1, <4>1
      <4> QED BY <4>2
    <3>6. ASSUME NEW i \in g PROVE i \in {k - first : k \in {j \in bits : j \in word}}
      <4>1. i \in Nat /\ i + Lo(s) \in word /\ i + Lo(s) < Hi(e)
        BY <3>4, <3>6
      <4>2. i + Lo(s) \in bits /\ (i + Lo(s)) - first = i
        BY <3>1, <3>2, <3>3, <4>1
      <4> QED BY <4>1, <4>2
    <3>7. ASSUME NEW k \in bits, k \in word PROVE k - first \in g
      <4>1. k - first \in Nat /\ (k - first) + Lo(s) = k /\ k < Hi(e)
        BY <3>1, <3>2, <3>3
      <4> QED BY <3>4, <3>7, <4>1
    <3>8. g = {k - first : k \in {j \in bits : j \in word}}
      BY <3>6, <3>7
    <3> QED BY <3>5, <3>8 DEF bits, first, g
  <2> QED BY <2>1, <2>2, <2>3 DEF Span
<1> QED BY <1>1, Invariance, PTL

----------------------------------------------------------------------------
(* The clients whose words are packed by fields.                           *)

\* The packed object is the packing of the record, for the record's fields in
\* their ranges.
EntryInv ==
  subject = "entry" =>
    /\ ref \in [pointer : Word(32), cs : Word(16), trap : BOOLEAN, level : PrivilegeLevel,
                present : BOOLEAN]
    /\ word = Entry(ref.pointer, ref.cs, Packed(ref.trap, ref.level, ref.present))

SelectorInv ==
  subject = "selector" =>
    /\ ref \in [index : Word(13), rpl : PrivilegeLevel]
    /\ word = selector_new(ref.index, ref.rpl)

PteInv ==
  subject = "pte" =>
    /\ ref \in [frame : Word(20), accessed : BOOLEAN, dirty : BOOLEAN]
    /\ word = Pte(ref.frame, ref.accessed, ref.dirty)

TableInv == subject = "table" => word = ref

FieldsInv == EntryInv /\ SelectorInv /\ PteInv /\ TableInv

LEMMA NoBits == \A n \in Nat : {} \in Word(n)
BY DEF Word

LEMMA InitFields == Init => FieldsInv
<1> SUFFICES ASSUME Init PROVE FieldsInv
  OBVIOUS
<1>1. EntryInv
  <2>1. SUFFICES ASSUME subject = "entry" PROVE EntryInv
    BY DEF EntryInv
  <2>2. PICK no \in BOOLEAN : no = FALSE
    OBVIOUS
  <2>3. PICK none \in Word(32) : none = {}
    BY NoBits
  <2>4. Ring0 \in PrivilegeLevel
    BY DEF Ring0, PrivilegeLevel
  <2>5. option_new(no, Ring0, no) = Packed(no, Ring0, no)
    BY <2>4, NewPacked
  <2>6. Shr(none, 16) = {} /\ none \cap (0 .. 15) = {} /\ none \in Word(16)
    BY <2>3, NoBits DEF Shr
  <2>7. /\ word = entry_default
        /\ ref = [pointer |-> none, cs |-> none, trap |-> no, level |-> Ring0, present |-> no]
    BY <2>1, <2>2, <2>3 DEF Init
  <2>8. word = Entry(none, none, Packed(no, Ring0, no))
    BY <2>2, <2>3, <2>5, <2>6, <2>7 DEF entry_default, Entry
  <2> QED BY <2>4, <2>6, <2>7, <2>8 DEF EntryInv
<1>2. SelectorInv
  <2>1. Indices \subseteq Word(13)
    BY BitsAssumption
  <2> QED BY <2>1 DEF Init, SelectorInv
<1>3. PteInv
  <2>1. SUFFICES ASSUME subject = "pte" PROVE PteInv
    BY DEF PteInv
  <2>2. Frames \subseteq Word(20)
    BY BitsAssumption
  <2>3. /\ ref \in [frame : Frames, accessed : {FALSE}, dirty : {FALSE}]
        /\ word = Shl(ref.frame, 12, 32) \cup {0, 1, 2}
    BY <2>1 DEF Init
  <2>4. ref \in [frame : Word(20), accessed : BOOLEAN, dirty : BOOLEAN]
    BY <2>2, <2>3
  <2>5. ref.accessed = FALSE /\ ref.dirty = FALSE
    BY <2>3
  <2>6. word = Pte(ref.frame, ref.accessed, ref.dirty)
    BY <2>3, <2>5, Zenon DEF Pte
  <2> QED BY <2>4, <2>6 DEF PteInv
<1>4. TableInv
  BY ExceptionVectors DEF Init, TableInv
<1> QED BY <1>1, <1>2, <1>3, <1>4 DEF FieldsInv

\* The calls of an interrupt entry.
LEMMA EntryStep ==
  ASSUME EntryInv,
         \/ \E p \in Pointers : SetHandleAddr(p)
         \/ \E val \in BOOLEAN : SetTrap(val) \/ SetPresent(val)
         \/ \E val \in PrivilegeLevel : SetPrivilegeLevel(val)
  PROVE  EntryInv' /\ subject' = "entry"
<1> DEFINE Refs == [pointer : Word(32), cs : Word(16), trap : BOOLEAN, level : PrivilegeLevel,
                    present : BOOLEAN]
<1>1. subject = "entry" /\ subject' = "entry"
  BY DEF SetHandleAddr, SetTrap, SetPresent, SetPrivilegeLevel, Call
<1>2. ref \in Refs /\ word = Entry(ref.pointer, ref.cs, Packed(ref.trap, ref.level, ref.present))
  BY <1>1 DEF EntryInv
<1>3. ASSUME NEW p \in Pointers, SetHandleAddr(p) PROVE EntryInv'
  <2>1. PICK no \in BOOLEAN, yes \in BOOLEAN : no = FALSE /\ yes = TRUE
    OBVIOUS
  <2>2. Ring0 \in PrivilegeLevel
    BY DEF Ring0, PrivilegeLevel
  <2>3. CS \in Word(16)
    <3>1. {0} \in Word(13)
      BY DEF Word
    <3>2. PICK ix \in Word(13) : ix = {0}
      BY <3>1
    <3>3. selector_new(ix, Ring0) \in Word(16)
      BY <2>2, SelectorBits
    <3> QED BY <3>2, <3>3 DEF CS
  <2>4. p \in Word(32)
    BY BitsAssumption
  <2>5. option_new(no, Ring0, yes) = Packed(no, Ring0, yes)
    BY <2>2, NewPacked
  <2>6. /\ word' = Entry(p, CS, Packed(no, Ring0, yes))
        /\ ref' = [pointer |-> p, cs |-> CS, trap |-> no, level |-> Ring0, present |-> yes]
    BY <1>3, <2>1, <2>5 DEF SetHandleAddr, set_handle_addr, Entry
  <2> QED BY <2>2, <2>3, <2>4, <2>6 DEF EntryInv
<1>4. ASSUME NEW val \in BOOLEAN, SetTrap(val) PROVE EntryInv'
  <2>1. /\ word' = [word EXCEPT !.options = set_trap(@, val)]
        /\ ref' = [ref EXCEPT !.trap = val]
    BY <1>4 DEF SetTrap
  <2>2. word' = Entry(ref.pointer, ref.cs, set_trap(Packed(ref.trap, ref.level, ref.present), val))
    BY <1>2, <2>1 DEF Entry
  <2>3. word' = Entry(ref.pointer, ref.cs, Packed(val, ref.level, ref.present))
    BY <2>2, SetTrapPacked
  <2>4. /\ ref' \in Refs /\ ref'.pointer = ref.pointer /\ ref'.cs = ref.cs
        /\ ref'.trap = val /\ ref'.level = ref.level /\ ref'.present = ref.present
    BY <1>2, <2>1
  <2> QED BY <2>3, <2>4 DEF EntryInv
<1>5. ASSUME NEW val \in BOOLEAN, SetPresent(val) PROVE EntryInv'
  <2>1. /\ word' = [word EXCEPT !.options = set_present(@, val)]
        /\ ref' = [ref EXCEPT !.present = val]
    BY <1>5 DEF SetPresent
  <2>2. word' = Entry(ref.pointer, ref.cs,
                      set_present(Packed(ref.trap, ref.level, ref.present), val))
    BY <1>2, <2>1 DEF Entry
  <2>3. word' = Entry(ref.pointer, ref.cs, Packed(ref.trap, ref.level, val))
    BY <2>2, SetPresentPacked
  <2>4. /\ ref' \in Refs /\ ref'.pointer = ref.pointer /\ ref'.cs = ref.cs
        /\ ref'.trap = ref.trap /\ ref'.level = ref.level /\ ref'.present = val
    BY <1>2, <2>1
  <2> QED BY <2>3, <2>4 DEF EntryInv
<1>6. ASSUME NEW val \in PrivilegeLevel, SetPrivilegeLevel(val) PROVE EntryInv'
  <2>1. /\ word' = [word EXCEPT !.options = set_privilege_level(@, val)]
        /\ ref' = [ref EXCEPT !.level = val]
    BY <1>6 DEF SetPrivilegeLevel
  <2>2. word' = Entry(ref.pointer, ref.cs,
                      set_privilege_level(Packed(ref.trap, ref.level, ref.present), val))
    BY <1>2, <2>1 DEF Entry
  <2>3. word' = Entry(ref.pointer, ref.cs, Packed(ref.trap, val, ref.present))
    BY <2>2, SetLevelPacked
  <2>4. /\ ref' \in Refs /\ ref'.pointer = ref.pointer /\ ref'.cs = ref.cs
        /\ ref'.trap = ref.trap /\ ref'.level = val /\ ref'.present = ref.present
    BY <1>2, <2>1
  <2> QED BY <2>3, <2>4 DEF EntryInv
<1> QED BY <1>1, <1>3, <1>4, <1>5, <1>6

LEMMA SelectorStep ==
  ASSUME SelectorInv, NEW val \in PrivilegeLevel, SetRpl(val)
  PROVE  SelectorInv' /\ subject' = "selector"
<1>1. /\ subject = "selector" /\ subject' = "selector"
      /\ word' = set_rpl(word, val) /\ ref' = [ref EXCEPT !.rpl = val]
  BY DEF SetRpl, Call
<1>2. ref \in [index : Word(13), rpl : PrivilegeLevel] /\ word = selector_new(ref.index, ref.rpl)
  BY <1>1 DEF SelectorInv
<1>3. word' = selector_new(ref.index, val)
  BY <1>1, <1>2, SelectorSet
<1>4. /\ ref' \in [index : Word(13), rpl : PrivilegeLevel]
      /\ ref'.index = ref.index /\ ref'.rpl = val
  BY <1>1, <1>2
<1> QED BY <1>1, <1>3, <1>4 DEF SelectorInv

LEMMA PteStep ==
  ASSUME PteInv, NEW write \in BOOLEAN, CpuUses(write)
  PROVE  PteInv' /\ subject' = "pte"
<1>1. /\ subject = "pte" /\ subject' = "pte"
      /\ word' = word \cup IF write THEN {5, 6} ELSE {5}
      /\ ref' = [ref EXCEPT !.accessed = TRUE, !.dirty = @ \/ write]
  BY DEF CpuUses, Call
<1>2. /\ ref \in [frame : Word(20), accessed : BOOLEAN, dirty : BOOLEAN]
      /\ word = Pte(ref.frame, ref.accessed, ref.dirty)
  BY <1>1 DEF PteInv
<1>3. word' = Pte(ref.frame, TRUE, ref.dirty \/ write)
  BY <1>1, <1>2, PteMark
<1>4. /\ ref' \in [frame : Word(20), accessed : BOOLEAN, dirty : BOOLEAN]
      /\ ref'.frame = ref.frame /\ ref'.accessed = TRUE /\ ref'.dirty = (ref.dirty \/ write)
  BY <1>1, <1>2
<1> QED BY <1>1, <1>3, <1>4 DEF PteInv

LEMMA TableStep ==
  ASSUME TableInv, NEW i \in 0 .. 255, Index(i)
  PROVE  TableInv' /\ subject' = "table"
<1>1. /\ subject = "table" /\ subject' = "table"
      /\ word' = IF i \in Refused THEN word ELSE Vector(index(i)[1], index(i)[2])
      /\ ref' = IF i \in Refused THEN ref ELSE i
  BY DEF Index, Call
<1>2. word = ref
  BY <1>1 DEF TableInv
<1>3. CASE i \in Refused
  BY <1>1, <1>2, <1>3 DEF TableInv
<1>4. CASE i \notin Refused
  <2>1. Vector(index(i)[1], index(i)[2]) = i
    BY <1>4, IndexVector
  <2> QED BY <1>1, <1>4, <2>1 DEF TableInv
<1> QED BY <1>3, <1>4

\* A step that leaves a client what it is disturbs the invariant of no other.
LEMMA OtherFields ==
  /\ subject' # "entry" => EntryInv'
  /\ subject' # "selector" => SelectorInv'
  /\ subject' # "pte" => PteInv'
  /\ subject' # "table" => TableInv'
BY DEF EntryInv, SelectorInv, PteInv, TableInv

LEMMA NextFields == FieldsInv /\ [Next]_vars => FieldsInv'
<1> SUFFICES ASSUME FieldsInv, [Next]_vars PROVE FieldsInv'
  OBVIOUS
<1>1. ASSUME NEW bit \in 0 .. N, NEW val \in BOOLEAN, SetBit(bit, val) PROVE subject' = "word"
  BY <1>1 DEF SetBit, Call
<1>2. ASSUME NEW s \in Bounds, NEW e \in Bounds, NEW val \in Word(N),
             SetBits([start |-> s, end |-> e], val)
      PROVE  subject' = "word"
  BY <1>2, Zenon DEF SetBits, Call
<1>3. ASSUME \/ \E p \in Pointers : SetHandleAddr(p)
             \/ \E val \in BOOLEAN : SetTrap(val) \/ SetPresent(val)
             \/ \E val \in PrivilegeLevel : SetPrivilegeLevel(val)
      PROVE  FieldsInv'
  <2>1. EntryInv
    BY DEF FieldsInv
  <2>2. EntryInv' /\ subject' = "entry"
    BY <1>3, <2>1, EntryStep
  <2> QED BY <2>2, OtherFields DEF FieldsInv
<1>4. ASSUME NEW val \in PrivilegeLevel, SetRpl(val) PROVE FieldsInv'
  BY <1>4, SelectorStep, OtherFields DEF FieldsInv
<1>5. ASSUME NEW i \in 0 .. 255, Index(i) PROVE FieldsInv'
  BY <1>5, TableStep, OtherFields DEF FieldsInv
<1>6. ASSUME NEW write \in BOOLEAN, CpuUses(write) PROVE FieldsInv'
  BY <1>6, PteStep, OtherFields DEF FieldsInv
<1>7. ASSUME NEW idx \in 0 .. MapSize, NEW len \in 0 .. MaxRun,
             Flips(idx, len) \/ \E val \in BOOLEAN : Sets(idx, len, val)
      PROVE  subject' = "bitmap"
  BY <1>7 DEF Flips, Sets, Call
<1>8. CASE subject' \in {"word", "bitmap"}
  BY <1>8, OtherFields DEF FieldsInv
<1>9. CASE UNCHANGED vars
  BY <1>9 DEF vars, FieldsInv, EntryInv, SelectorInv, PteInv, TableInv
<1> QED BY <1>1, <1>2, <1>3, <1>4, <1>5, <1>6, <1>7, <1>8, <1>9 DEF Next

LEMMA FieldsInvariance == Spec => []FieldsInv
BY InitFields, NextFields, PTL DEF Spec

\* For every number that it does not refuse, index gives the entry that lies at
\* that vector of the table, and the last entry is vector 255.
THEOREM IndexVectors == Spec => []IndexIsVector
<1>1. FieldsInv => IndexIsVector
  <2>1. Vector("interrupts", 223) = 32 + 223
    BY DeviceVectors
  <2> QED BY <2>1 DEF FieldsInv, TableInv, IndexIsVector
<1> QED BY <1>1, FieldsInvariance, PTL

\* Interrupt entries, selectors and page table entries decode to what was
\* stored, for every handler address, descriptor index and page frame, after
\* any sequence of their setters.
THEOREM FieldsDecoded == Spec => []FieldsDecode
<1>1. FieldsInv => EntryDecodes
  <2> SUFFICES ASSUME FieldsInv, subject = "entry" PROVE EntryDecodes
    BY DEF EntryDecodes
  <2> DEFINE opts == Packed(ref.trap, ref.level, ref.present)
             gate == InMemory(word)
  <2>1. /\ ref.pointer \in Word(32) /\ ref.cs \in Word(16) /\ ref.trap \in BOOLEAN
        /\ ref.level \in PrivilegeLevel /\ ref.present \in BOOLEAN
        /\ word = Entry(ref.pointer, ref.cs, opts)
    BY DEF FieldsInv, EntryInv
  <2>2. opts \in Word(16)
    BY InPacked
  <2>3. /\ (gate \cap (0 .. 15)) \cup Shl(Shr(gate, 48), 16, 32) = ref.pointer
        /\ Shr(gate, 16) \cap (0 .. 15) = ref.cs
    BY <2>1, <2>2, PointerDecodes
  <2>4. /\ Shr(gate, 40) \cap (0 .. 4) = {1, 2, 3} \cup IF ref.trap THEN {0} ELSE {}
        /\ Shr(gate, 45) \cap (0 .. 1) = ref.level
        /\ 47 \in gate <=> ref.present
        /\ gate \cap (32 .. 39) = {}
    BY <2>1, OptionsDecode
  <2>5. word.options = opts
    BY <2>1 DEF Entry
  <2>6. /\ is_trap(word.options) = ref.trap /\ is_present(word.options) = ref.present
        /\ privilege_level(word.options) = ref.level
    BY <2>1, <2>5, GetPacked
  <2> QED BY <2>3, <2>4, <2>6 DEF EntryDecodes
<1>2. FieldsInv => SelectorDecodes
  BY SelectorDecode DEF FieldsInv, SelectorInv, SelectorDecodes
<1>3. FieldsInv => PteDecodes
  <2> SUFFICES ASSUME FieldsInv, subject = "pte" PROVE PteDecodes
    BY DEF PteDecodes
  <2>1. /\ ref.frame \in Word(20) /\ ref.accessed \in BOOLEAN /\ ref.dirty \in BOOLEAN
        /\ word = Pte(ref.frame, ref.accessed, ref.dirty)
    BY DEF FieldsInv, PteInv
  <2>2. addr(word) = Shl(ref.frame, 12, 32) /\ available(word) = {}
    BY <2>1, PteAddr
  <2>3. /\ present(word) /\ rw(word) /\ is_user(word)
        /\ accessed(word) = ref.accessed /\ dirty(word) = ref.dirty
        /\ ~(write_through(word) \/ cache_disable(word) \/ page_attribute(word) \/ global(word))
    BY <2>1, PteFlags
  <2>4. ASSUME NEW offset \in {{}, {0}, 0 .. 11}
        PROVE  pg_round_down(addr(word) \cup offset) = addr(word)
    <3>1. offset \in Word(12)
      BY DEF Word
    <3> QED BY <2>1, <2>2, <3>1, RoundsDown
  <2> QED BY <2>2, <2>3, <2>4 DEF PteDecodes
<1>4. FieldsInv => FieldsDecode
  BY <1>1, <1>2, <1>3 DEF FieldsDecode
<1> QED BY <1>4, FieldsInvariance, PTL

----------------------------------------------------------------------------
(* The loops of BitMap.  tlapm has no induction over data, but every       *)
(* nonempty set of naturals has a least element, and a loop that differed  *)
(* from its closed form would do so first in some turn.                    *)

LEMMA LeastNatural ==
  ASSUME NEW T \in SUBSET Nat, T # {}
  PROVE  \E x \in T : \A y \in T : x <= y
<1> DEFINE R == OpToRel(<, Nat)
<1>1. IsWellFoundedOn(R, Nat)
  BY NatLessThanWellFounded
<1> HIDE DEF R
<1>2. PICK x \in T : \A y \in T : ~ (<<y, x>> \in R)
  BY <1>1, WFMin
<1>3. ASSUME NEW y \in T PROVE x <= y
  <2>1. y < x => <<y, x>> \in R
    BY DEF R, OpToRel
  <2> QED BY <2>1, <1>2
<1> QED BY <1>2, <1>3

\* A property of 0 that each turn passes on holds after the last one.
LEMMA LoopInduction ==
  ASSUME NEW len \in Nat, NEW P, 0 \in P, \A i \in 1 .. len : i - 1 \in P => i \in P
  PROVE  \A i \in 0 .. len : i \in P
<1> DEFINE bad == {i \in 0 .. len : i \notin P}
<1>1. SUFFICES ASSUME bad # {} PROVE FALSE
  OBVIOUS
<1>2. bad \in SUBSET Nat
  OBVIOUS
<1>3. PICK x \in bad : \A y \in bad : x <= y
  BY <1>1, <1>2, LeastNatural
<1>4. x \in 1 .. len /\ x \notin P
  BY <1>3
<1>5. x - 1 \in 0 .. len /\ x - 1 \notin bad
  BY <1>3, <1>4
<1> QED BY <1>4, <1>5

\* ... and one of the last turn that each turn takes from the next holds at 0.
LEMMA ScanInduction ==
  ASSUME NEW low \in Int, NEW high \in Int, low <= high, NEW P, high \in P,
         \A i \in low .. high - 1 : i + 1 \in P => i \in P
  PROVE  \A i \in low .. high : i \in P
<1> DEFINE Q == {k \in 0 .. high - low : high - k \in P}
<1>1. 0 \in Q
  OBVIOUS
<1>2. ASSUME NEW k \in 1 .. high - low, k - 1 \in Q PROVE k \in Q
  <2>1. high - (k - 1) \in P /\ high - (k - 1) = (high - k) + 1 /\ high - k \in low .. high - 1
    BY <1>2
  <2> QED BY <2>1
<1>3. high - low \in Nat
  OBVIOUS
<1> HIDE DEF Q
<1>4. \A k \in 0 .. high - low : k \in Q
  BY <1>1, <1>2, <1>3, LoopInduction
<1>5. ASSUME NEW i \in low .. high PROVE i \in P
  <2>1. high - i \in 0 .. high - low /\ high - (high - i) = i
    OBVIOUS
  <2>2. high - i \in Q
    BY <1>4, <2>1
  <2> QED BY <2>1, <2>2 DEF Q
<1> QED BY <1>5

----------------------------------------------------------------------------
(* The bytes of a BitMap.                                                  *)

\* The memory whose one bits are S.
MemOf(S) == [k \in 0 .. MapMemory - 1 |-> {b \in 0 .. 7 : 8 * k + b \in S}]

LEMMA ByteOf ==
  ASSUME NEW j \in 0 .. 8 * MapMemory - 1
  PROVE  /\ j \div 8 \in 0 .. MapMemory - 1 /\ j % 8 \in 0 .. 7
         /\ 8 * (j \div 8) + (j % 8) = j
         /\ \A k \in Nat, b \in 0 .. 7 : 8 * k + b = j <=> k = j \div 8 /\ b = j % 8
<1>1. MapMemory \in Nat
  BY BitsAssumption
<1>2. j \div 8 \in 0 .. MapMemory - 1 /\ j % 8 \in 0 .. 7 /\ 8 * (j \div 8) + (j % 8) = j
  BY <1>1, SMT
<1>3. ASSUME NEW k \in Nat, NEW b \in 0 .. 7, 8 * k + b = j PROVE k = j \div 8 /\ b = j % 8
  BY <1>3, SMT
<1> QED BY <1>2, <1>3, SMT

LEMMA TestIs ==
  ASSUME NEW S, NEW j \in 0 .. 8 * MapMemory - 1
  PROVE  Bytes!test(MemOf(S), j) = (j \in S)
<1>1. /\ j \div 8 \in 0 .. MapMemory - 1 /\ j % 8 \in 0 .. 7
      /\ 8 * (j \div 8) + (j % 8) = j
  BY ByteOf
<1>2. MemOf(S)[j \div 8] = {b \in 0 .. 7 : 8 * (j \div 8) + b \in S}
  BY <1>1 DEF MemOf
<1>3. j % 8 \in MemOf(S)[j \div 8] <=> j \in S
  BY <1>1, <1>2
<1>4. Bytes!test(MemOf(S), j) <=> j \in S
  BY <1>3 DEF Bytes!test
<1>5. Bytes!test(MemOf(S), j) \in BOOLEAN
  BY DEF Bytes!test
<1> QED BY <1>4, <1>5

LEMMA SamePlace ==
  ASSUME NEW k \in Nat, NEW q \in Nat, NEW b \in 0 .. 7, NEW r \in 0 .. 7
  PROVE  8 * k + b \in Nat /\ (8 * k + b = 8 * q + r <=> k = q /\ b = r)
OBVIOUS

\* m is the memory with one bits S but for bit r of byte q, which is that of T.
Writes(m, S, T, q, r) ==
  /\ m \in [0 .. MapMemory - 1 -> SUBSET (0 .. 7)]
  /\ q \in 0 .. MapMemory - 1 /\ r \in 0 .. 7
  /\ \A k \in 0 .. MapMemory - 1 : k # q => m[k] = MemOf(S)[k]
  /\ r \in m[q] <=> 8 * q + r \in T
  /\ \A b \in 0 .. 7 : b # r => (b \in m[q] <=> 8 * q + b \in S)
  /\ \A i \in Nat : i # 8 * q + r => (i \in T <=> i \in S)

LEMMA WriteIs ==
  ASSUME NEW m, NEW S, NEW T, NEW q, NEW r, Writes(m, S, T, q, r)
  PROVE  m = MemOf(T)
<1>1. MapMemory \in Nat
  BY BitsAssumption
<1>2. ASSUME NEW k \in 0 .. MapMemory - 1 PROVE m[k] = MemOf(T)[k]
  <2>1. /\ MemOf(T)[k] = {b \in 0 .. 7 : 8 * k + b \in T}
        /\ MemOf(S)[k] = {b \in 0 .. 7 : 8 * k + b \in S}
    BY DEF MemOf
  <2>2. \A b \in 0 .. 7 : 8 * k + b \in Nat /\ (8 * k + b = 8 * q + r <=> k = q /\ b = r)
    <3>1. k \in Nat /\ q \in Nat /\ r \in 0 .. 7
      BY <1>1 DEF Writes
    <3> QED BY <3>1, SamePlace
  <2>3. ASSUME NEW b \in 0 .. 7 PROVE 8 * k + b \in T <=> IF k = q /\ b = r THEN r \in m[q]
                                                          ELSE 8 * k + b \in S
    BY <2>2 DEF Writes
  <2>4. CASE k # q
    BY <2>1, <2>3, <2>4 DEF Writes
  <2>5. CASE k = q
    <3>1. ASSUME NEW b \in 0 .. 7 PROVE b \in m[k] <=> 8 * k + b \in T
      BY <2>3, <2>5 DEF Writes
    <3>2. m[k] \subseteq 0 .. 7
      BY DEF Writes
    <3> QED BY <2>1, <3>1, <3>2
  <2> QED BY <2>4, <2>5
<1>3. MemOf(T) = [k \in 0 .. MapMemory - 1 |-> MemOf(T)[k]]
  BY DEF MemOf
<1> QED BY <1>2, <1>3 DEF Writes

LEMMA FlipIs ==
  ASSUME NEW S, NEW j \in 0 .. 8 * MapMemory - 1
  PROVE  Bytes!flip(MemOf(S), j) = MemOf((S \ {j}) \cup ({j} \ S))
<1> DEFINE q == j \div 8
           r == j % 8
           T == (S \ {j}) \cup ({j} \ S)
           old == MemOf(S)[q]
           byte == (old \ {r}) \cup ({r} \ old)
           m == [MemOf(S) EXCEPT ![q] = byte]
<1>1. q \in 0 .. MapMemory - 1 /\ r \in 0 .. 7 /\ 8 * q + r = j
  BY ByteOf
<1>2. Bytes!flip(MemOf(S), j) = m
  BY DEF Bytes!flip
<1> HIDE DEF q, r
<1>3. old = {b \in 0 .. 7 : 8 * q + b \in S}
  BY <1>1 DEF MemOf
<1>4. (8 * q + r \in T <=> j \notin S) /\ \A i \in Nat : i # 8 * q + r => (i \in T <=> i \in S)
  BY <1>1
<1> HIDE DEF old, T
<1>5. /\ byte \in SUBSET (0 .. 7)
      /\ r \in byte <=> 8 * q + r \in T
      /\ \A b \in 0 .. 7 : b # r => (b \in byte <=> 8 * q + b \in S)
  BY <1>1, <1>3, <1>4
<1> HIDE DEF byte
<1>6. /\ m \in [0 .. MapMemory - 1 -> SUBSET (0 .. 7)] /\ m[q] = byte
      /\ \A k \in 0 .. MapMemory - 1 : k # q => m[k] = MemOf(S)[k]
  BY <1>1, <1>5 DEF MemOf
<1> HIDE DEF m
<1>7. Writes(m, S, T, q, r)
  BY <1>1, <1>4, <1>5, <1>6 DEF Writes
<1>8. m = MemOf(T)
  BY <1>7, WriteIs
<1> QED BY <1>2, <1>8 DEF T

LEMMA SetIs ==
  ASSUME NEW S, NEW j \in 0 .. 8 * MapMemory - 1, NEW val \in BOOLEAN, NEW T,
         T = IF val THEN S \cup {j} ELSE S \ {j}
  PROVE  Bytes!set(MemOf(S), j, val) = MemOf(T)
<1> DEFINE q == j \div 8
           r == j % 8
           old == MemOf(S)[q]
           byte == IF val THEN old \cup {r} ELSE old \ {r}
           m == [MemOf(S) EXCEPT ![q] = byte]
<1>1. q \in 0 .. MapMemory - 1 /\ r \in 0 .. 7 /\ 8 * q + r = j
  BY ByteOf
<1>2. Bytes!set(MemOf(S), j, val) = m
  BY DEF Bytes!set, Bytes!mark, Bytes!clear
<1> HIDE DEF q, r
<1>3. old = {b \in 0 .. 7 : 8 * q + b \in S}
  BY <1>1 DEF MemOf
<1>4. (8 * q + r \in T <=> val) /\ \A i \in Nat : i # 8 * q + r => (i \in T <=> i \in S)
  BY <1>1
<1> HIDE DEF old
<1>5. /\ byte \in SUBSET (0 .. 7)
      /\ r \in byte <=> 8 * q + r \in T
      /\ \A b \in 0 .. 7 : b # r => (b \in byte <=> 8 * q + b \in S)
  BY <1>1, <1>3, <1>4
<1> HIDE DEF byte
<1>6. /\ m \in [0 .. MapMemory - 1 -> SUBSET (0 .. 7)] /\ m[q] = byte
      /\ \A k \in 0 .. MapMemory - 1 : k # q => m[k] = MemOf(S)[k]
  BY <1>1, <1>5 DEF MemOf
<1> HIDE DEF m
<1>7. Writes(m, S, T, q, r)
  BY <1>1, <1>4, <1>5, <1>6 DEF Writes
<1>8. m = MemOf(T)
  BY <1>7, WriteIs
<1> QED BY <1>2, <1>8

\* The bits that the first i turns of a loop from idx reach.
Run(idx, i) == {j \in idx .. idx + i - 1 : j < MapSize}

LEMMA RunStep ==
  ASSUME NEW idx \in Nat, NEW i \in Nat \ {0}
  PROVE  /\ Run(idx, 0) = {}
         /\ idx + i > MapSize => Run(idx, i) = Run(idx, i - 1)
         /\ idx + i <= MapSize => /\ Run(idx, i) = Run(idx, i - 1) \cup {idx + i - 1}
                                  /\ idx + i - 1 \notin Run(idx, i - 1)
                                  /\ idx + i - 1 \in 0 .. 8 * MapMemory - 1
<1>1. MapSize \in Nat /\ MapMemory \in Nat /\ 8 * MapMemory >= MapSize
  BY BitsAssumption
<1>2. Run(idx, 0) = {}
  BY DEF Run
<1>3. idx + i > MapSize => Run(idx, i) = Run(idx, i - 1)
  BY <1>1 DEF Run
<1>4. idx + i <= MapSize => Run(idx, i) = Run(idx, i - 1) \cup {idx + i - 1}
  BY <1>1 DEF Run
<1>5. idx + i <= MapSize => idx + i - 1 \notin Run(idx, i - 1) /\ idx + i - 1 \in 0 .. 8 * MapMemory - 1
  BY <1>1 DEF Run
<1> QED BY <1>2, <1>3, <1>4, <1>5

\* The loop of flips, as a condition on the function that it computes.
FlipLoop(f, d, idx, len) ==
  [i \in 0 .. len |-> IF i = 0 THEN d
                      ELSE IF idx + i > MapSize THEN f[i - 1]
                      ELSE Bytes!flip(f[i - 1], idx + i - 1)]

LEMMA FlipsLoop ==
  ASSUME NEW d, NEW idx, NEW len, NEW g, g = FlipLoop(g, d, idx, len)
  PROVE  \E f : f = FlipLoop(f, d, idx, len) /\ Bytes!flips(d, idx, len) = f[len]
<1> DEFINE after == CHOOSE f : f = FlipLoop(f, d, idx, len)
<1>1. after = FlipLoop(after, d, idx, len)
  OBVIOUS
<1>2. Bytes!flips(d, idx, len) = after[len]
  BY DEF Bytes!flips, FlipLoop
<1> HIDE DEF after
<1> QED BY <1>1, <1>2

Flipped(S, R) == (S \ R) \cup (R \ S)

\* flips inverts the bits of the run and no others.
LEMMA FlipsIs ==
  ASSUME NEW S, NEW idx \in Nat, NEW len \in Nat
  PROVE  Bytes!flips(MemOf(S), idx, len) = MemOf(Flipped(S, Run(idx, len)))
<1> DEFINE G(i) == MemOf(Flipped(S, Run(idx, i)))
           g == [i \in 0 .. len |-> G(i)]
<1>1. G(0) = MemOf(S)
  <2>1. Run(idx, 0) = {}
    BY RunStep
  <2>2. Flipped(S, {}) = S
    BY DEF Flipped
  <2> QED BY <2>1, <2>2
<1>2. ASSUME NEW i \in 1 .. len
      PROVE  G(i) = IF idx + i > MapSize THEN G(i - 1) ELSE Bytes!flip(G(i - 1), idx + i - 1)
  <2> DEFINE j == idx + i - 1
             R == Run(idx, i - 1)
             B == Flipped(S, R)
  <2>1. CASE idx + i > MapSize
    <3>1. Run(idx, i) = Run(idx, i - 1)
      BY <2>1, RunStep
    <3> QED BY <2>1, <3>1
  <2>2. CASE ~(idx + i > MapSize)
    <3>1. idx + i <= MapSize
      BY <2>2, BitsAssumption
    <3>2. Run(idx, i) = R \cup {j} /\ j \notin R /\ j \in 0 .. 8 * MapMemory - 1
      BY <3>1, RunStep
    <3> HIDE DEF R, j
    <3>3. Flipped(S, R \cup {j}) = (B \ {j}) \cup ({j} \ B)
      BY <3>2 DEF Flipped
    <3> HIDE DEF B
    <3>4. Bytes!flip(MemOf(B), j) = MemOf((B \ {j}) \cup ({j} \ B))
      BY <3>2, FlipIs
    <3> QED BY <2>2, <3>2, <3>3, <3>4 DEF B, R, j
  <2> QED BY <2>1, <2>2
<1> HIDE DEF G
<1>3. g = FlipLoop(g, MemOf(S), idx, len)
  <2>1. ASSUME NEW i \in 0 .. len
        PROVE  G(i) = IF i = 0 THEN MemOf(S)
                      ELSE IF idx + i > MapSize THEN g[i - 1] ELSE Bytes!flip(g[i - 1], idx + i - 1)
    <3>1. CASE i = 0
      BY <1>1, <3>1
    <3>2. CASE i # 0
      <4>1. i \in 1 .. len /\ i - 1 \in 0 .. len
        BY <3>2
      <4>2. g[i - 1] = G(i - 1)
        BY <4>1
      <4> HIDE DEF g
      <4> QED BY <1>2, <3>2, <4>1, <4>2
    <3> QED BY <3>1, <3>2
  <2> QED BY <2>1 DEF FlipLoop
<1>4. PICK f : f = FlipLoop(f, MemOf(S), idx, len) /\ Bytes!flips(MemOf(S), idx, len) = f[len]
  BY <1>3, FlipsLoop
<1>5. \A i \in 0 .. len : f[i] = IF i = 0 THEN MemOf(S)
                                 ELSE IF idx + i > MapSize THEN f[i - 1]
                                 ELSE Bytes!flip(f[i - 1], idx + i - 1)
  BY <1>4 DEF FlipLoop
<1> DEFINE P == {i \in 0 .. len : f[i] = G(i)}
<1>6. 0 \in P
  BY <1>1, <1>5
<1>7. ASSUME NEW i \in 1 .. len, i - 1 \in P PROVE i \in P
  <2>1. i \in 0 .. len /\ i # 0 /\ f[i - 1] = G(i - 1)
    BY <1>7
  <2> QED BY <1>2, <1>5, <2>1
<1> HIDE DEF P
<1>8. len \in P
  BY <1>6, <1>7, LoopInduction
<1> QED BY <1>4, <1>8 DEF P, G

SetLoop(f, d, idx, len, val) ==
  [i \in 0 .. len |-> IF i = 0 THEN d
                      ELSE IF idx + i > MapSize THEN f[i - 1]
                      ELSE Bytes!set(f[i - 1], idx + i - 1, val)]

LEMMA SetsLoop ==
  ASSUME NEW d, NEW idx, NEW len, NEW val, NEW g, g = SetLoop(g, d, idx, len, val)
  PROVE  \E f : f = SetLoop(f, d, idx, len, val) /\ Bytes!sets(d, idx, len, val) = f[len]
<1> DEFINE after == CHOOSE f : f = SetLoop(f, d, idx, len, val)
<1>1. after = SetLoop(after, d, idx, len, val)
  OBVIOUS
<1>2. Bytes!sets(d, idx, len, val) = after[len]
  BY DEF Bytes!sets, SetLoop
<1> HIDE DEF after
<1> QED BY <1>1, <1>2

SetTo(S, R, val) == IF val THEN S \cup R ELSE S \ R

\* sets gives the bits of the run the value and leaves the others.
LEMMA SetsIs ==
  ASSUME NEW S, NEW idx \in Nat, NEW len \in Nat, NEW val \in BOOLEAN
  PROVE  Bytes!sets(MemOf(S), idx, len, val) = MemOf(SetTo(S, Run(idx, len), val))
<1> DEFINE G(i) == MemOf(SetTo(S, Run(idx, i), val))
           g == [i \in 0 .. len |-> G(i)]
<1>1. G(0) = MemOf(S)
  <2>1. Run(idx, 0) = {}
    BY RunStep
  <2>2. SetTo(S, {}, val) = S
    BY DEF SetTo
  <2> QED BY <2>1, <2>2
<1>2. ASSUME NEW i \in 1 .. len
      PROVE  G(i) = IF idx + i > MapSize THEN G(i - 1) ELSE Bytes!set(G(i - 1), idx + i - 1, val)
  <2> DEFINE j == idx + i - 1
             R == Run(idx, i - 1)
             B == SetTo(S, R, val)
             T == SetTo(S, R \cup {j}, val)
  <2>1. CASE idx + i > MapSize
    <3>1. Run(idx, i) = Run(idx, i - 1)
      BY <2>1, RunStep
    <3> QED BY <2>1, <3>1
  <2>2. CASE ~(idx + i > MapSize)
    <3>1. idx + i <= MapSize
      BY <2>2, BitsAssumption
    <3>2. Run(idx, i) = R \cup {j} /\ j \in 0 .. 8 * MapMemory - 1
      BY <3>1, RunStep
    <3> HIDE DEF R, j
    <3>3. T = IF val THEN B \cup {j} ELSE B \ {j}
      BY DEF SetTo
    <3> HIDE DEF B, T
    <3>4. Bytes!set(MemOf(B), j, val) = MemOf(T)
      BY <3>2, <3>3, SetIs
    <3> QED BY <2>2, <3>2, <3>4 DEF B, R, j, T
  <2> QED BY <2>1, <2>2
<1> HIDE DEF G
<1>3. g = SetLoop(g, MemOf(S), idx, len, val)
  <2>1. ASSUME NEW i \in 0 .. len
        PROVE  G(i) = IF i = 0 THEN MemOf(S)
                      ELSE IF idx + i > MapSize THEN g[i - 1]
                      ELSE Bytes!set(g[i - 1], idx + i - 1, val)
    <3>1. CASE i = 0
      BY <1>1, <3>1
    <3>2. CASE i # 0
      <4>1. i \in 1 .. len /\ i - 1 \in 0 .. len
        BY <3>2
      <4>2. g[i - 1] = G(i - 1)
        BY <4>1
      <4> HIDE DEF g
      <4> QED BY <1>2, <3>2, <4>1, <4>2
    <3> QED BY <3>1, <3>2
  <2> QED BY <2>1 DEF SetLoop
<1>4. PICK f : f = SetLoop(f, MemOf(S), idx, len, val)
               /\ Bytes!sets(MemOf(S), idx, len, val) = f[len]
  BY <1>3, SetsLoop
<1>5. \A i \in 0 .. len : f[i] = IF i = 0 THEN MemOf(S)
                                 ELSE IF idx + i > MapSize THEN f[i - 1]
                                 ELSE Bytes!set(f[i - 1], idx + i - 1, val)
  BY <1>4 DEF SetLoop
<1> DEFINE P == {i \in 0 .. len : f[i] = G(i)}
<1>6. 0 \in P
  BY <1>1, <1>5
<1>7. ASSUME NEW i \in 1 .. len, i - 1 \in P PROVE i \in P
  <2>1. i \in 0 .. len /\ i # 0 /\ f[i - 1] = G(i - 1)
    BY <1>7
  <2> QED BY <1>2, <1>5, <2>1
<1> HIDE DEF P
<1>8. len \in P
  BY <1>6, <1>7, LoopInduction
<1> QED BY <1>4, <1>8 DEF P, G

ContainsLoop(f, d, start, len, val) ==
  [i \in 0 .. len |-> IF i = len THEN "false"
                      ELSE IF start + i >= MapSize THEN "panic"
                      ELSE IF Bytes!test(d, start + i) = val THEN "true"
                      ELSE f[i + 1]]

LEMMA ContainsIsLoop ==
  ASSUME NEW d, NEW start, NEW len, NEW val, NEW g, g = ContainsLoop(g, d, start, len, val)
  PROVE  \E f : /\ f = ContainsLoop(f, d, start, len, val)
                /\ Bytes!contains(d, start, len, val) = f[0]
<1> DEFINE scan == CHOOSE f : f = ContainsLoop(f, d, start, len, val)
<1>1. scan = ContainsLoop(scan, d, start, len, val)
  OBVIOUS
<1>2. Bytes!contains(d, start, len, val) = scan[0]
  BY DEF Bytes!contains, ContainsLoop
<1> HIDE DEF scan
<1> QED BY <1>1, <1>2

\* The scan from turn i on meets a bit with the value.
Hit(d, start, i, len, val) ==
  \E m \in i .. len - 1 : start + m < MapSize /\ Bytes!test(d, start + m) = val

\* What contains returns: the scan meets the value, or the end of the map, or
\* the end of the run, whichever is first.
LEMMA ContainsIs ==
  ASSUME NEW d, NEW start \in Nat, NEW len \in Nat, NEW val
  PROVE  Bytes!contains(d, start, len, val)
           = IF Hit(d, start, 0, len, val) THEN "true"
             ELSE IF start + len > MapSize /\ 0 < len THEN "panic" ELSE "false"
<1> DEFINE G(i) == IF Hit(d, start, i, len, val) THEN "true"
                   ELSE IF start + len > MapSize /\ i < len THEN "panic" ELSE "false"
           E(i) == start + i >= MapSize
           V(i) == Bytes!test(d, start + i) = val
           g == [i \in 0 .. len |-> G(i)]
<1>1. MapSize \in Nat
  BY BitsAssumption
<1>2. G(len) = "false"
  BY DEF Hit
<1>3. ASSUME NEW i \in 0 .. len - 1
      PROVE  G(i) = IF E(i) THEN "panic" ELSE IF V(i) THEN "true" ELSE G(i + 1)
  <2>1. CASE E(i)
    <3>1. ~Hit(d, start, i, len, val)
      BY <1>1, <2>1 DEF Hit
    <3>2. start + len > MapSize /\ i < len
      BY <1>1, <2>1
    <3> QED BY <2>1, <3>1, <3>2
  <2>2. CASE ~E(i) /\ V(i)
    <3>1. Hit(d, start, i, len, val)
      <4>1. i \in i .. len - 1 /\ start + i < MapSize
        BY <1>1, <2>2
      <4> QED BY <2>2, <4>1 DEF Hit
    <3> QED BY <2>2, <3>1
  <2>3. CASE ~E(i) /\ ~V(i)
    <3>1. i + 1 .. len - 1 \subseteq i .. len - 1 /\ \A m \in i .. len - 1 : m # i => m \in i + 1 .. len - 1
      OBVIOUS
    <3> HIDE DEF E
    <3>2. Hit(d, start, i, len, val) <=> Hit(d, start, i + 1, len, val)
      BY <2>3, <3>1 DEF Hit
    <3>3. (start + len > MapSize /\ i < len) <=> (start + len > MapSize /\ i + 1 < len)
      BY <1>1, <2>3 DEF E
    <3> QED BY <2>3, <3>2, <3>3
  <2> QED BY <2>1, <2>2, <2>3
<1> HIDE DEF G
<1>4. g = ContainsLoop(g, d, start, len, val)
  <2>1. ASSUME NEW i \in 0 .. len
        PROVE  G(i) = IF i = len THEN "false"
                      ELSE IF start + i >= MapSize THEN "panic"
                      ELSE IF Bytes!test(d, start + i) = val THEN "true" ELSE g[i + 1]
    <3>1. CASE i = len
      BY <1>2, <3>1
    <3>2. CASE i # len
      <4>1. i \in 0 .. len - 1 /\ i + 1 \in 0 .. len
        BY <3>2
      <4>2. g[i + 1] = G(i + 1)
        BY <4>1
      <4> HIDE DEF g
      <4> QED BY <1>3, <3>2, <4>1, <4>2
    <3> QED BY <3>1, <3>2
  <2> QED BY <2>1 DEF ContainsLoop
<1>5. PICK f : /\ f = ContainsLoop(f, d, start, len, val)
               /\ Bytes!contains(d, start, len, val) = f[0]
  BY <1>4, ContainsIsLoop
<1>6. \A i \in 0 .. len : f[i] = IF i = len THEN "false"
                                 ELSE IF E(i) THEN "panic" ELSE IF V(i) THEN "true" ELSE f[i + 1]
  BY <1>5 DEF ContainsLoop
<1> DEFINE P == {i \in 0 .. len : f[i] = G(i)}
<1> HIDE DEF E, V
<1>7. len \in P
  BY <1>2, <1>6
<1>8. ASSUME NEW i \in 0 .. len - 1, i + 1 \in P PROVE i \in P
  <2>1. i \in 0 .. len /\ i # len /\ f[i + 1] = G(i + 1)
    BY <1>8
  <2> QED BY <1>3, <1>6, <2>1
<1> HIDE DEF P
<1>9. 0 \in P
  BY <1>7, <1>8, ScanInduction
<1> QED BY <1>5, <1>9 DEF P, G

FindLoop(f, d, start, len, val) ==
  [i \in start .. MapSize + start |->
     IF i >= MapSize THEN Bytes!None
     ELSE CASE Bytes!contains(d, i, len, ~val) = "true" -> f[i + 1]
            [] Bytes!contains(d, i, len, ~val) = "false" -> i
            [] Bytes!contains(d, i, len, ~val) = "panic" -> Bytes!Panics]

LEMMA FindIsLoop ==
  ASSUME NEW d, NEW start, NEW len, NEW val, NEW g, g = FindLoop(g, d, start, len, val)
  PROVE  \E f : f = FindLoop(f, d, start, len, val) /\ Bytes!find(d, start, len, val) = f[start]
<1> DEFINE scan == CHOOSE f : f = FindLoop(f, d, start, len, val)
<1>1. scan = FindLoop(scan, d, start, len, val)
  OBVIOUS
<1>2. Bytes!find(d, start, len, val) = scan[start]
  BY DEF Bytes!find, FindLoop
<1> HIDE DEF scan
<1> QED BY <1>1, <1>2

\* The places from i on where find stops.
Stops(d, i, len, val) == {j \in i .. MapSize - 1 : Bytes!contains(d, j, len, ~val) # "true"}

\* find goes to the first place where contains does not return true: it
\* returns the place, or panics there; if there is none it returns None.
LEMMA FindIs ==
  ASSUME NEW d, NEW start \in Nat, NEW len \in Nat, NEW val
  PROVE  \/ /\ Stops(d, start, len, val) = {}
            /\ Bytes!find(d, start, len, val) = Bytes!None
         \/ \E j \in Stops(d, start, len, val) :
              /\ \A m \in Stops(d, start, len, val) : j <= m
              /\ Bytes!find(d, start, len, val)
                   = IF Bytes!contains(d, j, len, ~val) = "false" THEN j ELSE Bytes!Panics
<1> DEFINE c(i) == Bytes!contains(d, i, len, ~val)
           stops(i) == Stops(d, i, len, val)
           first(i) == CHOOSE j \in stops(i) : \A m \in stops(i) : j <= m
           At(j) == IF c(j) = "false" THEN j ELSE Bytes!Panics
           G(i) == IF stops(i) = {} THEN Bytes!None ELSE At(first(i))
           g == [i \in start .. MapSize + start |-> G(i)]
<1>1. MapSize \in Nat
  BY BitsAssumption
<1>2. \A i \in Nat : c(i) \in {"true", "false", "panic"}
  BY ContainsIs
<1> HIDE DEF c
<1>3. ASSUME NEW i \in Nat, i >= MapSize PROVE G(i) = Bytes!None
  <2>1. stops(i) = {}
    BY <1>1, <1>3 DEF Stops
  <2> QED BY <2>1
<1>4. ASSUME NEW i \in Nat, i < MapSize, c(i) = "true" PROVE G(i) = G(i + 1)
  <2>1. \A j \in i .. MapSize - 1 : j = i \/ j \in i + 1 .. MapSize - 1
    BY <1>1
  <2>2. i + 1 .. MapSize - 1 \subseteq i .. MapSize - 1
    BY <1>1
  <2>3. stops(i) = stops(i + 1)
    BY <1>4, <2>1, <2>2 DEF Stops, c
  <2> QED BY <2>3
<1>5. ASSUME NEW i \in Nat, i < MapSize, c(i) # "true" PROVE G(i) = At(i)
  <2>1. i \in stops(i) /\ \A m \in stops(i) : m \in Int /\ i <= m
    BY <1>1, <1>5 DEF Stops, c
  <2>2. first(i) = i
    <3> HIDE DEF stops
    <3>1. ASSUME NEW j \in stops(i), \A m \in stops(i) : j <= m PROVE j = i
      BY <2>1, <3>1
    <3> QED BY <2>1, <3>1
  <2> HIDE DEF stops, first, At
  <2> QED BY <2>1, <2>2 
<1> HIDE DEF G
<1>6. ASSUME NEW i \in start .. MapSize + start
      PROVE  G(i) = IF i >= MapSize THEN Bytes!None
                    ELSE CASE c(i) = "true" -> G(i + 1)
                           [] c(i) = "false" -> i
                           [] c(i) = "panic" -> Bytes!Panics
  <2>1. i \in Nat
    BY <1>1
  <2>2. c(i) \in {"true", "false", "panic"}
    BY <1>2, <2>1
  <2>3. CASE i >= MapSize
    BY <1>3, <2>1, <2>3
  <2>4. CASE i < MapSize /\ c(i) = "true"
    <3>1. G(i) = G(i + 1)
      BY <1>4, <2>1, <2>4
    <3> QED BY <1>1, <2>1, <2>4, <3>1
  <2>5. CASE i < MapSize /\ c(i) # "true"
    <3>1. G(i) = At(i)
      BY <1>5, <2>1, <2>5
    <3> QED BY <1>1, <2>1, <2>2, <2>5, <3>1
  <2>6. i >= MapSize \/ i < MapSize
    BY <1>1, <2>1
  <2> QED BY <2>3, <2>4, <2>5, <2>6, Zenon
<1>7. g = FindLoop(g, d, start, len, val)
  <2>1. ASSUME NEW i \in start .. MapSize + start
        PROVE  G(i) = IF i >= MapSize THEN Bytes!None
                      ELSE CASE c(i) = "true" -> g[i + 1]
                             [] c(i) = "false" -> i
                             [] c(i) = "panic" -> Bytes!Panics
    <3>1. CASE i >= MapSize
      BY <1>6, <3>1
    <3>2. CASE ~(i >= MapSize)
      <4>1. i + 1 \in start .. MapSize + start
        BY <1>1, <3>2
      <4>2. g[i + 1] = G(i + 1)
        BY <4>1
      <4> HIDE DEF g
      <4> QED BY <1>6, <3>2, <4>2
    <3> QED BY <3>1, <3>2
  <2> QED BY <2>1 DEF FindLoop, c
<1>8. PICK f : f = FindLoop(f, d, start, len, val) /\ Bytes!find(d, start, len, val) = f[start]
  BY <1>7, FindIsLoop
<1>9. \A i \in start .. MapSize + start :
        f[i] = IF i >= MapSize THEN Bytes!None
               ELSE CASE c(i) = "true" -> f[i + 1]
                      [] c(i) = "false" -> i
                      [] c(i) = "panic" -> Bytes!Panics
  BY <1>8 DEF FindLoop, c
<1> DEFINE P == {i \in start .. MapSize + start : f[i] = G(i)}
<1>10. MapSize + start \in P
  <2>1. MapSize + start \in start .. MapSize + start /\ MapSize + start >= MapSize
    BY <1>1
  <2> QED BY <1>6, <1>9, <2>1
<1>11. ASSUME NEW i \in start .. (MapSize + start) - 1, i + 1 \in P PROVE i \in P
  <2>1. i \in start .. MapSize + start /\ f[i + 1] = G(i + 1)
    BY <1>1, <1>11
  <2> QED BY <1>6, <1>9, <2>1
<1> HIDE DEF P
<1>12. start \in P
  <2>1. start \in Int /\ MapSize + start \in Int /\ start <= MapSize + start /\ start \in start .. MapSize + start
    BY <1>1
  <2> QED BY <1>10, <1>11, <2>1, ScanInduction
<1>13. Bytes!find(d, start, len, val) = G(start)
  BY <1>8, <1>12 DEF P
<1>14. CASE stops(start) = {}
  BY <1>13, <1>14 DEF G
<1>15. CASE stops(start) # {}
  <2>1. stops(start) \in SUBSET Nat
    BY <1>1 DEF Stops
  <2>2. \E j \in stops(start) : \A m \in stops(start) : j <= m
    BY <1>15, <2>1, LeastNatural
  <2> HIDE DEF stops
  <2>3. first(start) \in stops(start) /\ \A m \in stops(start) : first(start) <= m
    BY <2>2
  <2>4. Bytes!find(d, start, len, val) = At(first(start))
    BY <1>13, <1>15 DEF G
  <2> HIDE DEF first
  <2> QED BY <2>3, <2>4 DEF stops, c
<1> QED BY <1>14, <1>15

----------------------------------------------------------------------------
(* The client "bitmap".                                                    *)

Length == (MapSize + 7) \div 8   \* the bytes that BitMap::new clears

\* The one bits of the memory of a map: those of the map, and the garbage
\* behind its last byte.
Ones(b) == {j \in 0 .. MapSize - 1 : b[j]} \cup {j \in 0 .. 8 * MapMemory - 1 : j >= 8 * Length}

BytesInv ==
  subject = "bitmap" => ref \in [0 .. MapSize - 1 -> BOOLEAN] /\ word = MemOf(Ones(ref))

LEMMA LengthFact ==
  /\ MapSize \in Nat /\ MapMemory \in Nat /\ 8 * MapMemory >= MapSize
  /\ Length \in Nat /\ 8 * Length >= MapSize
<1>1. MapSize \in Nat /\ MapMemory \in Nat /\ 8 * MapMemory >= MapSize
  BY BitsAssumption
<1>2. Length \in Nat /\ 8 * Length >= MapSize
  BY <1>1, SMT DEF Length
<1> QED BY <1>1, <1>2

LEMMA InOnes ==
  ASSUME NEW b \in [0 .. MapSize - 1 -> BOOLEAN]
  PROVE  /\ \A j \in 0 .. MapSize - 1 : j \in Ones(b) <=> b[j]
         /\ \A j \in 0 .. 8 * MapMemory - 1 : j >= MapSize => (j \in Ones(b) <=> j >= 8 * Length)
         /\ Ones(b) \subseteq 0 .. 8 * MapMemory - 1
<1>1. MapSize \in Nat /\ MapMemory \in Nat /\ 8 * MapMemory >= MapSize
      /\ Length \in Nat /\ 8 * Length >= MapSize
  BY LengthFact
<1>2. \A j \in 0 .. MapSize - 1 : j \in Ones(b) <=> b[j]
  BY <1>1 DEF Ones
<1>3. \A j \in 0 .. 8 * MapMemory - 1 : j >= MapSize => (j \in Ones(b) <=> j >= 8 * Length)
  BY <1>1 DEF Ones
<1>4. Ones(b) \subseteq 0 .. 8 * MapMemory - 1
  BY <1>1 DEF Ones
<1> QED BY <1>2, <1>3, <1>4

\* The one bits after a call, from its effect on each bit of the map.
LEMMA OnesAre ==
  ASSUME NEW a \in [0 .. MapSize - 1 -> BOOLEAN], NEW b \in [0 .. MapSize - 1 -> BOOLEAN], NEW S,
         \A j \in 0 .. MapSize - 1 : j \in S <=> b[j],
         \A j : j \notin 0 .. MapSize - 1 => (j \in S <=> j \in Ones(a))
  PROVE  S = Ones(b)
<1>1. MapSize \in Nat /\ MapMemory \in Nat /\ 8 * MapMemory >= MapSize
  BY LengthFact
<1>2. ASSUME NEW j PROVE j \in S <=> j \in Ones(b)
  <2>1. CASE j \in 0 .. MapSize - 1
    BY <2>1, InOnes
  <2>2. CASE j \in 0 .. 8 * MapMemory - 1 /\ j \notin 0 .. MapSize - 1
    <3>1. j >= MapSize
      BY <1>1, <2>2
    <3>2. (j \in Ones(a) <=> j >= 8 * Length) /\ (j \in Ones(b) <=> j >= 8 * Length)
      BY <2>2, <3>1, InOnes
    <3> QED BY <2>2, <3>2
  <2>3. CASE j \notin 0 .. 8 * MapMemory - 1
    <3>1. j \notin Ones(a) /\ j \notin Ones(b)
      BY <2>3, InOnes
    <3>2. j \notin 0 .. MapSize - 1
      BY <1>1, <2>3
    <3> QED BY <3>1, <3>2
  <2> QED BY <2>1, <2>2, <2>3
<1> QED BY <1>2

LEMMA FlipsStep ==
  ASSUME BytesInv, NEW idx \in 0 .. MapSize, NEW len \in 0 .. MaxRun, Flips(idx, len)
  PROVE  BytesInv'
<1>1. MapSize \in Nat /\ MaxRun \in Nat
  BY BitsAssumption
<1>2. /\ subject = "bitmap" /\ word' = Bytes!flips(word, idx, len)
      /\ ref' = BM!flips(ref, idx, len)
  BY DEF Flips, Call
<1>3. ref \in [0 .. MapSize - 1 -> BOOLEAN] /\ word = MemOf(Ones(ref))
  BY <1>2 DEF BytesInv
<1> DEFINE S == Ones(ref)
           R == Run(idx, len)
           T == Flipped(S, R)
<1>4. word' = MemOf(T)
  <2>1. idx \in Nat /\ len \in Nat
    BY <1>1
  <2> HIDE DEF S
  <2> QED BY <1>2, <1>3, <2>1, FlipsIs DEF S
<1>5. /\ ref' \in [0 .. MapSize - 1 -> BOOLEAN]
      /\ \A j \in 0 .. MapSize - 1 : ref'[j] <=> IF j \in idx .. idx + len - 1 THEN ~ref[j] ELSE ref[j]
  BY <1>2, <1>3 DEF BM!flips
<1>6. /\ R \subseteq 0 .. MapSize - 1
      /\ \A j \in 0 .. MapSize - 1 : j \in R <=> j \in idx .. idx + len - 1
  BY <1>1 DEF Run
<1>7. \A j \in 0 .. MapSize - 1 : j \in S <=> ref[j]
  BY <1>3, InOnes
<1> HIDE DEF S, R
<1>8. \A j : j \in T <=> IF j \in R THEN j \notin S ELSE j \in S
  BY DEF Flipped
<1> HIDE DEF T
<1>9. \A j \in 0 .. MapSize - 1 : j \in T <=> ref'[j]
  BY <1>5, <1>6, <1>7, <1>8
<1>10. \A j : j \notin 0 .. MapSize - 1 => (j \in T <=> j \in Ones(ref))
  BY <1>6, <1>8 DEF S
<1>11. T = Ones(ref')
  BY <1>3, <1>5, <1>9, <1>10, OnesAre
<1> QED BY <1>4, <1>5, <1>11 DEF BytesInv

LEMMA SetsStep ==
  ASSUME BytesInv, NEW idx \in 0 .. MapSize, NEW len \in 0 .. MaxRun, NEW val \in BOOLEAN,
         Sets(idx, len, val)
  PROVE  BytesInv'
<1>1. MapSize \in Nat /\ MaxRun \in Nat
  BY BitsAssumption
<1>2. /\ subject = "bitmap" /\ word' = Bytes!sets(word, idx, len, val)
      /\ ref' = [i \in DOMAIN ref |-> IF i \in idx .. idx + len - 1 THEN val ELSE ref[i]]
  BY DEF Sets, Call
<1>3. ref \in [0 .. MapSize - 1 -> BOOLEAN] /\ word = MemOf(Ones(ref))
  BY <1>2 DEF BytesInv
<1> DEFINE S == Ones(ref)
           R == Run(idx, len)
           T == SetTo(S, R, val)
<1>4. word' = MemOf(T)
  <2>1. idx \in Nat /\ len \in Nat
    BY <1>1
  <2> HIDE DEF S
  <2> QED BY <1>2, <1>3, <2>1, SetsIs DEF S
<1>5. /\ ref' \in [0 .. MapSize - 1 -> BOOLEAN]
      /\ \A j \in 0 .. MapSize - 1 : ref'[j] <=> IF j \in idx .. idx + len - 1 THEN val ELSE ref[j]
  BY <1>2, <1>3
<1>6. /\ R \subseteq 0 .. MapSize - 1
      /\ \A j \in 0 .. MapSize - 1 : j \in R <=> j \in idx .. idx + len - 1
  BY <1>1 DEF Run
<1>7. \A j \in 0 .. MapSize - 1 : j \in S <=> ref[j]
  BY <1>3, InOnes
<1> HIDE DEF S, R
<1>8. \A j : j \in T <=> IF j \in R THEN val ELSE j \in S
  BY DEF SetTo
<1> HIDE DEF T
<1>9. \A j \in 0 .. MapSize - 1 : j \in T <=> ref'[j]
  BY <1>5, <1>6, <1>7, <1>8
<1>10. \A j : j \notin 0 .. MapSize - 1 => (j \in T <=> j \in Ones(ref))
  BY <1>6, <1>8 DEF S
<1>11. T = Ones(ref')
  BY <1>3, <1>5, <1>9, <1>10, OnesAre
<1> QED BY <1>4, <1>5, <1>11 DEF BytesInv

LEMMA InitBytes == Init => BytesInv
<1> SUFFICES ASSUME Init, subject = "bitmap" PROVE BytesInv
  BY DEF BytesInv
<1>1. word = Bytes!new(Garbage) /\ ref = [i \in 0 .. MapSize - 1 |-> FALSE]
  BY DEF Init
<1>2. ref \in [0 .. MapSize - 1 -> BOOLEAN] /\ \A i \in 0 .. MapSize - 1 : ~ref[i]
  BY <1>1
<1>3. MapSize \in Nat /\ MapMemory \in Nat /\ Length \in Nat
  BY LengthFact
<1>4. word = [k \in 0 .. MapMemory - 1 |-> IF k < Length THEN {} ELSE 0 .. 7]
  BY <1>1 DEF Bytes!new, Garbage, Length
<1>5. Ones(ref) = {j \in 0 .. 8 * MapMemory - 1 : j >= 8 * Length}
  BY <1>2 DEF Ones
<1>6. ASSUME NEW k \in 0 .. MapMemory - 1
      PROVE  {b \in 0 .. 7 : 8 * k + b \in Ones(ref)} = IF k < Length THEN {} ELSE 0 .. 7
  <2>1. \A b \in 0 .. 7 : /\ 8 * k + b \in 0 .. 8 * MapMemory - 1
                          /\ 8 * k + b >= 8 * Length <=> ~(k < Length)
    BY <1>3
  <2> QED BY <1>5, <2>1
<1>7. word = MemOf(Ones(ref))
  BY <1>4, <1>6 DEF MemOf
<1> QED BY <1>2, <1>7 DEF BytesInv

LEMMA NextBytes == BytesInv /\ [Next]_vars => BytesInv'
<1> SUFFICES ASSUME BytesInv, [Next]_vars PROVE BytesInv'
  OBVIOUS
<1>1. ASSUME NEW idx \in 0 .. MapSize, NEW len \in 0 .. MaxRun,
             Flips(idx, len) \/ \E val \in BOOLEAN : Sets(idx, len, val)
      PROVE  BytesInv'
  BY <1>1, FlipsStep, SetsStep
<1>2. ASSUME NEW bit \in 0 .. N, NEW val \in BOOLEAN, SetBit(bit, val) PROVE subject' # "bitmap"
  BY <1>2 DEF SetBit, Call
<1>3. ASSUME NEW s \in Bounds, NEW e \in Bounds, NEW val \in Word(N),
             SetBits([start |-> s, end |-> e], val)
      PROVE  subject' # "bitmap"
  <2>1. subject' = "word"
    BY <1>3, Zenon DEF SetBits, Call
  <2> QED BY <2>1
<1>4. ASSUME \/ \E p \in Pointers : SetHandleAddr(p)
             \/ \E val \in BOOLEAN : SetTrap(val) \/ SetPresent(val)
             \/ \E val \in PrivilegeLevel : SetPrivilegeLevel(val) \/ SetRpl(val)
             \/ \E i \in 0 .. 255 : Index(i)
             \/ \E write \in BOOLEAN : CpuUses(write)
      PROVE  subject' # "bitmap"
  BY <1>4 DEF SetHandleAddr, SetTrap, SetPresent, SetPrivilegeLevel, SetRpl, Index, CpuUses, Call
<1>5. CASE subject' # "bitmap"
  BY <1>5 DEF BytesInv
<1>6. CASE UNCHANGED vars
  BY <1>6 DEF vars, BytesInv
<1> QED BY <1>1, <1>2, <1>3, <1>4, <1>5, <1>6 DEF Next

LEMMA BytesInvariance == Spec => []BytesInv
BY InitBytes, NextBytes, PTL DEF Spec

LEMMA BytesHold == BytesInv => BytesHoldBits
<1> SUFFICES ASSUME BytesInv, subject = "bitmap" PROVE BytesHoldBits
  BY DEF BytesHoldBits
<1>1. ref \in [0 .. MapSize - 1 -> BOOLEAN] /\ word = MemOf(Ones(ref))
  BY DEF BytesInv
<1>2. /\ MapSize \in Nat /\ MapMemory \in Nat /\ 8 * MapMemory >= MapSize
      /\ Length \in Nat /\ 8 * Length >= MapSize
  BY LengthFact
<1>3. ASSUME NEW i \in 0 .. MapSize - 1 PROVE Bytes!test(word, i) = ref[i]
  <2>1. i \in 0 .. 8 * MapMemory - 1
    BY <1>2
  <2>2. Bytes!test(word, i) = (i \in Ones(ref))
    BY <1>1, <2>1, TestIs
  <2>3. (i \in Ones(ref)) <=> ref[i]
    BY <1>1, InOnes
  <2>4. ref[i] \in BOOLEAN
    BY <1>1
  <2> QED BY <2>2, <2>3, <2>4
<1>4. ASSUME NEW k \in 0 .. MapMemory - 1, k >= (MapSize + 7) \div 8 PROVE word[k] = Garbage[k]
  <2>1. k >= Length
    BY <1>4 DEF Length
  <2>2. \A b \in 0 .. 7 : /\ 8 * k + b \in 0 .. 8 * MapMemory - 1
                          /\ 8 * k + b >= 8 * Length /\ 8 * k + b >= MapSize
    BY <1>2, <2>1
  <2>3. \A b \in 0 .. 7 : 8 * k + b \in Ones(ref)
    BY <1>1, <2>2, InOnes
  <2>4. word[k] = {b \in 0 .. 7 : 8 * k + b \in Ones(ref)}
    BY <1>1 DEF MemOf
  <2> QED BY <2>3, <2>4 DEF Garbage
<1> QED BY <1>3, <1>4 DEF BytesHoldBits

\* contains, as a scan over the bytes and as a statement about the bits.
LEMMA ContainsAgrees ==
  ASSUME BytesInv, subject = "bitmap", NEW start \in Nat, NEW len \in Nat, NEW val \in BOOLEAN
  PROVE  /\ Bytes!contains(word, start, len, val) = "true" <=> BM!contains(ref, start, len, val)
         /\ Bytes!contains(word, start, len, val) = "panic" <=> BM!containsPanics(ref, start, len, val)
         /\ Bytes!contains(word, start, len, val) \in {"true", "false", "panic"}
<1>1. MapSize \in Nat /\ ref \in [0 .. MapSize - 1 -> BOOLEAN]
  BY BitsAssumption DEF BytesInv
<1>2. \A i \in 0 .. MapSize - 1 : Bytes!test(word, i) = ref[i]
  BY BytesHold DEF BytesHoldBits
<1>3. ASSUME Hit(word, start, 0, len, val) PROVE BM!contains(ref, start, len, val)
  <2>1. PICK m \in 0 .. len - 1 : start + m < MapSize /\ Bytes!test(word, start + m) = val
    BY <1>3 DEF Hit
  <2>2. start + m \in start .. start + len - 1 /\ start + m \in 0 .. MapSize - 1
    BY <1>1, <2>1
  <2>3. start + m \in DOMAIN ref /\ ref[start + m] = val
    BY <1>1, <1>2, <2>1, <2>2
  <2> QED BY <2>2, <2>3 DEF BM!contains
<1>4. ASSUME BM!contains(ref, start, len, val) PROVE Hit(word, start, 0, len, val)
  <2>1. PICK i \in start .. start + len - 1 : i \in DOMAIN ref /\ ref[i] = val
    BY <1>4 DEF BM!contains
  <2>2. i \in 0 .. MapSize - 1
    BY <1>1, <2>1
  <2>3. i - start \in 0 .. len - 1 /\ start + (i - start) = i /\ i < MapSize
    BY <1>1, <2>1, <2>2
  <2>4. Bytes!test(word, i) = val
    BY <1>2, <2>1, <2>2
  <2> QED BY <2>3, <2>4 DEF Hit
<1>5. (\E i \in start .. start + len - 1 : i \notin DOMAIN ref) <=> start + len > MapSize /\ 0 < len
  <2>1. ASSUME NEW i \in start .. start + len - 1, i \notin DOMAIN ref
        PROVE  start + len > MapSize /\ 0 < len
    <3>1. i \notin 0 .. MapSize - 1
      BY <1>1, <2>1
    <3> QED BY <1>1, <3>1
  <2>2. ASSUME start + len > MapSize, 0 < len
        PROVE  \E i \in start .. start + len - 1 : i \notin DOMAIN ref
    <3>1. start + len - 1 \in start .. start + len - 1 /\ start + len - 1 \notin 0 .. MapSize - 1
      BY <1>1, <2>2
    <3>2. start + len - 1 \notin DOMAIN ref
      BY <1>1, <3>1
    <3> QED BY <3>1, <3>2
  <2> QED BY <2>1, <2>2
<1> DEFINE hit == Hit(word, start, 0, len, val)
           past == start + len > MapSize /\ 0 < len
<1>6. Bytes!contains(word, start, len, val) = IF hit THEN "true" ELSE IF past THEN "panic" ELSE "false"
  BY ContainsIs
<1>7. hit <=> BM!contains(ref, start, len, val)
  BY <1>3, <1>4
<1>8. BM!containsPanics(ref, start, len, val) <=> ~hit /\ past
  BY <1>5, <1>7 DEF BM!containsPanics
<1> HIDE DEF hit, past
<1> QED BY <1>6, <1>7, <1>8

\* find, likewise.
LEMMA FindAgrees ==
  ASSUME BytesInv, subject = "bitmap", NEW start \in Nat, NEW len \in Nat, NEW val \in BOOLEAN
  PROVE  LET i == Bytes!find(word, start, len, val)
         IN  IF i \in {Bytes!None, Bytes!Panics}
               THEN \A j \in start .. MapSize - 1 : ~BM!finds(ref, start, len, val, j)
               ELSE BM!finds(ref, start, len, val, i)
<1> DEFINE found == Bytes!find(word, start, len, val)
           c(j) == Bytes!contains(word, j, len, ~val)
           stops == Stops(word, start, len, val)
<1>1. MapSize \in Nat /\ DOMAIN ref = 0 .. MapSize - 1
  BY BitsAssumption DEF BytesInv
<1>2. PICK no \in BOOLEAN : no = ~val
  OBVIOUS
<1>3. ASSUME NEW j \in Nat
      PROVE  /\ c(j) = "true" <=> BM!contains(ref, j, len, ~val)
             /\ c(j) = "panic" <=> BM!containsPanics(ref, j, len, ~val)
             /\ c(j) \in {"true", "false", "panic"}
  BY <1>2, ContainsAgrees
<1>4. stops = {j \in start .. MapSize - 1 : c(j) # "true"} /\ stops \subseteq start .. MapSize - 1
  BY DEF Stops
<1>5. start .. MapSize - 1 \subseteq Nat /\ \A j \in DOMAIN ref : j >= start => j \in start .. MapSize - 1
  BY <1>1
<1>6. \/ stops = {} /\ found = Bytes!None
      \/ \E j \in stops : /\ \A m \in stops : j <= m
                          /\ found = IF c(j) = "false" THEN j ELSE Bytes!Panics
  BY FindIs
<1> HIDE DEF found, c, stops
<1>7. \A j : BM!finds(ref, start, len, val, j) => j \in stops /\ c(j) = "false"
  <2>1. SUFFICES ASSUME NEW j, BM!finds(ref, start, len, val, j) PROVE j \in stops /\ c(j) = "false"
    OBVIOUS
  <2>2. /\ j \in DOMAIN ref /\ j >= start /\ ~BM!contains(ref, j, len, ~val)
        /\ ~BM!containsPanics(ref, j, len, ~val)
    BY <2>1 DEF BM!finds, BM!findStopsAt
  <2>3. j \in start .. MapSize - 1 /\ j \in Nat
    BY <1>5, <2>2
  <2>4. c(j) = "false"
    BY <1>3, <2>2, <2>3
  <2> QED BY <1>4, <2>3, <2>4
<1>8. CASE stops = {} /\ found = Bytes!None
  BY <1>7, <1>8 DEF found
<1>9. ASSUME NEW j \in stops, \A m \in stops : j <= m,
             found = IF c(j) = "false" THEN j ELSE Bytes!Panics
      PROVE  IF found \in {Bytes!None, Bytes!Panics}
               THEN \A i \in start .. MapSize - 1 : ~BM!finds(ref, start, len, val, i)
               ELSE BM!finds(ref, start, len, val, found)
  <2>1. j \in start .. MapSize - 1 /\ j \in Nat /\ c(j) # "true" /\ j \in DOMAIN ref /\ j >= start
    BY <1>1, <1>4, <1>5
  <2>2. ASSUME NEW m \in DOMAIN ref, start <= m, m < j PROVE BM!contains(ref, m, len, ~val)
    <3>1. m \in start .. MapSize - 1 /\ m \notin stops
      BY <1>1, <1>9, <2>1, <2>2
    <3>2. c(m) = "true"
      BY <1>4, <3>1
    <3> QED BY <1>3, <1>5, <3>1, <3>2
  <2>3. BM!findStopsAt(ref, start, len, val, j)
    BY <1>3, <2>1, <2>2 DEF BM!findStopsAt
  <2>4. CASE c(j) = "false"
    <3>1. found = j /\ found \notin {Bytes!None, Bytes!Panics}
      BY <1>9, <2>1, <2>4 DEF Bytes!None, Bytes!Panics
    <3>2. BM!finds(ref, start, len, val, j)
      BY <1>3, <2>1, <2>3, <2>4 DEF BM!finds
    <3> QED BY <3>1, <3>2
  <2>5. CASE c(j) # "false"
    <3>1. found = Bytes!Panics
      BY <1>9, <2>5
    <3>2. ASSUME NEW i \in start .. MapSize - 1, BM!finds(ref, start, len, val, i) PROVE FALSE
      <4>1. i \in stops /\ c(i) = "false" /\ j <= i
        BY <1>7, <1>9, <3>2
      <4>2. i # j
        BY <2>5, <4>1
      <4>3. j < i /\ j \in DOMAIN ref /\ start <= j
        BY <1>1, <2>1, <4>1, <4>2
      <4>4. BM!contains(ref, j, len, ~val)
        BY <3>2, <4>3 DEF BM!finds, BM!findStopsAt
      <4> QED BY <1>3, <2>1, <4>4
    <3> QED BY <3>1, <3>2
  <2> QED BY <2>4, <2>5
<1> QED BY <1>6, <1>8, <1>9 DEF found

\* For maps of every size: the bytes hold the bits that PageAllocator works
\* with, nothing behind them is touched, and contains, all, any and find, with
\* their early returns and panics, say of the bytes what PageAllocator takes
\* from the bits.
THEOREM BytesAreBits == Spec => []BytesImplementBits
<1>1. BytesInv => ScansAgree
  <2> SUFFICES ASSUME BytesInv, subject = "bitmap",
                      NEW start \in 0 .. MapSize, NEW len \in 1 .. MaxRun, NEW val \in BOOLEAN
               PROVE  /\ Bytes!contains(word, start, len, val) = "true" <=> BM!contains(ref, start, len, val)
                      /\ Bytes!contains(word, start, len, val) = "panic"
                           <=> BM!containsPanics(ref, start, len, val)
                      /\ Bytes!all(word, start, len) <=> BM!all(ref, start, len)
                      /\ Bytes!any(word, start, len) <=> BM!contains(ref, start, len, TRUE)
                      /\ LET i == Bytes!find(word, start, len, val)
                         IN  IF i \in {Bytes!None, Bytes!Panics}
                               THEN \A j \in start .. MapSize - 1 : ~BM!finds(ref, start, len, val, j)
                               ELSE BM!finds(ref, start, len, val, i)
    BY DEF ScansAgree
  <2>1. start \in Nat /\ len \in Nat
    BY BitsAssumption
  <2>2. PICK no \in BOOLEAN, yes \in BOOLEAN : no = FALSE /\ yes = TRUE
    OBVIOUS
  <2>3. Bytes!all(word, start, len) <=> BM!all(ref, start, len)
    <3>1. /\ Bytes!contains(word, start, len, no) = "true" <=> BM!contains(ref, start, len, no)
          /\ Bytes!contains(word, start, len, no) = "panic" <=> BM!containsPanics(ref, start, len, no)
          /\ Bytes!contains(word, start, len, no) \in {"true", "false", "panic"}
      BY <2>1, ContainsAgrees
    <3> QED BY <2>2, <3>1 DEF Bytes!all, BM!all
  <2>4. Bytes!any(word, start, len) <=> BM!contains(ref, start, len, TRUE)
    <3>1. Bytes!contains(word, start, len, yes) = "true" <=> BM!contains(ref, start, len, yes)
      BY <2>1, ContainsAgrees
    <3> QED BY <2>2, <3>1 DEF Bytes!any
  <2>5. /\ Bytes!contains(word, start, len, val) = "true" <=> BM!contains(ref, start, len, val)
        /\ Bytes!contains(word, start, len, val) = "panic" <=> BM!containsPanics(ref, start, len, val)
    BY <2>1, ContainsAgrees
  <2>6. LET i == Bytes!find(word, start, len, val)
        IN  IF i \in {Bytes!None, Bytes!Panics}
              THEN \A j \in start .. MapSize - 1 : ~BM!finds(ref, start, len, val, j)
              ELSE BM!finds(ref, start, len, val, i)
    BY <2>1, FindAgrees
  <2> QED BY <2>3, <2>4, <2>5, <2>6
<1>2. BytesInv => BytesImplementBits
  BY <1>1, BytesHold DEF BytesImplementBits
<1> QED BY <1>2, BytesInvariance, PTL
=============================================================================
