-------------------------------- MODULE Bits --------------------------------
(***************************************************************************)
(* Clients of the kernel's bit-packing code, each with one packed object   *)
(* (word) that they change by any sequence of calls, next to a plain record*)
(* of what they stored (ref):                                              *)
(*   "word"      a word of N bits and the trait BitAccess                  *)
(*   "entry"     an InterruptEntry with its InterruptOption                *)
(*   "selector"  a SegmentSelector                                         *)
(*   "table"     the InterruptDescriptorTable and index                    *)
(*   "pte"       a page table entry of the loader, used by the CPU         *)
(*   "bitmap"    a BitMap of MapSize bits in MapMemory bytes               *)
(***************************************************************************)
EXTENDS Descriptors

CONSTANTS
  N,          \* the bits of "word"
  Pointers,   \* addresses of handlers
  Indices,    \* indices of descriptors, words of 13 bits
  Frames,     \* page frames, words of 20 bits
  MapSize,    \* the bits of "bitmap"
  MapMemory,  \* the bytes of memory from its data_ptr on
  MaxRun      \* bound: the len of flips, sets, contains and find

ASSUME BitsAssumption ==
  /\ N \in Nat \ {0} /\ MapSize \in Nat /\ MaxRun \in Nat
  /\ MapMemory \in Nat /\ 8 * MapMemory >= MapSize
  /\ Pointers \subseteq Word(32) /\ Indices \subseteq Word(13) /\ Frames \subseteq Word(20)

VARIABLES
  subject,   \* the client
  word,      \* its packed object
  ref,       \* ghost: what it stored in it
  panicked,  \* an assertion has failed
  misused    \* ghost: a call was out of range, or its value too large

vars == <<subject, word, ref, panicked, misused>>

Bytes == INSTANCE BitMapBytes WITH size <- MapSize
BM == INSTANCE BitMap

CS == selector_new({0}, Ring0)   \* get_cs(): the code segment of the loader
Garbage == [k \in 0 .. MapMemory - 1 |-> 0 .. 7]

Init ==
  /\ panicked = FALSE /\ misused = FALSE
  /\ \/ /\ subject = "word"
        /\ word \in Word(N)
        /\ ref = [i \in 0 .. N - 1 |-> i \in word]
     \/ /\ subject = "entry"
        /\ word = entry_default
        /\ ref = [pointer |-> {}, cs |-> {}, trap |-> FALSE, level |-> Ring0, present |-> FALSE]
     \/ /\ subject = "selector"
        /\ ref \in [index : Indices, rpl : PrivilegeLevel]
        /\ word = selector_new(ref.index, ref.rpl)
     \/ /\ subject = "table"
        /\ word = Vector("divide_error", 0)
        /\ ref = 0
     \/ /\ subject = "pte"   \* loader.s: frame | PG_PAGE | PG_RW | PG_US
        /\ ref \in [frame : Frames, accessed : {FALSE}, dirty : {FALSE}]
        /\ word = Shl(ref.frame, 12, 32) \cup {0, 1, 2}
     \/ /\ subject = "bitmap"
        /\ word = Bytes!new(Garbage)
        /\ ref = [i \in 0 .. MapSize - 1 |-> FALSE]

\* A call that reaches a failing assertion, and one that does not.
Call(client, bad, fails) ==
  /\ subject = client /\ ~panicked
  /\ misused' = bad /\ panicked' = fails
  /\ UNCHANGED subject

----------------------------------------------------------------------------
(* The clients' calls.                                                     *)

SetBit(bit, val) ==
  /\ Call("word", bit >= N, ~(bit < N))
  /\ word' = IF panicked' THEN word ELSE set_bit(word, bit, val)
  /\ ref' = [i \in DOMAIN ref |-> IF i = bit THEN val ELSE ref[i]]

Bounds == ({"Included", "Excluded"} \X (0 .. N)) \cup {<<"Unbounded", 0>>}

\* The bits that a range denotes.
Denoted(r) ==
  {i \in 0 .. N + 1 :
     /\ (r.start[1] = "Included" => i >= r.start[2]) /\ (r.start[1] = "Excluded" => i > r.start[2])
     /\ (r.end[1] = "Included" => i <= r.end[2]) /\ (r.end[1] = "Excluded" => i < r.end[2])
     /\ (r.end[1] = "Unbounded" => i < N)}

SetBits(r, val) ==
  LET bits == Denoted(r)
      first == CHOOSE i \in bits : \A j \in bits : i <= j
      bad == \/ bits = {} \/ ~(bits \subseteq 0 .. N - 1)
             \/ \E i \in val : first + i \notin bits
  IN  /\ Call("word", bad, ~rangeOk(r, N) \/ ~fits(val, r, N))
      /\ word' = IF panicked' THEN word ELSE set_bits(word, r, val, N)
      /\ ref' = [i \in DOMAIN ref |-> IF i \in bits /\ ~bad THEN i - first \in val ELSE ref[i]]

SetHandleAddr(p) ==
  /\ Call("entry", FALSE, FALSE)
  /\ word' = set_handle_addr(p, CS)
  /\ ref' = [pointer |-> p, cs |-> CS, trap |-> FALSE, level |-> Ring0, present |-> TRUE]

SetTrap(val) ==
  /\ Call("entry", FALSE, FALSE)
  /\ word' = [word EXCEPT !.options = set_trap(@, val)]
  /\ ref' = [ref EXCEPT !.trap = val]

SetPrivilegeLevel(val) ==
  /\ Call("entry", FALSE, FALSE)
  /\ word' = [word EXCEPT !.options = set_privilege_level(@, val)]
  /\ ref' = [ref EXCEPT !.level = val]

SetPresent(val) ==
  /\ Call("entry", FALSE, FALSE)
  /\ word' = [word EXCEPT !.options = set_present(@, val)]
  /\ ref' = [ref EXCEPT !.present = val]

SetRpl(val) ==
  /\ Call("selector", FALSE, FALSE)
  /\ word' = set_rpl(word, val)
  /\ ref' = [ref EXCEPT !.rpl = val]

Index(i) ==
  /\ Call("table", i \in Refused, i \in Refused)
  /\ word' = IF i \in Refused THEN word ELSE Vector(index(i)[1], index(i)[2])
  /\ ref' = IF i \in Refused THEN ref ELSE i

\* The CPU notes that the page was used, and written.
CpuUses(write) ==
  /\ Call("pte", FALSE, FALSE)
  /\ word' = word \cup IF write THEN {5, 6} ELSE {5}
  /\ ref' = [ref EXCEPT !.accessed = TRUE, !.dirty = @ \/ write]

Flips(idx, len) ==
  /\ Call("bitmap", len > 0 /\ idx + len > MapSize, Bytes!loopPanics(idx, len))
  /\ word' = Bytes!flips(word, idx, len)
  /\ ref' = BM!flips(ref, idx, len)

Sets(idx, len, val) ==
  /\ Call("bitmap", len > 0 /\ idx + len > MapSize, Bytes!loopPanics(idx, len))
  /\ word' = Bytes!sets(word, idx, len, val)
  /\ ref' = [i \in DOMAIN ref |-> IF i \in idx .. idx + len - 1 THEN val ELSE ref[i]]

Next ==
  \/ \E bit \in 0 .. N, val \in BOOLEAN : SetBit(bit, val)
  \/ \E s, e \in Bounds, val \in Word(N) : SetBits([start |-> s, end |-> e], val)
  \/ \E p \in Pointers : SetHandleAddr(p)
  \/ \E val \in BOOLEAN : SetTrap(val) \/ SetPresent(val)
  \/ \E val \in PrivilegeLevel : SetPrivilegeLevel(val) \/ SetRpl(val)
  \/ \E i \in 0 .. 255 : Index(i)
  \/ \E write \in BOOLEAN : CpuUses(write)
  \/ \E idx \in 0 .. MapSize, len \in 0 .. MaxRun :
       Flips(idx, len) \/ \E val \in BOOLEAN : Sets(idx, len, val)

Spec == Init /\ [][Next]_vars

----------------------------------------------------------------------------
(* Properties.                                                             *)

\* The assertions of set_bit, set_bits, index and the loops of BitMap fail
\* exactly for the calls that name bits or entries that are not there, or
\* values that do not fit: no legal call panics and no other gets through.
AssertsAreExact == panicked <=> misused

\* After any sequence of set_bit and set_bits a word holds what was stored,
\* no call has touched a bit outside its range, and get_bit and get_bits read
\* it back for every range, however it is written.
WordHolds ==
  subject = "word" /\ ~panicked =>
    /\ word \in Word(N)
    /\ \A i \in 0 .. N - 1 : get_bit(word, i) = ref[i]
    /\ \A s, e \in Bounds :
         LET r == [start |-> s, end |-> e]
             bits == Denoted(r)
         IN  rangeOk(r, N) =>
               LET first == CHOOSE i \in bits : \A j \in bits : i <= j
               IN  get_bits(word, r, N) = {i - first : i \in {j \in bits : ref[j]}}

\* What the CPU reads from an entry of the interrupt table is what was set:
\* offset in bits 0..15 and 48..63, selector in 16..31, the gate type 0b1110
\* or 0b1111 for a trap in 40..43, level in 45..46, present in 47, and zeros
\* in between; the getters agree.
EntryDecodes ==
  subject = "entry" =>
    LET gate == InMemory(word)
    IN  /\ (gate \cap (0 .. 15)) \cup Shl(Shr(gate, 48), 16, 32) = ref.pointer
        /\ Shr(gate, 16) \cap (0 .. 15) = ref.cs
        /\ Shr(gate, 40) \cap (0 .. 4) = {1, 2, 3} \cup IF ref.trap THEN {0} ELSE {}
        /\ Shr(gate, 45) \cap (0 .. 1) = ref.level
        /\ 47 \in gate <=> ref.present
        /\ gate \cap (32 .. 39) = {}
        /\ is_trap(word.options) = ref.trap /\ is_present(word.options) = ref.present
        /\ privilege_level(word.options) = ref.level

\* A selector keeps its index whatever privilege levels are set, and gives
\* back the last one, which from_u16 accepts.
SelectorDecodes ==
  subject = "selector" =>
    /\ selector_index(word) = ref.index /\ selector_rpl(word) = ref.rpl
    /\ selector_rpl(word) \in PrivilegeLevel

\* The entry that index gives for a number is the one the CPU uses for that
\* vector: the fields of the structure, reserved ones included, are in the
\* CPU's order, and together are the 256 entries of the limit that update loads.
IndexIsVector ==
  subject = "table" =>
    /\ word = ref
    /\ Vector("interrupts", 223) = 255

\* A page table entry of the loader keeps its frame and its flags while the
\* CPU marks it, and rounding any address of the page down gives its address.
PteDecodes ==
  subject = "pte" =>
    /\ addr(word) = Shl(ref.frame, 12, 32)
    /\ present(word) /\ rw(word) /\ is_user(word)
    /\ accessed(word) = ref.accessed /\ dirty(word) = ref.dirty
    /\ ~(write_through(word) \/ cache_disable(word) \/ page_attribute(word) \/ global(word))
    /\ available(word) = {}
    /\ \A offset \in {{}, {0}, 0 .. 11} : pg_round_down(addr(word) \cup offset) = addr(word)

\* Whatever is packed by ranges of bits - interrupt entries, selectors, page
\* table entries - decodes to what was stored, whichever setters were called in
\* which order: no setter spills into the field next to its own.
FieldsDecode == EntryDecodes /\ SelectorDecodes /\ PteDecodes

\* The bytes of a BitMap hold the bits that PageAllocator works with, and no
\* call touches the memory behind them.
BytesHoldBits ==
  subject = "bitmap" =>
    /\ \A i \in 0 .. MapSize - 1 : Bytes!test(word, i) = ref[i]
    /\ \A k \in 0 .. MapMemory - 1 : k >= (MapSize + 7) \div 8 => word[k] = Garbage[k]

\* The scans over the bytes, with their early returns and panics, have the
\* results that PageAllocator computes from the bits.
ScansAgree ==
  subject = "bitmap" =>
    \A start \in 0 .. MapSize, len \in 1 .. MaxRun, val \in BOOLEAN :
      /\ Bytes!contains(word, start, len, val) = "true" <=> BM!contains(ref, start, len, val)
      /\ Bytes!contains(word, start, len, val) = "panic"
           <=> BM!containsPanics(ref, start, len, val)
      /\ Bytes!all(word, start, len) <=> BM!all(ref, start, len)
      /\ Bytes!any(word, start, len) <=> BM!contains(ref, start, len, TRUE)
      /\ LET i == Bytes!find(word, start, len, val)
         IN  IF i \in {Bytes!None, Bytes!Panics}
               THEN \A j \in start .. MapSize - 1 : ~BM!finds(ref, start, len, val, j)
               ELSE BM!finds(ref, start, len, val, i)

\* The BitMap of bytes is the bitmap of bits that PageAllocator works with: its
\* memory holds them, across byte boundaries and in the last, partly used byte,
\* and its scans give the same results.
BytesImplementBits == BytesHoldBits /\ ScansAgree
=============================================================================
