----------------------------- MODULE BitAccess -----------------------------
(***************************************************************************)
(* The trait BitAccess of kernel/src/utils/mod.rs, for words of any width. *)
(*                                                                         *)
(* A word of n bits is the set of the positions of its one bits, so that   *)
(* &, | and ! are intersection, union and complement, and shifts move the  *)
(* positions and drop those that leave the word.  A range of bits has a    *)
(* start and an end bound, each a pair <<kind, value>> like Rust's Bound.  *)
(***************************************************************************)
LOCAL INSTANCE Integers

Word(n) == SUBSET (0 .. n - 1)

Shl(w, k, n) == {i \in 0 .. n - 1 : i - k \in w}
Shr(w, k) == {i - k : i \in {j \in w : j >= k}}
Not(w, n) == (0 .. n - 1) \ w

HalfOpen(a, b) == [start |-> <<"Included", a>>, end |-> <<"Excluded", b>>]
Closed(a, b) == [start |-> <<"Included", a>>, end |-> <<"Included", b>>]

to_regular_range(r, n) ==
  [start |-> CASE r.start[1] = "Excluded" -> r.start[2] + 1
               [] r.start[1] = "Included" -> r.start[2]
               [] r.start[1] = "Unbounded" -> 0,
   end |-> CASE r.end[1] = "Excluded" -> r.end[2]
             [] r.end[1] = "Included" -> r.end[2] + 1
             [] r.end[1] = "Unbounded" -> n]

\* The assertions at the head of get_bits and set_bits hold.
rangeOk(range, n) ==
  LET r == to_regular_range(range, n)
  IN  r.start < n /\ r.end <= n /\ r.start < r.end

\* The value survives being pushed to the top of the word and back.
fits_NoCheck(value, range, n) == TRUE
fits(value, range, n) ==
  LET r == to_regular_range(range, n)
      k == n - (r.end - r.start)
  IN  Shr(Shl(value, k, n), k) = value

get_bit(w, bit) == w \cap {bit} # {}

get_bits(w, range, n) ==
  LET r == to_regular_range(range, n)
      k == n - r.end
  IN  Shr(Shr(Shl(w, k, n), k), r.start)

set_bit(w, bit, value) == IF value THEN w \cup {bit} ELSE w \ {bit}

set_bits_NoClear(w, range, value, n) ==
  w \cup Shl(value, to_regular_range(range, n).start, n)
set_bits(w, range, value, n) ==
  LET r == to_regular_range(range, n)
      k == n - r.end
      bitmask == Not(Shl(Shr(Shr(Shl(0 .. n - 1, k, n), k), r.start), r.start, n), n)
  IN  (w \cap bitmask) \cup Shl(value, r.start, n)
=============================================================================
