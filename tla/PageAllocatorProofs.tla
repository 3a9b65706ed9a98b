------------------------ MODULE PageAllocatorProofs ------------------------
(***************************************************************************)
(* Proofs about PageAllocator, for every page size, memory size, address   *)
(* width and set of request sizes.                                         *)
(***************************************************************************)
EXTENDS PageAllocator, TLAPS, WellFoundedInduction

\* Quotient and remainder of natural numbers.
LEMMA DivBounds ==
  ASSUME NEW a \in Nat, NEW b \in Nat \ {0}
  PROVE  /\ a \div b \in Nat
         /\ b * (a \div b) <= a
         /\ a < b * (a \div b) + b
OBVIOUS

\* The quotient is determined by its bounds.
LEMMA DivUnique ==
  ASSUME NEW a \in Nat, NEW b \in Nat \ {0}, NEW q \in Nat,
         b * q <= a, a < b * q + b
  PROVE  a \div b = q
<1> DEFINE d == a \div b
<1>1. d \in Nat /\ b * d <= a /\ a < b * d + b
  BY DivBounds
<1>2. d >= q + 1 => b * d >= b * (q + 1)
  BY <1>1
<1>3. q >= d + 1 => b * q >= b * (d + 1)
  BY <1>1
<1>4. b * (q + 1) = b * q + b /\ b * (d + 1) = b * d + b
  BY <1>1
<1> HIDE DEF d
<1>5. ~(d >= q + 1) /\ ~(q >= d + 1)
  BY <1>1, <1>2, <1>3, <1>4
<1>6. d = q
  BY <1>1, <1>5
<1> QED BY <1>6 DEF d

\* Rounding a quotient up: the pages that hold a bytes.
LEMMA CeilDiv ==
  ASSUME NEW a \in Nat, NEW b \in Nat \ {0}
  PROVE  /\ (a + b - 1) \div b \in Nat
         /\ a <= b * ((a + b - 1) \div b)
         /\ (a + b - 1) \div b <= a
<1> DEFINE q == (a + b - 1) \div b
<1>1. a + b - 1 \in Nat
  OBVIOUS
<1>2. q \in Nat /\ b * q <= a + b - 1 /\ a + b - 1 < b * q + b
  BY <1>1, DivBounds
<1>3. a <= b * q
  BY <1>2
<1>4. q <= a
  <2>1. CASE a = 0
    <3>1. q >= 1 => b * q >= b
      BY <1>2
    <3> QED BY <3>1, <1>2, <2>1
  <2>2. CASE a # 0
    <3>1. q >= a + 1 => b * q >= b * (a + 1)
      BY <1>2
    <3>2. b * (a + 1) >= a + b
      BY <2>2
    <3> QED BY <3>1, <3>2, <1>2
  <2> QED BY <2>1, <2>2
<1> QED BY <1>2, <1>3, <1>4

----------------------------------------------------------------------------
(* How PageAllocator::default divides the memory.                          *)

\* The bitmap takes no more pages than there are, and the pages after it end
\* within the memory that was reported.
LEMMA Division ==
  /\ memsize \in Nat /\ memsize <= AvailableMem
  /\ bitmap_pages \in Nat /\ avl_pages \in Nat /\ base_addr \in Nat
  /\ base_addr = DataPtr + bitmap_pages * PageSize
  /\ base_addr + avl_pages * PageSize <= DataPtr + memsize
  /\ (avl_pages + 7) \div 8 <= bitmap_pages * PageSize
<1> USE SizesAssumption
<1>1. memsize \in Nat /\ memsize <= AvailableMem
  BY DEF memsize
<1>2. pagecnt \in Nat /\ PageSize * pagecnt <= memsize
  BY <1>1, DivBounds DEF pagecnt
<1>3. bitmap_size \in Nat /\ bitmap_size <= pagecnt
  <2> HIDE DEF pagecnt
  <2>1. bitmap_size = (pagecnt + 8 - 1) \div 8
    BY <1>2 DEF bitmap_size
  <2> QED BY <2>1, <1>2, CeilDiv
<1>4. /\ bitmap_pages \in Nat
      /\ bitmap_pages <= bitmap_size
      /\ bitmap_size <= PageSize * bitmap_pages
  BY <1>3, CeilDiv DEF bitmap_pages
<1>5. avl_pages \in Nat /\ avl_pages <= pagecnt
  BY <1>2, <1>3, <1>4 DEF avl_pages
<1>6. base_addr \in Nat /\ base_addr = DataPtr + bitmap_pages * PageSize
  BY <1>4 DEF base_addr
<1>7. base_addr + avl_pages * PageSize = DataPtr + PageSize * pagecnt
  BY <1>2, <1>4, <1>6 DEF avl_pages
<1>8. (avl_pages + 7) \div 8 <= bitmap_size
  <2> DEFINE q == (avl_pages + 7) \div 8
             r == (pagecnt + 7) \div 8
  <2>1. q \in Nat /\ 8 * q <= avl_pages + 7
    BY <1>5
  <2>2. r \in Nat /\ pagecnt + 7 < 8 * r + 8
    BY <1>2
  <2>3. q <= r
    BY <2>1, <2>2, <1>2, <1>5
  <2> QED BY <2>3 DEF bitmap_size
<1>9. PageSize * bitmap_pages = bitmap_pages * PageSize
  BY <1>4
<1>10. (avl_pages + 7) \div 8 <= bitmap_pages * PageSize
  BY <1>3, <1>4, <1>5, <1>8, <1>9
<1>11. base_addr + avl_pages * PageSize <= DataPtr + memsize
  BY <1>1, <1>2, <1>7
<1> QED BY <1>1, <1>4, <1>5, <1>6, <1>10, <1>11

\* A request takes at least one page, and its pages hold it.
LEMMA NumPagesFact ==
  ASSUME NEW s \in ReqSizes
  PROVE  NumPages(s) \in Nat \ {0} /\ s <= PageSize * NumPages(s)
<1>1. s \in Nat /\ s >= 1 /\ PageSize \in Nat \ {0}
  BY SizesAssumption
<1>2. NumPages(s) \in Nat /\ s <= PageSize * NumPages(s)
  BY <1>1, CeilDiv DEF NumPages
<1>3. NumPages(s) = 0 => PageSize * NumPages(s) = 0
  BY <1>1
<1> QED BY <1>1, <1>2, <1>3

\* Every nonempty set of naturals has a least element.
LEMMA LeastNatural ==
  ASSUME NEW T \in SUBSET Nat, T # {}
  PROVE  \E x \in T : \A y \in T : x <= y
<1> DEFINE R == OpToRel(<, Nat)
<1>1. IsWellFoundedOn(R, Nat)
  BY NatLessThanWellFounded
<1> HIDE DEF R
<1>2. PICK x \in T : \A y \in T : ~ (<<y, x>> \in R)
  BY <1>1, WFMin
<1>3. ASSUME NEW y \in T PROVE x <= y
  <2>1. y < x => <<y, x>> \in R
    BY DEF R, OpToRel
  <2> QED BY <2>1, <1>2
<1> QED BY <1>2, <1>3

----------------------------------------------------------------------------
(* What the searches of BitMap return.                                     *)

\* A run that find returns lies inside the bitmap, and its bits are clear.
LEMMA FindsClearRun ==
  ASSUME NEW b \in [Pages -> BOOLEAN], NEW n \in Nat \ {0}, NEW i,
         finds(b, 0, n, FALSE, i)
  PROVE  /\ i \in Pages /\ i + n <= avl_pages
         /\ \A k \in i .. i + n - 1 : k \in Pages /\ ~b[k]
<1>1. avl_pages \in Nat
  BY Division
<1>2. i \in Pages
  BY DEF finds, findStopsAt
<1>3. \A k \in i .. i + n - 1 : k \in Pages /\ b[k] # TRUE
  BY DEF finds, findStopsAt, contains, containsPanics
<1>4. i + n - 1 \in i .. i + n - 1
  BY <1>1, <1>2 DEF Pages
<1>5. i + n <= avl_pages
  <2>1. i + n - 1 \in Pages
    BY <1>3, <1>4
  <2> QED BY <1>1, <1>2, <2>1 DEF Pages
<1> QED BY <1>2, <1>3, <1>5

\* find finds a run whenever there is one, and does not panic before it.
LEMMA FindsIfAny ==
  ASSUME NEW b \in [Pages -> BOOLEAN], NEW n \in Nat \ {0}, NEW i \in Pages,
         i + n <= avl_pages,
         \A k \in i .. i + n - 1 : ~b[k]
  PROVE  ~findFails(b, 0, n, FALSE)
<1> DEFINE occupied(j) == \E k \in j .. j + n - 1 : k \in Pages /\ b[k] = ~FALSE
           T == {j \in Pages : ~occupied(j)}
<1>1. avl_pages \in Nat /\ Pages \subseteq Nat
  BY Division DEF Pages
<1>2. ~occupied(i)
  OBVIOUS
<1>3. \A j : contains(b, j, n, ~FALSE) <=> occupied(j)
  BY DEF contains
<1> HIDE DEF occupied
<1>4. i \in T /\ T \in SUBSET Nat
  BY <1>1, <1>2
<1>5. PICK m \in T : \A y \in T : m <= y
  BY <1>4, LeastNatural
<1>6. m \in Pages /\ m <= i /\ ~occupied(m)
  BY <1>4, <1>5
<1>7. ASSUME NEW j \in Pages, 0 <= j, j < m PROVE occupied(j)
  <2>1. j \notin T
    BY <1>1, <1>5, <1>6, <1>7
  <2> QED BY <2>1
<1>8. \A k \in m .. m + n - 1 : k \in Pages
  BY <1>1, <1>6 DEF Pages
<1>9. findStopsAt(b, 0, n, FALSE, m)
  <2>1. m >= 0
    BY <1>1, <1>6
  <2> QED BY <1>3, <1>6, <1>7, <2>1, Zenon DEF findStopsAt
<1>10. finds(b, 0, n, FALSE, m)
  BY <1>8, <1>9 DEF finds, containsPanics
<1> QED BY <1>6, <1>10 DEF findFails

\* all is true exactly of runs of set bits inside the bitmap.
LEMMA AllIsSetRun ==
  ASSUME NEW b \in [Pages -> BOOLEAN], NEW p, NEW n
  PROVE  all(b, p, n) <=> \A k \in p .. p + n - 1 : k \in Pages /\ b[k]
BY DEF all, contains, containsPanics

LEMMA FlipsType ==
  ASSUME NEW b \in [Pages -> BOOLEAN], NEW p, NEW n
  PROVE  flips(b, p, n) \in [Pages -> BOOLEAN]
BY DEF flips

----------------------------------------------------------------------------
(* The inductive invariant.                                                *)

\* Block a starts at page i and ends within the bitmap.
At(a, i) ==
  /\ i \in Pages
  /\ a.ptr = base_addr + i * PageSize
  /\ i + NumPages(a.size) <= avl_pages

LiveInRange == \A a \in live : \E i \in Pages : At(a, i)

\* BitmapMatchesLive and MarkedAreOwned, of the bitmap that get_mut provides.
BitsMatch == \A i \in Pages : Bits[i] <=> \E a \in live : i \in PagesOf(a)
BitsOwned == \A i \in Pages : Bits[i] => \E a \in live : i \in PagesOf(a)

\* BlocksApart alone is not inductive: alloc keeps blocks apart only because
\* the bitmap records every page in use, and dealloc clears only the block's
\* own pages because its address is that of a page of the bitmap.
IInv == TypeOK /\ LiveInRange /\ BitsMatch /\ BlocksApart

\* What is left of it when callers have misused free_page.
SInv == TypeOK /\ LiveInRange /\ BitsOwned

\* Both together, for callers of either kind.
AllInv == SInv /\ (strays = 0 => IInv)

LEMMA BitsType == TypeOK => Bits \in [Pages -> BOOLEAN]
BY DEF TypeOK, Bits, BitMapNew

\* The page indices that dealloc and PagesOf compute from an address.
LEMMA PageIndex ==
  ASSUME NEW a \in [ptr : Nat, size : ReqSizes], NEW i, At(a, i)
  PROVE  /\ PagesOf(a) = i .. i + NumPages(a.size) - 1
         /\ ((a.ptr - base_addr) % UsizeMod) \div PageSize = i
         /\ a.ptr % PageSize = 0
<1> USE SizesAssumption
<1>1. /\ avl_pages \in Nat /\ base_addr \in Nat /\ bitmap_pages \in Nat
      /\ base_addr = DataPtr + bitmap_pages * PageSize
      /\ base_addr + avl_pages * PageSize <= UsizeMod
  <2>1. DataPtr + memsize <= UsizeMod
    BY ManagedFitsAssumption DEF memsize
  <2>2. avl_pages * PageSize \in Nat
    BY Division
  <2> QED BY <2>1, <2>2, Division
<1>2. i \in Nat /\ i < avl_pages /\ a.ptr - base_addr = i * PageSize
  BY <1>1 DEF At, Pages
<1>3. i * PageSize \in Nat /\ i * PageSize < avl_pages * PageSize
  BY <1>1, <1>2
<1>4. (i * PageSize) \div PageSize = i
  BY <1>2, <1>3, DivUnique
<1>5. (i * PageSize) % UsizeMod = i * PageSize
  BY <1>1, <1>3
<1>6. a.ptr % PageSize = 0
  <2>1. PICK d \in Nat : DataPtr = PageSize * d
    <3>1. DataPtr = PageSize * (DataPtr \div PageSize)
      OBVIOUS
    <3>2. DataPtr \div PageSize \in Nat
      BY DivBounds
    <3> QED BY <3>1, <3>2
  <2>2. a.ptr = PageSize * (d + bitmap_pages + i)
    BY <1>1, <1>2, <2>1 DEF At
  <2>3. d + bitmap_pages + i \in Nat
    BY <1>1, <1>2
  <2> DEFINE q == d + bitmap_pages + i
  <2> HIDE DEF q
  <2>4. ASSUME NEW x \in Nat PROVE (PageSize * x) % PageSize = 0
    OBVIOUS
  <2> QED BY <2>2, <2>3, <2>4
<1> QED BY <1>2, <1>4, <1>5, <1>6 DEF PagesOf

\* The invariant contains the properties of PageAllocator.
LEMMA IInvImplies ==
  /\ AllInv => BitmapMatchesLive
  /\ SInv => MarkedAreOwned
  /\ TypeOK /\ LiveInRange => LiveInMemory
<1>1. AllInv => BitmapMatchesLive
  BY DEF AllInv, IInv, BitsMatch, BitmapMatchesLive, Bits
<1>2. SInv => MarkedAreOwned
  BY DEF SInv, BitsOwned, MarkedAreOwned, Bits
<1>3. TypeOK /\ LiveInRange => LiveInMemory
  <2> SUFFICES ASSUME TypeOK, LiveInRange, NEW a \in live
               PROVE  /\ a.ptr % PageSize = 0
                      /\ a.ptr >= DataPtr + ((avl_pages + 7) \div 8)
                      /\ a.ptr + a.size <= DataPtr + memsize
    BY DEF LiveInMemory
  <2>1. a \in [ptr : Nat, size : ReqSizes]
    BY DEF TypeOK
  <2>2. PICK i \in Pages : At(a, i)
    BY DEF LiveInRange
  <2>3. a.ptr % PageSize = 0
    BY <2>1, <2>2, PageIndex
  <2>4. /\ PageSize \in Nat \ {0} /\ DataPtr \in Nat /\ a.size \in Nat
        /\ i \in Nat /\ avl_pages \in Nat /\ memsize \in Nat
    <3>1. a.size \in ReqSizes
      BY <2>1
    <3>2. avl_pages \in Nat /\ memsize \in Nat
      BY Division
    <3>3. i \in Nat
      BY <3>2 DEF Pages
    <3> QED BY <3>1, <3>2, <3>3, SizesAssumption
  <2>5. a.ptr = base_addr + i * PageSize /\ i * PageSize \in Nat
    BY <2>2, <2>4 DEF At
  <2>6. a.ptr >= DataPtr + ((avl_pages + 7) \div 8)
    <3>1. bitmap_pages * PageSize \in Nat
      BY <2>4, Division
    <3>2. (avl_pages + 7) \div 8 \in Nat
      BY <2>4
    <3> QED BY <2>4, <2>5, <3>1, <3>2, Division
  <2>7. a.ptr + a.size <= DataPtr + memsize
    <3> DEFINE n == NumPages(a.size)
    <3>1. n \in Nat /\ a.size <= PageSize * n
      BY <2>1, NumPagesFact
    <3>2. i + n <= avl_pages
      BY <2>2 DEF At
    <3> HIDE DEF n
    <3>3. (i + n) * PageSize <= avl_pages * PageSize
      BY <2>4, <3>1, <3>2
    <3>4. (i + n) * PageSize = i * PageSize + PageSize * n
      BY <2>4, <3>1
    <3>5. avl_pages * PageSize \in Nat /\ PageSize * n \in Nat
      BY <2>4, <3>1
    <3> QED BY <2>4, <2>5, <3>1, <3>3, <3>4, <3>5, Division
  <2> QED BY <2>3, <2>6, <2>7
<1> QED BY <1>1, <1>2, <1>3

LEMMA InitIInv == Init => IInv /\ SInv
<1> SUFFICES ASSUME Init PROVE IInv /\ SInv
  OBVIOUS
<1>1. TypeOK /\ LiveInRange /\ BlocksApart
  <2>1. strays \in 0 .. MaxStrays
    BY StrayAssumption DEF Init
  <2> QED BY <2>1 DEF Init, TypeOK, LiveInRange, BlocksApart
<1>2. BitsMatch /\ BitsOwned
  BY DEF Init, BitsMatch, BitsOwned, Bits, BitMapNew
<1> QED BY <1>1, <1>2 DEF IInv, SInv

----------------------------------------------------------------------------
(* One lemma per action: its effect, in terms of pages and blocks.         *)

\* alloc hands out a block at a page i whose run was clear, and sets the bits
\* of that run.
LEMMA AllocEffect ==
  ASSUME TypeOK, LiveInRange, NEW s \in ReqSizes, Alloc(s)
  PROVE  \E i \in Pages : \E a \in [ptr : Nat, size : ReqSizes] :
           /\ a = [ptr |-> base_addr + i * PageSize, size |-> s]
           /\ At(a, i)
           /\ live' = live \cup {a}
           /\ inited' = TRUE /\ bitmap' \in [Pages -> BOOLEAN]
           /\ \A k \in PagesOf(a) : k \in Pages /\ ~Bits[k]
           /\ \A k \in Pages : bitmap'[k] <=> (Bits[k] \/ k \in PagesOf(a))
<1> DEFINE n == NumPages(s)
<1>1. n \in Nat \ {0}
  BY NumPagesFact
<1>2. Bits \in [Pages -> BOOLEAN]
  BY BitsType
<1>3. PICK i \in Pages :
        /\ finds(Bits, 0, n, FALSE, i)
        /\ bitmap' = flips(Bits, i, n)
        /\ live' = live \cup {[ptr |-> base_addr + i * PageSize, size |-> s]}
  BY DEF Alloc
<1>4. i + n <= avl_pages /\ \A k \in i .. i + n - 1 : k \in Pages /\ ~Bits[k]
  BY <1>1, <1>2, <1>3, FindsClearRun
<1> DEFINE a == [ptr |-> base_addr + i * PageSize, size |-> s]
<1>5. a \in [ptr : Nat, size : ReqSizes]
  <2>1. base_addr \in Nat /\ i \in Nat /\ PageSize \in Nat
    BY Division, SizesAssumption DEF Pages
  <2>2. base_addr + i * PageSize \in Nat
    BY <2>1
  <2> QED BY <2>2
<1>6. At(a, i)
  BY <1>4 DEF At
<1>7. PagesOf(a) = i .. i + n - 1
  BY <1>5, <1>6, PageIndex
<1>8. inited' = TRUE
  BY DEF Alloc
<1>9. bitmap' \in [Pages -> BOOLEAN]
  BY <1>2, <1>3, FlipsType
<1> HIDE DEF n
<1>10. \A k \in Pages : bitmap'[k] <=> (Bits[k] \/ k \in i .. i + n - 1)
  BY <1>2, <1>3, <1>4 DEF flips
<1> HIDE DEF a
<1>11. \A k \in Pages : bitmap'[k] <=> (Bits[k] \/ k \in PagesOf(a))
  BY <1>7, <1>10
<1>12. \A k \in PagesOf(a) : k \in Pages /\ ~Bits[k]
  BY <1>4, <1>7
<1> QED BY <1>3, <1>5, <1>6, <1>8, <1>9, <1>11, <1>12 DEF a

\* free_page either panics and keeps the bitmap, or clears a run of set bits.
LEMMA FreeEffect ==
  ASSUME TypeOK, NEW page, NEW cnt, free_page(page, cnt)
  PROVE  LET pidx == ((page - base_addr) % UsizeMod) \div PageSize
         IN  \/ /\ ~(page % PageSize = 0 /\ all(Bits, pidx, cnt))
                /\ bitmap' = Bits /\ halted' = TRUE
             \/ /\ halted' = FALSE
                /\ bitmap' \in [Pages -> BOOLEAN]
                /\ \A k \in pidx .. pidx + cnt - 1 : k \in Pages /\ Bits[k]
                /\ \A k \in Pages :
                     bitmap'[k] <=> (Bits[k] /\ k \notin pidx .. pidx + cnt - 1)
<1> DEFINE pidx == ((page - base_addr) % UsizeMod) \div PageSize
           freed == page % PageSize = 0 /\ all(Bits, pidx, cnt)
<1>1. Bits \in [Pages -> BOOLEAN]
  BY BitsType
<1>2. /\ bitmap' = IF freed THEN flips(Bits, pidx, cnt) ELSE Bits
      /\ halted' = ~freed
  BY DEF free_page
<1>3. CASE ~freed
  BY <1>2, <1>3
<1>4. CASE freed
  <2>1. bitmap' = flips(Bits, pidx, cnt) /\ halted' = FALSE
    BY <1>2, <1>4
  <2> HIDE DEF pidx
  <2>2. \A k \in pidx .. pidx + cnt - 1 : k \in Pages /\ Bits[k]
    BY <1>1, <1>4, AllIsSetRun
  <2>3. bitmap' \in [Pages -> BOOLEAN]
    BY <1>1, <2>1, FlipsType
  <2>4. \A k \in Pages :
          bitmap'[k] <=> (Bits[k] /\ k \notin pidx .. pidx + cnt - 1)
    BY <1>1, <2>1, <2>2 DEF flips
  <2> QED BY <2>1, <2>2, <2>3, <2>4 DEF pidx
<1> QED BY <1>3, <1>4

\* dealloc of a live block never panics: it clears exactly the block's pages.
LEMMA DeallocEffect ==
  ASSUME IInv, NEW a \in live, Dealloc(a)
  PROVE  /\ halted' = FALSE
         /\ live' = live \ {a}
         /\ inited' = TRUE /\ bitmap' \in [Pages -> BOOLEAN]
         /\ \A k \in Pages : bitmap'[k] <=> (Bits[k] /\ k \notin PagesOf(a))
<1> DEFINE n == NumPages(a.size)
           pidx == ((a.ptr - base_addr) % UsizeMod) \div PageSize
<1>1. TypeOK /\ LiveInRange /\ BitsMatch
  BY DEF IInv
<1>2. a \in [ptr : Nat, size : ReqSizes]
  BY <1>1 DEF TypeOK
<1>3. PICK i \in Pages : At(a, i)
  BY <1>1 DEF LiveInRange
<1>4. pidx = i /\ PagesOf(a) = i .. i + n - 1 /\ a.ptr % PageSize = 0
  BY <1>2, <1>3, PageIndex
<1>5. n \in Nat /\ i + n <= avl_pages /\ avl_pages \in Nat
  <2>1. a.size \in ReqSizes
    BY <1>2
  <2> QED BY <2>1, <1>3, NumPagesFact, Division DEF At
<1>6. free_page(a.ptr, n)
  BY DEF Dealloc
<1> HIDE DEF n
<1>7. \A k \in i .. i + n - 1 : k \in Pages /\ Bits[k]
  <2>1. \A k \in i .. i + n - 1 : k \in Pages
    BY <1>5 DEF Pages
  <2> QED BY <1>1, <1>4, <2>1 DEF BitsMatch
<1>8. all(Bits, i, n)
  BY <1>1, <1>7, AllIsSetRun, BitsType
<1>9. /\ halted' = FALSE /\ bitmap' \in [Pages -> BOOLEAN]
      /\ \A k \in Pages : bitmap'[k] <=> (Bits[k] /\ k \notin i .. i + n - 1)
  BY <1>1, <1>4, <1>6, <1>8, FreeEffect
<1>10. live' = live \ {a} /\ inited' = TRUE
  BY <1>9 DEF Dealloc
<1> QED BY <1>4, <1>9, <1>10

----------------------------------------------------------------------------
(* The steps preserve the invariants.                                      *)

LEMMA AllocIInv ==
  ASSUME IInv, NEW s \in ReqSizes, Alloc(s)
  PROVE  IInv'
<1>1. TypeOK /\ LiveInRange /\ BitsMatch /\ BlocksApart
  BY DEF IInv
<1>2. PICK i \in Pages, a \in [ptr : Nat, size : ReqSizes] :
        /\ At(a, i)
        /\ live' = live \cup {a}
        /\ inited' = TRUE /\ bitmap' \in [Pages -> BOOLEAN]
        /\ \A k \in PagesOf(a) : k \in Pages /\ ~Bits[k]
        /\ \A k \in Pages : bitmap'[k] <=> (Bits[k] \/ k \in PagesOf(a))
  BY <1>1, AllocEffect
<1>3. halted' = halted /\ strays' = strays
  BY DEF Alloc
<1>4. TypeOK'
  BY <1>1, <1>2, <1>3 DEF TypeOK
<1>5. LiveInRange'
  BY <1>1, <1>2 DEF LiveInRange
<1>6. Bits' = bitmap'
  BY <1>2 DEF Bits
<1>7. BitsMatch'
  BY <1>1, <1>2, <1>6 DEF BitsMatch
<1>8. \A b \in live : PagesOf(a) \cap PagesOf(b) = {}
  BY <1>1, <1>2 DEF BitsMatch
<1>9. BlocksApart'
  BY <1>1, <1>2, <1>8 DEF BlocksApart
<1> QED BY <1>4, <1>5, <1>7, <1>9 DEF IInv

LEMMA AllocPanicsIInv ==
  ASSUME NEW s \in ReqSizes, AllocPanics(s)
  PROVE  (IInv => IInv') /\ (SInv => SInv')
<1>1. live' = live /\ inited' = TRUE /\ bitmap' = Bits /\ halted' = TRUE
      /\ strays' = strays
  BY DEF AllocPanics
<1>2. Bits' = Bits
  BY <1>1 DEF Bits
<1>3. TypeOK => TypeOK'
  BY <1>1, BitsType DEF TypeOK
<1>4. LiveInRange => LiveInRange'
  BY <1>1 DEF LiveInRange
<1>5. (BitsMatch => BitsMatch') /\ (BitsOwned => BitsOwned')
  BY <1>1, <1>2 DEF BitsMatch, BitsOwned
<1>6. BlocksApart => BlocksApart'
  BY <1>1 DEF BlocksApart
<1> QED BY <1>3, <1>4, <1>5, <1>6 DEF IInv, SInv

LEMMA DeallocIInv ==
  ASSUME IInv, NEW a \in live, Dealloc(a)
  PROVE  IInv'
<1>1. TypeOK /\ LiveInRange /\ BitsMatch /\ BlocksApart
  BY DEF IInv
<1>2. /\ halted' = FALSE
      /\ live' = live \ {a}
      /\ inited' = TRUE /\ bitmap' \in [Pages -> BOOLEAN]
      /\ \A k \in Pages : bitmap'[k] <=> (Bits[k] /\ k \notin PagesOf(a))
  BY DeallocEffect
<1>3. TypeOK'
  BY <1>1, <1>2 DEF TypeOK, Dealloc
<1>4. LiveInRange'
  BY <1>1, <1>2 DEF LiveInRange
<1>5. Bits' = bitmap'
  BY <1>2 DEF Bits
<1>6. BitsMatch'
  <2> SUFFICES ASSUME NEW k \in Pages
               PROVE  bitmap'[k] <=> \E b \in live \ {a} : k \in PagesOf(b)
    BY <1>2, <1>5 DEF BitsMatch
  <2>1. Bits[k] <=> \E b \in live : k \in PagesOf(b)
    BY <1>1 DEF BitsMatch
  <2>2. \A b \in live \ {a} : k \in PagesOf(b) => k \notin PagesOf(a)
    BY <1>1 DEF BlocksApart
  <2> QED BY <1>2, <2>1, <2>2
<1>7. BlocksApart'
  BY <1>1, <1>2 DEF BlocksApart
<1> QED BY <1>3, <1>4, <1>6, <1>7 DEF IInv

LEMMA StutterInv ==
  ASSUME UNCHANGED vars
  PROVE  (IInv => IInv') /\ (SInv => SInv')
BY DEF vars, IInv, SInv, TypeOK, LiveInRange, BitsMatch, BitsOwned, Bits,
       BlocksApart

----------------------------------------------------------------------------
(* The invariant that survives the misuse of free_page.                    *)

LEMMA AllocSInv ==
  ASSUME SInv, NEW s \in ReqSizes, Alloc(s)
  PROVE  SInv'
<1>1. TypeOK /\ LiveInRange /\ BitsOwned
  BY DEF SInv
<1>2. PICK i \in Pages, a \in [ptr : Nat, size : ReqSizes] :
        /\ At(a, i)
        /\ live' = live \cup {a}
        /\ inited' = TRUE /\ bitmap' \in [Pages -> BOOLEAN]
        /\ \A k \in Pages : bitmap'[k] <=> (Bits[k] \/ k \in PagesOf(a))
  BY <1>1, AllocEffect
<1>3. TypeOK'
  BY <1>1, <1>2 DEF TypeOK, Alloc
<1>4. LiveInRange'
  BY <1>1, <1>2 DEF LiveInRange
<1>5. Bits' = bitmap'
  BY <1>2 DEF Bits
<1>6. BitsOwned'
  BY <1>1, <1>2, <1>5 DEF BitsOwned
<1> QED BY <1>3, <1>4, <1>6 DEF SInv

\* A free, right or wrong, only clears bits; the blocks whose pages are still
\* marked keep their owner.
LEMMA FreeSInv ==
  ASSUME SInv, NEW page, NEW cnt, free_page(page, cnt), inited' = TRUE,
         strays' \in 0 .. MaxStrays,
         \/ live' = live
         \/ /\ ~halted'
            /\ \E a \in live :
                 /\ live' = live \ {a}
                 /\ PagesOf(a) =
                      LET pidx == ((page - base_addr) % UsizeMod) \div PageSize
                      IN  pidx .. pidx + cnt - 1
  PROVE  SInv'
<1> DEFINE pidx == ((page - base_addr) % UsizeMod) \div PageSize
<1>1. TypeOK /\ LiveInRange /\ BitsOwned
  BY DEF SInv
<1>2. /\ bitmap' \in [Pages -> BOOLEAN] /\ halted' \in BOOLEAN
      /\ \A k \in Pages : bitmap'[k] => Bits[k]
      /\ ~halted' => \A k \in Pages : bitmap'[k] => k \notin pidx .. pidx + cnt - 1
  <2>1. Bits \in [Pages -> BOOLEAN]
    BY <1>1, BitsType
  <2>2. \/ bitmap' = Bits /\ halted' = TRUE
        \/ /\ halted' = FALSE
           /\ bitmap' \in [Pages -> BOOLEAN]
           /\ \A k \in Pages :
                bitmap'[k] <=> (Bits[k] /\ k \notin pidx .. pidx + cnt - 1)
    BY <1>1, FreeEffect
  <2> QED BY <2>1, <2>2
<1> HIDE DEF pidx
<1>3. live' \subseteq live
  OBVIOUS
<1>4. TypeOK'
  BY <1>1, <1>2, <1>3 DEF TypeOK
<1>5. LiveInRange'
  BY <1>1, <1>3 DEF LiveInRange
<1>6. Bits' = bitmap'
  BY DEF Bits
<1>7. BitsOwned'
  <2>1. CASE live' = live
    BY <1>1, <1>2, <1>6, <2>1 DEF BitsOwned
  <2>2. ASSUME ~halted', NEW a \in live, live' = live \ {a},
               PagesOf(a) = pidx .. pidx + cnt - 1
        PROVE  BitsOwned'
    BY <1>1, <1>2, <1>6, <2>2 DEF BitsOwned
  <2> QED BY <2>1, <2>2 DEF pidx
<1> QED BY <1>4, <1>5, <1>7 DEF SInv

LEMMA DeallocSInv ==
  ASSUME SInv, NEW a \in live, Dealloc(a)
  PROVE  SInv'
<1>1. TypeOK /\ LiveInRange
  BY DEF SInv
<1>2. a \in [ptr : Nat, size : ReqSizes]
  BY <1>1 DEF TypeOK
<1>3. PICK i \in Pages : At(a, i)
  BY <1>1 DEF LiveInRange
<1>4. PagesOf(a) = LET pidx == ((a.ptr - base_addr) % UsizeMod) \div PageSize
                   IN  pidx .. pidx + NumPages(a.size) - 1
  BY <1>2, <1>3, PageIndex
<1>5. /\ free_page(a.ptr, NumPages(a.size)) /\ inited' = TRUE
      /\ live' = IF halted' THEN live ELSE live \ {a}
  BY DEF Dealloc
<1>6. \/ live' = live
      \/ ~halted' /\ live' = live \ {a}
  BY <1>5
<1>7. strays' \in 0 .. MaxStrays
  BY <1>1 DEF TypeOK, Dealloc
<1> QED BY <1>4, <1>5, <1>6, <1>7, FreeSInv

LEMMA StrayFreeSInv ==
  ASSUME SInv, NEW p, NEW n, StrayFree(p, n)
  PROVE  SInv' /\ strays' # 0
<1>1. strays \in Nat /\ strays < MaxStrays /\ strays' = strays + 1
  BY StrayAssumption DEF SInv, TypeOK, StrayFree
<1>2. strays' \in 0 .. MaxStrays /\ strays' # 0
  BY <1>1, StrayAssumption
<1> QED BY <1>2, FreeSInv DEF StrayFree

\* The inductive invariant holds in every state of the allocator.
THEOREM Invariance == Spec => []AllInv
<1>1. Init => AllInv
  BY InitIInv DEF AllInv
<1>2. AllInv /\ [Next]_vars => AllInv'
  <2> SUFFICES ASSUME AllInv, [Next]_vars PROVE AllInv'
    OBVIOUS
  <2>1. ASSUME NEW s \in ReqSizes, Alloc(s) PROVE AllInv'
    <3>1. strays' = strays
      BY <2>1 DEF Alloc
    <3> QED BY <2>1, <3>1, AllocIInv, AllocSInv DEF AllInv
  <2>2. ASSUME NEW s \in ReqSizes, AllocPanics(s) PROVE AllInv'
    <3>1. strays' = strays
      BY <2>2 DEF AllocPanics
    <3> QED BY <2>2, <3>1, AllocPanicsIInv DEF AllInv
  <2>3. ASSUME NEW a \in live, Dealloc(a) PROVE AllInv'
    <3>1. strays' = strays
      BY <2>3 DEF Dealloc
    <3> QED BY <2>3, <3>1, DeallocIInv, DeallocSInv DEF AllInv
  <2>4. ASSUME NEW p, NEW n, StrayFree(p, n) PROVE AllInv'
    BY <2>4, StrayFreeSInv DEF AllInv
  <2>5. CASE UNCHANGED vars
    <3>1. strays' = strays
      BY <2>5 DEF vars
    <3> QED BY <2>5, <3>1, StutterInv DEF AllInv
  <2> QED BY <2>1, <2>2, <2>3, <2>4, <2>5 DEF Next
<1> QED BY <1>1, <1>2, PTL DEF Spec

\* The bitmap always has one bit per page, whatever is allocated and freed.
THEOREM TypeCorrect == Spec => []TypeOK
<1>1. AllInv => TypeOK
  BY DEF AllInv, SInv
<1> QED BY <1>1, Invariance, PTL

\* alloc never hands out a page that is still in use.
THEOREM BlocksDisjoint == Spec => []LiveDisjoint
<1>1. AllInv => LiveDisjoint
  BY DEF AllInv, IInv, LiveDisjoint
<1> QED BY <1>1, Invariance, PTL

\* The bitmap and the blocks in use agree: no page leaks.
THEOREM BitmapExact == Spec => []BitmapMatchesLive
<1>1. AllInv => BitmapMatchesLive
  BY IInvImplies
<1> QED BY <1>1, Invariance, PTL

\* Blocks stay clear of the bitmap's own pages and of the end of memory, even
\* after wrong frees.
THEOREM BlocksInMemory == Spec => []LiveInMemory
<1>1. AllInv => LiveInMemory
  BY IInvImplies DEF AllInv, SInv
<1> QED BY <1>1, Invariance, PTL

\* A page marked in the bitmap always belongs to a block that was handed out,
\* even among callers that free what they do not own.
THEOREM StrayFreesMarkNothing == Spec => []MarkedAreOwned
<1>1. AllInv => MarkedAreOwned
  BY IInvImplies DEF AllInv
<1> QED BY <1>1, Invariance, PTL

----------------------------------------------------------------------------
(* The allocator implements the page pool.                                 *)

\* Two blocks with no page in common do not overlap in memory, and the other
\* way round.
LEMMA ApartInMemory ==
  ASSUME NEW i \in Nat, NEW j \in Nat, NEW m \in Nat \ {0}, NEW n \in Nat \ {0}
  PROVE  (i .. i + m - 1) \cap (j .. j + n - 1) = {}
         <=> \/ base_addr + (i + m) * PageSize <= base_addr + j * PageSize
             \/ base_addr + j * PageSize + n * PageSize <= base_addr + i * PageSize
<1>1. base_addr \in Nat /\ PageSize \in Nat \ {0}
  BY Division, SizesAssumption
<1>2. ASSUME NEW x \in Nat, NEW y \in Nat
      PROVE  base_addr + x * PageSize <= base_addr + y * PageSize <=> x <= y
  <2>1. x <= y => x * PageSize <= y * PageSize
    BY <1>1
  <2>2. x >= y + 1 => x * PageSize >= y * PageSize + PageSize
    BY <1>1
  <2>3. x * PageSize \in Nat /\ y * PageSize \in Nat
    BY <1>1
  <2> QED BY <1>1, <2>1, <2>2, <2>3
<1>3. j * PageSize + n * PageSize = (j + n) * PageSize
  BY <1>1
<1>4. base_addr + j * PageSize + n * PageSize = base_addr + (j + n) * PageSize
  <2>1. j * PageSize \in Nat /\ n * PageSize \in Nat
    BY <1>1
  <2> QED BY <1>1, <1>3, <2>1
<1>5. (i .. i + m - 1) \cap (j .. j + n - 1) = {} <=> i + m <= j \/ j + n <= i
  <2>1. i + m <= j \/ j + n <= i => (i .. i + m - 1) \cap (j .. j + n - 1) = {}
    OBVIOUS
  <2>2. CASE i <= j /\ j < i + m
    <3>1. j \in i .. i + m - 1 /\ j \in j .. j + n - 1
      BY <2>2
    <3> QED BY <2>2, <3>1
  <2>3. CASE j <= i /\ i < j + n
    <3>1. i \in i .. i + m - 1 /\ i \in j .. j + n - 1
      BY <2>3
    <3> QED BY <2>3, <3>1
  <2> QED BY <2>1, <2>2, <2>3
<1> QED BY <1>2, <1>4, <1>5

\* A run of pages fits into the pool exactly when its bits are clear.
LEMMA FitsIffClear ==
  ASSUME IInv, NEW i \in Pages, NEW s \in ReqSizes
  PROVE  Pool!Fits(i, s) <=>
           /\ i + NumPages(s) <= avl_pages
           /\ \A k \in i .. i + NumPages(s) - 1 : ~Bits[k]
<1> DEFINE m == NumPages(s)
<1>1. m \in Nat \ {0} /\ i \in Nat /\ avl_pages \in Nat
  BY NumPagesFact, Division DEF Pages
<1>2. \A r : Pool!Needed(r) = NumPages(r)
  BY DEF Pool!Needed, NumPages
<1>3. ASSUME NEW a \in live
      PROVE  (i .. i + m - 1) \cap PagesOf(a) = {}
             <=> \/ base_addr + (i + m) * PageSize <= a.ptr
                 \/ a.ptr + NumPages(a.size) * PageSize <= base_addr + i * PageSize
  <2>1. a \in [ptr : Nat, size : ReqSizes]
    BY DEF IInv, TypeOK
  <2>2. PICK j \in Pages : At(a, j)
    BY DEF IInv, LiveInRange
  <2>3. PagesOf(a) = j .. j + NumPages(a.size) - 1
    BY <2>1, <2>2, PageIndex
  <2>4. NumPages(a.size) \in Nat \ {0}
    <3>1. a.size \in ReqSizes
      BY <2>1
    <3> QED BY <3>1, NumPagesFact
  <2>5. j \in Nat /\ a.ptr = base_addr + j * PageSize
    BY <1>1, <2>2 DEF At, Pages
  <2> DEFINE n == NumPages(a.size)
  <2> HIDE DEF m, n
  <2>6. n \in Nat \ {0} /\ PagesOf(a) = j .. j + n - 1
    BY <2>3, <2>4 DEF n
  <2>7. (i .. i + m - 1) \cap (j .. j + n - 1) = {}
        <=> \/ base_addr + (i + m) * PageSize <= base_addr + j * PageSize
            \/ base_addr + j * PageSize + n * PageSize <= base_addr + i * PageSize
    BY <1>1, <2>5, <2>6, ApartInMemory
  <2>8. (i .. i + m - 1) \cap PagesOf(a) = {}
        <=> \/ base_addr + (i + m) * PageSize <= a.ptr
            \/ a.ptr + n * PageSize <= base_addr + i * PageSize
    BY <2>5, <2>6, <2>7, Zenon
  <2> QED BY <2>8 DEF n
<1> HIDE DEF m
<1>4. i + m <= avl_pages =>
        ((\A k \in i .. i + m - 1 : ~Bits[k])
          <=> \A a \in live : (i .. i + m - 1) \cap PagesOf(a) = {})
  <2> SUFFICES ASSUME i + m <= avl_pages
               PROVE  (\A k \in i .. i + m - 1 : ~Bits[k])
                      <=> \A a \in live : (i .. i + m - 1) \cap PagesOf(a) = {}
    OBVIOUS
  <2>1. \A k \in i .. i + m - 1 : k \in Pages
    BY <1>1 DEF Pages
  <2>2. \A k \in i .. i + m - 1 : Bits[k] <=> \E a \in live : k \in PagesOf(a)
    BY <2>1 DEF IInv, BitsMatch
  <2> QED BY <2>2
<1>5. Pool!Fits(i, s) <=>
        /\ i + m <= avl_pages
        /\ \A a \in live :
             \/ base_addr + (i + m) * PageSize <= a.ptr
             \/ a.ptr + NumPages(a.size) * PageSize <= base_addr + i * PageSize
  BY <1>2 DEF Pool!Fits, m
<1> QED BY <1>3, <1>4, <1>5 DEF m

\* Every behaviour of the allocator is one of the page pool: alloc returns a
\* run that fits, panics only when none does, and dealloc succeeds.
THEOREM Refinement == Spec => ImplementsPool
<1>1. Init => Pool!PoolInit
  BY DEF Init, Pool!PoolInit
<1>2. AllInv /\ AllInv' /\ [Next]_vars => [Pool!PoolNext]_Pool!poolVars
  <2> SUFFICES ASSUME AllInv, AllInv', [Next]_vars, strays' = 0
               PROVE  [Pool!PoolNext]_Pool!poolVars
    <3>1. (strays # 0)' = TRUE => Pool!PoolNext
      BY DEF Pool!PoolNext
    <3> QED BY <3>1
  <2> USE DEF Pool!PoolNext
  <2>s. ASSUME NEW p, NEW n, StrayFree(p, n) PROVE FALSE
    BY <2>s, StrayFreeSInv DEF AllInv
  <2>t. strays = 0 /\ IInv
    <3>1. strays' = strays
      BY <2>s DEF Next, Alloc, AllocPanics, Dealloc, vars
    <3> QED BY <3>1 DEF AllInv
  <2>u. (strays # 0)' = (strays # 0)
    BY <2>t
  <2>0. TypeOK /\ LiveInRange /\ Pages = 0 .. avl_pages - 1
    BY <2>t DEF IInv, Pages
  <2>1. ASSUME NEW s \in ReqSizes, Alloc(s) PROVE Pool!Take(s)
    <3>1. PICK i \in Pages, a \in [ptr : Nat, size : ReqSizes] :
            /\ a = [ptr |-> base_addr + i * PageSize, size |-> s]
            /\ At(a, i)
            /\ live' = live \cup {a}
            /\ \A k \in PagesOf(a) : k \in Pages /\ ~Bits[k]
      BY <2>0, <2>1, AllocEffect
    <3>2. PagesOf(a) = i .. i + NumPages(a.size) - 1 /\ a.size = s
      BY <3>1, PageIndex
    <3>3. i + NumPages(s) <= avl_pages
      BY <3>1, <3>2 DEF At
    <3>4. Pool!Fits(i, s)
      BY <2>t, <3>1, <3>2, <3>3, FitsIffClear
    <3>5. ~halted /\ halted' = halted
      BY <2>1 DEF Alloc
    <3> QED BY <2>0, <3>1, <3>4, <3>5 DEF Pool!Take
  <2>2. ASSUME NEW s \in ReqSizes, AllocPanics(s) PROVE Pool!Refuse(s)
    <3>1. ~halted /\ halted' = TRUE /\ live' = live
          /\ findFails(Bits, 0, NumPages(s), FALSE)
      BY <2>2 DEF AllocPanics
    <3>2. ASSUME NEW i \in Pages PROVE ~Pool!Fits(i, s)
      BY <2>t, <2>0, <3>1, FitsIffClear, FindsIfAny, BitsType, NumPagesFact
    <3> QED BY <2>0, <3>1, <3>2 DEF Pool!Refuse
  <2>3. ASSUME NEW a \in live, Dealloc(a) PROVE Pool!GiveBack(a)
    <3>1. ~halted
      BY <2>3 DEF Dealloc
    <3>2. halted \in BOOLEAN /\ halted' = FALSE /\ live' = live \ {a}
      BY <2>t, <2>0, <2>3, DeallocEffect DEF TypeOK
    <3>3. halted' = halted
      BY <3>1, <3>2
    <3> QED BY <3>1, <3>2, <3>3 DEF Pool!GiveBack
  <2>4. CASE UNCHANGED vars
    BY <2>4 DEF vars, Pool!poolVars
  <2> QED BY <2>s, <2>u, <2>1, <2>2, <2>3, <2>4 DEF Next
<1> QED BY <1>1, <1>2, Invariance, PTL DEF Spec, ImplementsPool, Pool!PoolSpec
============================================================================
