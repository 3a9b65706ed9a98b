--------------------------- MODULE PageAllocator ---------------------------
(***************************************************************************)
(* The physical-page allocator behind the kernel's global allocator        *)
(* (kernel/src/mm/page.rs, kernel/src/mm/mod.rs).                          *)
(*                                                                         *)
(* PAGE_ALLOC is a lazily initialised PageAllocator: a bitmap with one bit *)
(* per 4 KiB page, stored at the start of the memory it manages.  alloc    *)
(* takes the first run of clear bits that is long enough and flips it,     *)
(* dealloc checks that the run is set and flips it back.  Every failed     *)
(* assert!, unwrap of None and arithmetic overflow ends in the panic       *)
(* handler, which prints and loops for ever: halted.                       *)
(*                                                                         *)
(* No interrupt handler allocates, so alloc and dealloc are atomic.        *)
(***************************************************************************)
EXTENDS Integers, BitMap

CONSTANTS
  PageSize,     \* bytes per page: 4096
  DataPtr,      \* start of the managed memory: 0xc0100000
  AvailableMem, \* the u64 returned by mm::available_mem_size()
  UsizeMod,     \* 2^32: usize arithmetic is modulo this
  ReqSizes,     \* layout sizes requested through alloc
  StrayPtrs,    \* addresses a buggy caller passes to free_page ...
  StrayCnts,    \* ... and the page counts passed with them
  MaxStrays     \* bound: such calls in a behaviour

\* Box and Vec never call the allocator with a zero-sized layout, and
\* layout.size() <= isize::MAX, so reqsize + 4095 does not overflow.
ASSUME SizesAssumption ==
  /\ PageSize \in Nat \ {0}
  /\ UsizeMod \in Nat \ {0}
  /\ DataPtr \in Nat /\ DataPtr % PageSize = 0
  /\ AvailableMem \in Nat
  /\ ReqSizes \subseteq Nat \ {0}

\* The managed memory does not run past the end of the 32-bit address space
\* (0xc0100000 leaves 1023 MiB; the emulators are given 32 and 128 MiB).
ASSUME ManagedFitsAssumption == DataPtr + (AvailableMem % UsizeMod) <= UsizeMod

ASSUME StrayAssumption ==
  /\ StrayPtrs \subseteq 0 .. UsizeMod - 1
  /\ StrayCnts \subseteq Nat \ {0}
  /\ MaxStrays \in Nat

----------------------------------------------------------------------------
(* PageAllocator::default: how the memory is divided.                      *)

memsize == AvailableMem % UsizeMod
pagecnt == memsize \div PageSize
bitmap_size == (pagecnt + 7) \div 8
bitmap_pages_Floor == bitmap_size \div PageSize
bitmap_pages == (bitmap_size + PageSize - 1) \div PageSize
avl_pages == pagecnt - bitmap_pages
base_addr == DataPtr + bitmap_pages * PageSize

Pages == 0 .. avl_pages - 1

VARIABLES
  inited,  \* PAGE_ALLOC has been initialised
  bitmap,  \* the bits of BitMap, by page index; TRUE when allocated
  live,    \* ghost: the blocks handed out and not yet given back
  halted,  \* the kernel is in the panic handler's loop
  strays   \* ghost: calls of free_page so far that broke its contract

vars == <<inited, bitmap, live, halted, strays>>

----------------------------------------------------------------------------
(* The global allocator.                                                   *)

\* BitMap::new clears every byte that holds a page's bit.
BitMapNew == [i \in Pages |-> FALSE]

\* (reqsize + 4095) / 4096
NumPages(reqsize) == (reqsize + PageSize - 1) \div PageSize

\* The bitmap as PAGE_ALLOC.get_mut() leaves it: created on first use.
Bits == IF inited THEN bitmap ELSE BitMapNew

\* The pages of a block that was handed out.
PagesOf(a) ==
  LET first == (a.ptr - base_addr) \div PageSize
  IN  first .. first + NumPages(a.size) - 1

Init ==
  /\ inited = FALSE
  /\ bitmap \in [Pages -> BOOLEAN]   \* whatever the memory held at power-on
  /\ live = {}
  /\ halted = FALSE
  /\ strays = 0

\* GlobalAlloc::alloc when get_page returns Some.
Alloc(reqsize) ==
  /\ ~halted
  /\ \E i \in Pages :
       /\ finds(Bits, 0, NumPages(reqsize), FALSE, i)
       /\ bitmap' = flips(Bits, i, NumPages(reqsize))
       /\ live' = live \cup {[ptr |-> base_addr + i * PageSize, size |-> reqsize]}
  /\ inited' = TRUE
  /\ UNCHANGED <<halted, strays>>

\* GlobalAlloc::alloc when get_page returns None or panics.
AllocPanics(reqsize) ==
  /\ ~halted
  /\ findFails(Bits, 0, NumPages(reqsize), FALSE)
  /\ bitmap' = Bits
  /\ inited' = TRUE
  /\ halted' = TRUE
  /\ UNCHANGED <<live, strays>>

\* PageAllocator::free_page, on the bitmap that get_mut() provides.
\* page - base_addr underflows for a page below base_addr: a debug build
\* panics there, a release build wraps to an index past the last page, where
\* the assert of test panics.
free_page_Unchecked(page, cnt) ==
  LET pidx == ((page - base_addr) % UsizeMod) \div PageSize
  IN  bitmap' = flips(Bits, pidx, cnt) /\ halted' = FALSE
free_page(page, cnt) ==
  LET pidx == ((page - base_addr) % UsizeMod) \div PageSize
      freed == page % PageSize = 0 /\ all(Bits, pidx, cnt)
  IN  /\ bitmap' = IF freed THEN flips(Bits, pidx, cnt) ELSE Bits
      /\ halted' = ~freed

\* GlobalAlloc::dealloc, by the owner of a block, with the block's layout.
Dealloc_LeakLast(a) ==
  /\ ~halted
  /\ free_page(a.ptr, a.size \div PageSize)
  /\ live' = IF halted' THEN live ELSE live \ {a}
  /\ inited' = TRUE
  /\ UNCHANGED strays
Dealloc(a) ==
  /\ ~halted
  /\ free_page(a.ptr, NumPages(a.size))
  /\ live' = IF halted' THEN live ELSE live \ {a}
  /\ inited' = TRUE
  /\ UNCHANGED strays

\* A call of free_page that breaks the allocator's contract: a pointer that
\* was never handed out, is already free, or belongs to someone else.
StrayFree(page, cnt) ==
  /\ ~halted
  /\ strays < MaxStrays
  /\ strays' = strays + 1
  /\ free_page(page, cnt)
  /\ inited' = TRUE
  /\ UNCHANGED live

Next ==
  \/ \E s \in ReqSizes : Alloc(s) \/ AllocPanics(s)
  \/ \E a \in live : Dealloc(a)
  \/ \E p \in StrayPtrs, n \in StrayCnts : StrayFree(p, n)

Spec == Init /\ [][Next]_vars

----------------------------------------------------------------------------
(* Properties.                                                             *)

\* Type invariant: the bitmap keeps one bit per page and the ghost records
\* blocks of requested sizes.
TypeOK ==
  /\ inited \in BOOLEAN
  /\ bitmap \in [Pages -> BOOLEAN]
  /\ live \subseteq [ptr : Nat, size : ReqSizes]
  /\ halted \in BOOLEAN
  /\ strays \in 0 .. MaxStrays

\* Every block starts on a page boundary, above the bytes BitMap::new clears
\* for the bitmap, and ends inside the memory (memsize) that is divided: the
\* split made by PageAllocator::default leaves no overlap and no overhang.
LiveInMemory ==
  \A a \in live :
    /\ a.ptr % PageSize = 0
    /\ a.ptr >= DataPtr + ((avl_pages + 7) \div 8)
    /\ a.ptr + a.size <= DataPtr + memsize

BlocksApart == \A a, b \in live : a # b => PagesOf(a) \cap PagesOf(b) = {}

\* No two blocks share a page, whatever the order of alloc and dealloc, as
\* long as callers free what they own.
LiveDisjoint == strays = 0 => BlocksApart

\* Once PAGE_ALLOC exists, a bit is set exactly when some block covers its
\* page: nothing leaks and nothing in use is offered again.
BitmapMatchesLive ==
  inited /\ strays = 0 =>
    \A i \in Pages : bitmap[i] <=> \E a \in live : i \in PagesOf(a)

\* Even when callers misuse free_page, a set bit belongs to a block: the
\* check all(..) made before the flips keeps a wrong free from marking pages
\* that nobody owns and nobody could ever give back.
MarkedAreOwned ==
  inited => \A i \in Pages : bitmap[i] => \E a \in live : i \in PagesOf(a)

\* The allocator implements the page pool: first fit over the bitmap is one
\* of the strategies the pool allows, get_page fails only when no run is long
\* enough (although find may panic instead of returning None), and dealloc
\* with the layout of the block never fails.  It promises this to callers
\* that keep its contract.
Pool == INSTANCE PagePool WITH
  Base <- base_addr, Count <- avl_pages, misused <- strays # 0
ImplementsPool == Pool!PoolSpec
============================================================================
