-------------------------------- MODULE Boot --------------------------------
(***************************************************************************)
(* From the loader to the first Box: main reads the memory map that the    *)
(* loader left at 0xc0020204 (loader.rs), adds up the usable memory        *)
(* (available_mem_size of mm/mod.rs), and the first allocation gives all of*)
(* it to the page allocator (PageAllocator::default of mm/page.rs), through*)
(* the page tables that the loader built.                                  *)
(*                                                                         *)
(* Sizes are in MiB and memory addresses in pages of 4 KiB, both physical; *)
(* the kernel reaches address a at 3 GiB + a.  U64 stands for 2^64 bytes: a*)
(* multiple of 2^32 bytes that is larger than any memory.                  *)
(***************************************************************************)
EXTENDS Loader, FiniteSets

CONSTANT
  StraySizes  \* bound: sizes that memory which is no memory map adds up to

U64 == 2^30

ASSUME BootAssumption ==
  /\ StraySizes \subseteq Nat
  /\ \A m \in Machines : \A i \in 1 .. Len(m[2]) : m[2][i].addr + m[2][i].len < U64

VARIABLES
  overflow_checks, \* a debug build panics where a release build wraps
  added,           \* the turns of available_mem_size's loop so far
  acc,             \* its variables, and whether the difference has underflowed
  size             \* what it returned, None before

bootVars == <<vars, overflow_checks, added, acc, size>>

BootInit ==
  /\ Init
  /\ overflow_checks \in BOOLEAN
  /\ added = 0 /\ acc = [size |-> 0, last_end |-> 0, underflow |-> FALSE]
  /\ size = None

----------------------------------------------------------------------------
(* available_mem_size, which main's println! is the first to call.         *)

\* One turn of the loop.  The difference underflows for a region that ends
\* before last_end.
add_EveryKind(a, mem) ==
  LET from == IF mem.addr > a.last_end THEN mem.addr ELSE a.last_end
      this_end == mem.addr + mem.len
  IN  IF mem.addr >= 1
        THEN [size |-> (a.size + (this_end - from)) % U64, last_end |-> this_end,
              underflow |-> this_end < from]
        ELSE a
add_Lengths(a, mem) ==
  IF mem.kind = "Usable" /\ mem.addr >= 1
    THEN [a EXCEPT !.size = (@ + mem.len) % U64]
    ELSE a
add(a, mem) ==
  LET from == IF mem.addr > a.last_end THEN mem.addr ELSE a.last_end
      this_end == mem.addr + mem.len
  IN  IF mem.kind = "Usable" /\ mem.addr >= 1
        THEN [size |-> (a.size + (this_end - from)) % U64, last_end |-> this_end,
              underflow |-> this_end < from]
        ELSE a

\* get_memlayout gives memlayoutlen entries.  Behind those of the BIOS there
\* is whatever the memory holds.
IsMap == memlayoutlen = Len(memlayoutbuf)

AddRegion ==
  /\ pc = "kernel" /\ IsMap /\ added < Len(memlayoutbuf)
  /\ added' = added + 1
  /\ acc' = add(acc, memlayoutbuf[added'])
  /\ pc' = IF overflow_checks /\ acc'.underflow THEN "panic" ELSE pc
  /\ UNCHANGED <<LOADER_END, diskVars, mapVars, pageVars, overflow_checks, size>>

Measured ==
  /\ pc = "kernel"
  /\ \/ IsMap /\ added = Len(memlayoutbuf) /\ size' = acc.size
     \/ ~IsMap /\ size' \in StraySizes
  /\ pc' = "measured"
  /\ UNCHANGED <<LOADER_END, diskVars, mapVars, pageVars, overflow_checks, added, acc>>

\* Entries that are none may underflow as well.
StrayPanics ==
  /\ pc = "kernel" /\ ~IsMap /\ overflow_checks
  /\ pc' = "panic"
  /\ UNCHANGED <<LOADER_END, diskVars, mapVars, pageVars, overflow_checks, added, acc, size>>

\* main prints the memory map.  The derived Debug looks the name of a kind up in
\* a table; a kind that is none of the five is undefined behaviour.
PrintLayout ==
  /\ pc = "measured"
  /\ pc' \in {"printed"} \cup IF IsMap THEN {} ELSE {"lost"}
  /\ UNCHANGED <<LOADER_END, diskVars, mapVars, pageVars, overflow_checks, added, acc, size>>

----------------------------------------------------------------------------
(* PageAllocator::default.  usize has 32 bits, a MiB 256 pages.            *)

memsize == size % 4096
pagecnt == memsize * 256
bitmap_size == (pagecnt + 7) \div 8
bitmap_pages == (bitmap_size + 4095) \div 4096
avl_pages == pagecnt - bitmap_pages
data_ptr == 256
base_addr == data_ptr + bitmap_pages

\* Box::new(42): the unwrap of alloc panics when there is no page.
AllocateBox ==
  /\ pc = "printed"
  /\ pc' = IF avl_pages >= 1 THEN "hlt" ELSE "panic"
  /\ UNCHANGED <<LOADER_END, diskVars, mapVars, pageVars, overflow_checks, added, acc, size>>

BootNext ==
  \/ Next /\ UNCHANGED <<overflow_checks, added, acc, size>>
  \/ AddRegion \/ Measured \/ StrayPanics
  \/ PrintLayout
  \/ AllocateBox

BootSpec == BootInit /\ [][BootNext]_bootVars

----------------------------------------------------------------------------
(* Properties.                                                             *)

IsUsable(mem) == mem.kind = "Usable" /\ mem.addr >= 1
Extent(mem) == mem.addr .. mem.addr + mem.len - 1

\* The usable memory from 1 MiB on in the first n regions, in all of them, and
\* that which the allocator manages.
UsableIn(n) == UNION {Extent(bios[k]) : k \in {j \in 1 .. n : IsUsable(bios[j])}}
UsableMemory == UsableIn(Len(bios))
Managed == 1 .. memsize

\* A usable region ends, or begins, before one that was reported earlier.
EndsBack ==
  \E j, k \in 1 .. Len(bios) :
    /\ j < k /\ IsUsable(bios[j]) /\ IsUsable(bios[k])
    /\ bios[k].addr + bios[k].len < bios[j].addr + bios[j].len
BeginsBack ==
  \E j, k \in 1 .. Len(bios) :
    /\ j < k /\ IsUsable(bios[j]) /\ IsUsable(bios[k])
    /\ bios[k].addr < bios[j].addr

\* Page p of physical memory can be reached at 3 GiB + p.
Mapped(p) == LET m == p \div 1024 IN Translates(HIGH_PDE + m, m)

\* available_mem_size counts all the usable memory above 1 MiB, overlaps once,
\* if the regions are sorted.  Where a region ends before an earlier one, a debug
\* build panics, and no other; the release build, which goes on, may wrap below
\* zero.  It then returns a size just short of 2^64, by no more than the end of
\* a region for each region of the map.  A size that has not wrapped is never
\* more than the usable memory, so none in between is returned.
SizeIsUsable ==
  pc \in {"measured", "printed", "hlt", "panic"} /\ IsMap =>
    /\ ~EndsBack /\ ~BeginsBack => size = Cardinality(UsableMemory)
    /\ \/ size <= Cardinality(UsableMemory)
       \/ /\ EndsBack
          /\ \E k \in 1 .. Len(bios) :
               IsUsable(bios[k]) /\ U64 - size <= Len(bios) * (bios[k].addr + bios[k].len)
    /\ size = None <=> overflow_checks /\ EndsBack

\* The allocator, which takes the memory from 1 MiB on in one piece, manages
\* usable memory only if the usable memory begins with this piece, so without a
\* hole, and then even when the size is cut to 32 bits; with a hole it manages
\* memory that is not usable, unless the size is cut.
ManagedIsUsable ==
  pc \in {"measured", "printed", "hlt"} /\ IsMap /\ ~EndsBack /\ ~BeginsBack =>
    LET NoHole == \A b \in UsableMemory : 1 .. b \subseteq UsableMemory
    IN  /\ NoHole => Managed \subseteq UsableMemory
        /\ ~NoHole /\ size < 4096 => ~(Managed \subseteq UsableMemory)

\* Every page that can be allocated is mapped, through a filled page table, if
\* and only if the allocator is given no more than 63 MiB.
ManagedIsMapped ==
  pc \in {"measured", "printed", "hlt"} =>
    (memsize <= 63 <=> \A a \in Managed : a < 4 * PDES /\ Mapped(256 * a))

\* What main touches on its way to the hlt loop is mapped, so that it meets no
\* page fault: its stack, the screen, its image, the memory map however long it
\* is said to be, the bitmap and the first page allocated.
TouchedIsMapped ==
  pc \in {"measured", "printed", "hlt"} =>
    \A p \in (7 .. 14) \cup {184}
             \cup (32 .. 32 + LOADER_END \div 4096)
             \cup (32 .. 32 + (LAYOUT_OFFSET + ENTRY * memlayoutlen) \div 4096)
             \cup (data_ptr .. base_addr) : Mapped(p)
=============================================================================
