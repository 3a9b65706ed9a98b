------------------------------- MODULE Loader -------------------------------
(***************************************************************************)
(* The boot loader, loader.s, from the first BIOS disk read to the jump    *)
(* into the kernel: it reads the image to 0x20000 in several transfers,    *)
(* checks the kernel's ELF magic and a marker behind the kernel, asks the  *)
(* BIOS for the memory map, and builds the page tables.                    *)
(*                                                                         *)
(* Memory is counted in sectors of 512 bytes from LOADER_LOAD_ADDR, and    *)
(* the image in sectors of the disk; both start at the loader itself.      *)
(***************************************************************************)
EXTENDS Integers, Sequences

CONSTANT
  Machines  \* pairs of a value of LOADER_END and the memory map of a BIOS

BLKCNT == 127          \* sectors per transfer
STRIDE == 128          \* added to d_lba, and 0x1000 paragraphs to db_addr_seg
KERNEL_OFFSET == 4096  \* where incbin puts the kernel
PDES == 64             \* cx of build_pde
PTES == 16             \* cx of build_pte, 0x4000 entries, in tables of 1024
SEGMENT == 16          \* the tables that 16 bits of di reach
HIGH_PDE == 768        \* (KERNEL_BASE >> 20) / 4
LAYOUT_OFFSET == 520   \* memlayoutbuf, behind the boot sector and two words
ENTRY == 20            \* bytes per entry of the memory map
ENTRY_POINT == 4120    \* e_entry in the kernel's ELF header

IMAGE_ROOM == 520192   \* from 0x20000 to the end of low memory at 0x9f000

\* A memory map is a sequence of regions, in MiB: from addr on, len long.  A
\* BIOS reports at least one, and fewer than would wrap the register di.
Region == [addr : Nat, len : Nat,
           kind : {"Usable", "Reserved", "ACPIReclaimable", "ACPINVS", "Bad"}]

ASSUME MachineAssumption ==
  \A m \in Machines :
    /\ m[1] \in KERNEL_OFFSET + 1 .. IMAGE_ROOM
    /\ m[2] \in Seq(Region) /\ Len(m[2]) >= 1 /\ Len(m[2]) <= 3000

VARIABLES
  pc,
  LOADER_END,     \* the size of loader and kernel, fixed when it was built
  load_disk_cnt, d_lba, db_addr,  \* db_addr in sectors of memory
  memory,         \* memory sector -> the disk sector it holds, or Stale
  memlayoutlen,   \* 57005 is 0xdead
  bios,           \* the memory map that the BIOS would report
  memlayoutbuf,   \* the entries it has written
  cx, di, eax,    \* the registers of the loops that build the page tables
  pde,            \* directory entry -> index of its page table, or None
  pte             \* page table -> the 4 MiB of memory it maps, None before

vars == <<pc, LOADER_END, load_disk_cnt, d_lba, db_addr, memory, memlayoutlen,
          bios, memlayoutbuf, cx, di, eax, pde, pte>>
diskVars == <<load_disk_cnt, d_lba, db_addr, memory>>
mapVars == <<bios, memlayoutlen, memlayoutbuf>>
pageVars == <<cx, di, eax, pde, pte>>

Stale == -1
None == -1
SectorOf(byte) == byte \div 512

LOADER_DISK_BLOCK_COUNT == (LOADER_END + 511) \div 512
LOADER_DISK_TIME == (LOADER_DISK_BLOCK_COUNT + 127) \div 128

Init ==
  /\ pc = "bios_read"
  /\ \E m \in Machines : LOADER_END = m[1] /\ bios = m[2]
  /\ load_disk_cnt = LOADER_DISK_TIME
  /\ d_lba = 0 /\ db_addr = 0
  /\ memory = [s \in 0 .. STRIDE * LOADER_DISK_TIME |-> Stale]
  /\ memlayoutlen = 0 /\ memlayoutbuf = <<>>
  /\ pde = [d \in 0 .. 1023 |-> None]
  /\ cx = 0 /\ di = 0 /\ eax = 0
  /\ pte = [t \in 0 .. PDES - 1 |-> None]

\* One int 0x13 transfer, and the loop around it.
bios_read_Packed ==
  /\ pc = "bios_read"
  /\ memory' = [s \in DOMAIN memory |->
                  IF s \in db_addr .. db_addr + BLKCNT - 1
                    THEN d_lba + (s - db_addr) ELSE memory[s]]
  /\ load_disk_cnt' = load_disk_cnt - 1
  /\ IF load_disk_cnt' = 0
       THEN pc' = "check_read" /\ UNCHANGED <<d_lba, db_addr>>
       ELSE /\ db_addr' = db_addr + STRIDE
            /\ d_lba' = d_lba + BLKCNT
            /\ UNCHANGED pc
  /\ UNCHANGED <<LOADER_END, mapVars, pageVars>>
bios_read ==
  /\ pc = "bios_read"
  /\ memory' = [s \in DOMAIN memory |->
                  IF s \in db_addr .. db_addr + BLKCNT - 1
                    THEN d_lba + (s - db_addr) ELSE memory[s]]
  /\ load_disk_cnt' = load_disk_cnt - 1
  /\ IF load_disk_cnt' = 0
       THEN pc' = "check_read" /\ UNCHANGED <<d_lba, db_addr>>
       ELSE /\ db_addr' = db_addr + STRIDE
            /\ d_lba' = d_lba + STRIDE
            /\ UNCHANGED pc
  /\ UNCHANGED <<LOADER_END, mapVars, pageVars>>

\* The BIOS reports an error, in the carry flag.
bios_read_fails ==
  /\ pc = "bios_read"
  /\ pc' = "check_fail"
  /\ UNCHANGED <<LOADER_END, diskVars, mapVars, pageVars>>

\* Memory sector s holds what the disk has for it.
Holds(s) == memory[s] = s

\* The magic at the start of the kernel, and the marker END_CHECK behind it.
check_read_MagicOnly ==
  /\ pc = "check_read"
  /\ pc' = IF Holds(SectorOf(KERNEL_OFFSET)) THEN "detectmem" ELSE "check_fail"
  /\ UNCHANGED <<LOADER_END, diskVars, mapVars, pageVars>>
check_read ==
  /\ pc = "check_read"
  /\ pc' = IF /\ Holds(SectorOf(KERNEL_OFFSET))
              /\ Holds(SectorOf(LOADER_END)) /\ Holds(SectorOf(LOADER_END + 3))
             THEN "detectmem" ELSE "check_fail"
  /\ UNCHANGED <<LOADER_END, diskVars, mapVars, pageVars>>

\* The sectors that the n-th entry of the memory map is written to.
EntrySectors(n) ==
  SectorOf(LAYOUT_OFFSET + ENTRY * (n - 1)) .. SectorOf(LAYOUT_OFFSET + ENTRY * n - 1)

\* One int 0x15, eax = 0xe820.  ebx = 0 marks the last entry; on some machines
\* the end of the list is a carry in the call after it.
detectmem ==
  /\ pc = "detectmem"
  /\ Len(memlayoutbuf) < Len(bios)
  /\ memlayoutbuf' = Append(memlayoutbuf, bios[Len(memlayoutbuf) + 1])
  /\ memlayoutlen' = memlayoutlen + 1
  /\ memory' = [s \in DOMAIN memory |->
                  IF s \in EntrySectors(memlayoutlen') THEN Stale ELSE memory[s]]
  /\ pc' \in IF memlayoutbuf' = bios THEN {"detectmem", "build_pde"} ELSE {"detectmem"}
  /\ UNCHANGED <<LOADER_END, load_disk_cnt, d_lba, db_addr, bios, pageVars>>

\* The carry, whether an error or the end of the list.
detectmemfail_WideMarker ==
  /\ pc = "detectmem"
  /\ memlayoutlen' = 14593470
  /\ pc' = "build_pde"
  /\ UNCHANGED <<LOADER_END, diskVars, bios, memlayoutbuf, pageVars>>
detectmemfail ==
  /\ pc = "detectmem"
  /\ memlayoutlen' = 57005
  /\ pc' = "build_pde"
  /\ UNCHANGED <<LOADER_END, diskVars, bios, memlayoutbuf, pageVars>>

\* pde_mem_clear, and the registers for write_pde: eax is the next page table
\* and di the next entry.
build_pde ==
  /\ pc = "build_pde"
  /\ pde' = [d \in 0 .. 1023 |-> None]
  /\ cx' = PDES /\ di' = 0 /\ eax' = 0
  /\ pc' = "write_pde"
  /\ UNCHANGED <<LOADER_END, diskVars, mapVars, pte>>

\* One turn of write_pde: the same table serves the low address and the one
\* 3 GiB above it.
write_pde ==
  /\ pc = "write_pde"
  /\ pde' = [pde EXCEPT ![di] = eax, ![di + HIGH_PDE] = eax]
  /\ di' = di + 1 /\ eax' = eax + 1 /\ cx' = cx - 1
  /\ pc' = IF cx' = 0 THEN "build_pte" ELSE pc
  /\ UNCHANGED <<LOADER_END, diskVars, mapVars, pte>>

build_pte_Short ==
  /\ pc = "build_pte"
  /\ cx' = PTES - 1 /\ di' = 0 /\ eax' = 0
  /\ pc' = "write_pte"
  /\ UNCHANGED <<LOADER_END, diskVars, mapVars, pde, pte>>
build_pte ==
  /\ pc = "build_pte"
  /\ cx' = PTES /\ di' = 0 /\ eax' = 0
  /\ pc' = "write_pte"
  /\ UNCHANGED <<LOADER_END, diskVars, mapVars, pde, pte>>

\* The 1024 turns of write_pte that fill one table with the next frames.
write_pte_FromOne ==
  /\ pc = "write_pte"
  /\ eax' = eax + 1
  /\ pte' = [pte EXCEPT ![di] = eax']
  /\ di' = (di + 1) % SEGMENT /\ cx' = cx - 1
  /\ pc' = IF cx' = 0 THEN "protect_entry" ELSE pc
  /\ UNCHANGED <<LOADER_END, diskVars, mapVars, pde>>
write_pte ==
  /\ pc = "write_pte"
  /\ pte' = [pte EXCEPT ![di] = eax]
  /\ di' = (di + 1) % SEGMENT /\ eax' = eax + 1 /\ cx' = cx - 1
  /\ pc' = IF cx' = 0 THEN "protect_entry" ELSE pc
  /\ UNCHANGED <<LOADER_END, diskVars, mapVars, pde>>

\* The jump through e_entry, which a very long memory map has overwritten.
protect_entry ==
  /\ pc = "protect_entry"
  /\ pc' = IF LAYOUT_OFFSET + ENTRY * Len(memlayoutbuf) <= ENTRY_POINT
             THEN "kernel" ELSE "lost"
  /\ UNCHANGED <<LOADER_END, diskVars, mapVars, pageVars>>

Next ==
  \/ bios_read \/ bios_read_fails \/ check_read
  \/ detectmem \/ detectmemfail
  \/ build_pde \/ write_pde \/ build_pte \/ write_pte \/ protect_entry

Spec == Init /\ [][Next]_vars

----------------------------------------------------------------------------
(* Properties.                                                             *)

Checked == pc \notin {"bios_read", "check_read", "check_fail"}
InKernel == Checked /\ pc \notin {"detectmem", "build_pde", "write_pde", "build_pte",
                                    "write_pte", "protect_entry", "lost"}

\* Sector s of the image lies between two transfers, 127 sectors every 128.
InGap(s) == s % STRIDE >= BLKCNT

\* The memory map has reached sector s; the kernel begins in sector 8, which it
\* reaches with its 179th region.
Overwritten(s) ==
  memlayoutbuf # <<>> /\ s \in 1 .. SectorOf(LAYOUT_OFFSET + ENTRY * Len(memlayoutbuf) - 1)

\* When the checks have passed, memory holds every sector of loader and kernel
\* in its place, and the marker behind them, except those in the gaps between
\* transfers and those that the memory map takes: an image of up to 127 sectors
\* is complete, and its kernel stays so for up to 178 regions.
OnlyGapsAreMissing ==
  Checked =>
    \A s \in 0 .. SectorOf(LOADER_END + 3) :
      Holds(s) <=> ~InGap(s) /\ ~Overwritten(s)

\* Without a BIOS error the loader gives up only when the marker itself lies
\* in a gap, or behind the last transfer because LOADER_DISK_BLOCK_COUNT does
\* not count the marker's bytes.
FailsOnlyForTheMarker ==
  pc = "check_fail" /\ load_disk_cnt = 0 =>
    \E s \in {SectorOf(LOADER_END), SectorOf(LOADER_END + 3)} :
      InGap(s) \/ s >= STRIDE * LOADER_DISK_TIME

\* Entry d of the directory leads, through a table that has been filled, to the
\* m-th 4 MiB of memory.
Translates(d, m) == pde[d] # None /\ pte[pde[d]] = m

\* The kernel starts with the low 64 MiB mapped twice, flat and at 3 GiB: the
\* two loops, one of which writes the directory and the other the tables, end up
\* with the same idea of which table maps what.  Its code, its stack and the VGA
\* buffer at 0xc00b8000 are where it expects them.
LowMemoryIsMapped ==
  InKernel => \A m \in 0 .. PTES - 1 : Translates(m, m) /\ Translates(HIGH_PDE + m, m)

\* What the comment on END_CHECK says: the checks pass only for a kernel that
\* has been loaded in full.
CheckedIsComplete ==
  Checked /\ memlayoutbuf = <<>> =>
    \A s \in 0 .. LOADER_DISK_BLOCK_COUNT - 1 : Holds(s)

\* What the comment on the memory layout says: only 16 entries of the page
\* directory from 0 and from 768 are used, so every one has a page table.
OnlyLow64MiBMapped ==
  InKernel =>
    \A d \in 0 .. 1023 : pde[d] # None => pte[pde[d]] # None
=============================================================================
