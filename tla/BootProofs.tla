----------------------------- MODULE BootProofs -----------------------------
(***************************************************************************)
(* Proofs about Loader and Boot, for every size of the image, every memory *)
(* map and every content of the memory behind it.                          *)
(***************************************************************************)
EXTENDS Boot, TLAPS, FiniteSetTheorems, SequenceTheorems

T == LOADER_DISK_TIME
Marker == SectorOf(LOADER_END + 3)

----------------------------------------------------------------------------
(* The invariant.                                                          *)

PCs == {"bios_read", "check_read", "check_fail", "detectmem", "build_pde", "write_pde",
        "build_pte", "write_pte", "protect_entry", "kernel", "lost", "panic", "measured", "printed", "hlt"}

\* One of the machines, which nothing changes.
Machine ==
  /\ pc \in PCs
  /\ LOADER_END \in Nat /\ LOADER_END >= 4097 /\ LOADER_END <= 520192
  /\ bios \in Seq(Region) /\ Len(bios) >= 1 /\ Len(bios) <= 3000
  /\ \A k \in 1 .. Len(bios) : bios[k].addr + bios[k].len < U64

\* What the transfers have brought: every sector below limit but the gaps, less
\* what the memory map has taken since.
Filled(limit) ==
  \A s \in 0 .. 128 * T : memory[s] = IF s < limit /\ ~InGap(s) /\ ~Overwritten(s) THEN s ELSE Stale

Transfers ==
  /\ memory = [s \in 0 .. 128 * T |-> memory[s]] /\ load_disk_cnt \in Nat
  /\ pc = "bios_read" => /\ load_disk_cnt \in 1 .. T
                         /\ db_addr = 128 * (T - load_disk_cnt) /\ d_lba = db_addr
                         /\ Filled(db_addr)
  /\ pc = "check_read" => load_disk_cnt = 0 /\ Filled(128 * T)
  /\ Checked => Filled(128 * T) /\ Marker < 128 * T
  /\ FailsOnlyForTheMarker

\* The loader's copy of the memory map is a prefix of the BIOS's, and the
\* length is right only if it is all of it.
Layout ==
  /\ memlayoutbuf \in Seq(Region) /\ memlayoutlen \in Nat /\ memlayoutlen <= 57005
  /\ Len(memlayoutbuf) <= Len(bios)
  /\ \A k \in 1 .. Len(memlayoutbuf) : memlayoutbuf[k] = bios[k]
  /\ ~Checked => memlayoutbuf = <<>> /\ memlayoutlen = 0
  /\ pc = "detectmem" => memlayoutlen = Len(memlayoutbuf)
  /\ Checked /\ pc # "detectmem" /\ IsMap => Len(memlayoutbuf) = Len(bios)

\* The last entry of the directory.
LastPde == 1023

\* The first n entries of the directory, low and high, have their table, and
\* the first n tables their frames.
Directory(n) ==
  /\ pde \in [0 .. LastPde -> Int]
  /\ \A d \in 0 .. n - 1 : pde[d] = d /\ pde[768 + d] = d
Frames(n) ==
  /\ pte \in [0 .. 63 -> Int]
  /\ \A t \in 0 .. 63 : pte[t] = IF t < n THEN t ELSE None

NoDirectory == {"bios_read", "check_read", "check_fail", "detectmem", "build_pde"}
NoFrames == NoDirectory \cup {"write_pde", "build_pte"}

\* In the two loops di and eax go together, and cx counts down to their end.
Pages ==
  /\ pc = "write_pde" => cx \in 1 .. 64 /\ di = 64 - cx /\ eax = di /\ Directory(di)
  /\ pc \notin NoDirectory \cup {"write_pde"} => Directory(64)
  /\ pc = "write_pte" => cx \in 1 .. 16 /\ di = 16 - cx /\ eax = di /\ Frames(di)
  /\ pc \in NoFrames => Frames(0)
  /\ pc \notin NoFrames \cup {"write_pte"} => Frames(16)

LoaderInv == Machine /\ Transfers /\ Layout /\ Pages

----------------------------------------------------------------------------
(* Arithmetic of sectors.                                                  *)

LEMMA Div512 ==
  ASSUME NEW x \in Nat
  PROVE  /\ x \div 512 \in Nat
         /\ 512 * (x \div 512) <= x /\ x < 512 * (x \div 512) + 512
OBVIOUS

LEMMA Div128 ==
  ASSUME NEW x \in Nat
  PROVE  /\ x \div 128 \in Nat
         /\ 128 * (x \div 128) <= x /\ x < 128 * (x \div 128) + 128
OBVIOUS

LEMMA Sectors ==
  ASSUME LOADER_END \in Nat, LOADER_END >= 4097
  PROVE  /\ T \in Nat /\ T >= 1
         /\ Marker \in 0 .. 128 * T
         /\ SectorOf(LOADER_END) \in 0 .. Marker
         /\ SectorOf(KERNEL_OFFSET) = 8 /\ 8 \in 0 .. 128 * T
<1> DEFINE c == LOADER_DISK_BLOCK_COUNT
           e == SectorOf(LOADER_END)
<1>1. c \in Nat /\ 512 * c <= LOADER_END + 511 /\ LOADER_END + 511 < 512 * c + 512
  <2>1. LOADER_END + 511 \in Nat
    OBVIOUS
  <2> QED BY <2>1, Div512 DEF LOADER_DISK_BLOCK_COUNT
<1>2. T \in Nat /\ 128 * T <= c + 127 /\ c + 127 < 128 * T + 128
  <2>1. c + 127 \in Nat
    BY <1>1
  <2> QED BY <2>1, Div128 DEF T, LOADER_DISK_TIME
<1>3. Marker \in Nat /\ 512 * Marker <= LOADER_END + 3 /\ LOADER_END + 3 < 512 * Marker + 512
  <2>1. LOADER_END + 3 \in Nat
    OBVIOUS
  <2> QED BY <2>1, Div512 DEF Marker, SectorOf
<1>4. e \in Nat /\ 512 * e <= LOADER_END /\ LOADER_END < 512 * e + 512
  <2>1. LOADER_END \in Nat
    OBVIOUS
  <2> QED BY <2>1, Div512 DEF SectorOf
<1>5. SectorOf(KERNEL_OFFSET) = 8
  BY DEF SectorOf, KERNEL_OFFSET
<1> HIDE DEF c, e
<1>6. T >= 1 /\ Marker <= 128 * T /\ e <= Marker /\ 8 <= 128 * T
  BY <1>1, <1>2, <1>3, <1>4
<1> QED BY <1>2, <1>3, <1>4, <1>5, <1>6 DEF e

\* One transfer fills the sectors of its 128 that are in no gap.
LEMMA OneTransfer ==
  ASSUME NEW j \in Nat, NEW s \in Nat
  PROVE  /\ s \in 128 * j .. 128 * j + BLKCNT - 1
              <=> 128 * j <= s /\ s < 128 * (j + 1) /\ ~InGap(s)
BY DEF InGap, BLKCNT, STRIDE

\* The n-th entry of the memory map goes on where the one before ended.
LEMMA OneEntry ==
  ASSUME NEW n \in Nat
  PROVE  /\ n = 0 => EntrySectors(n + 1) = 1 .. SectorOf(LAYOUT_OFFSET + ENTRY * (n + 1) - 1)
         /\ n > 0 => (1 .. SectorOf(LAYOUT_OFFSET + ENTRY * n - 1)) \cup EntrySectors(n + 1)
                      = 1 .. SectorOf(LAYOUT_OFFSET + ENTRY * (n + 1) - 1)
<1> DEFINE e(k) == SectorOf(LAYOUT_OFFSET + ENTRY * k - 1)
           f == SectorOf(LAYOUT_OFFSET + ENTRY * n)
<1>1. EntrySectors(n + 1) = f .. e(n + 1)
  <2>1. (n + 1) - 1 = n
    OBVIOUS
  <2> QED BY <2>1 DEF EntrySectors
<1>2. n = 0 => f = 1
  BY DEF SectorOf, LAYOUT_OFFSET, ENTRY
<1>3. f \in Int /\ e(n) \in Int /\ e(n + 1) \in Int /\ 1 <= f /\ f <= e(n) + 1 /\ e(n) <= e(n + 1)
  BY DEF SectorOf, LAYOUT_OFFSET, ENTRY
<1> HIDE DEF e, f
<1>4. (1 .. e(n)) \cup (f .. e(n + 1)) = 1 .. e(n + 1)
  BY <1>3
<1>5. n = 0 => EntrySectors(n + 1) = 1 .. e(n + 1)
  BY <1>1, <1>2
<1>6. (1 .. e(n)) \cup EntrySectors(n + 1) = 1 .. e(n + 1)
  BY <1>1, <1>4, Zenon
<1> QED BY <1>5, <1>6, Zenon DEF e

----------------------------------------------------------------------------
(* The loader keeps the invariant.                                         *)

\* Until the directory has been cleared the page tables are as they were.
LEMMA NoPagesYet ==
  ASSUME Pages, pc \in NoDirectory, pc' \in NoDirectory, UNCHANGED pageVars
  PROVE  Pages'
<1>1. Frames(0) /\ pte' = pte
  BY DEF Pages, NoFrames, pageVars
<1>2. Frames(0)'
  BY <1>1 DEF Frames
<1> QED BY <1>2 DEF Pages, NoDirectory, NoFrames

LEMMA LoaderInit == Init => LoaderInv
<1> SUFFICES ASSUME Init PROVE LoaderInv
  OBVIOUS
<1>1. PICK m \in Machines : LOADER_END = m[1] /\ bios = m[2]
  BY Zenon DEF Init
<1>2. Machine
  <2>1. m[1] \in KERNEL_OFFSET + 1 .. IMAGE_ROOM /\ m[2] \in Seq(Region)
    BY MachineAssumption
  <2>2. KERNEL_OFFSET = 4096 /\ IMAGE_ROOM = 520192
    BY DEF KERNEL_OFFSET, IMAGE_ROOM
  <2>3. LOADER_END \in Nat /\ LOADER_END >= 4097 /\ LOADER_END <= 520192
    <3> DEFINE lo == KERNEL_OFFSET + 1
               hi == IMAGE_ROOM
    <3>1. LOADER_END \in lo .. hi
      BY <1>1, <2>1
    <3>2. lo \in Nat /\ hi \in Nat
      BY <2>2
    <3>3. lo = 4097 /\ hi = 520192
      BY <2>2
    <3> HIDE DEF lo, hi
    <3>4. LOADER_END \in Nat /\ LOADER_END >= lo /\ LOADER_END <= hi
      BY <3>1, <3>2
    <3> QED BY <3>3, <3>4
  <2>4. bios \in Seq(Region) /\ Len(bios) >= 1 /\ Len(bios) <= 3000
    BY <1>1, MachineAssumption
  <2>5. \A k \in 1 .. Len(bios) : bios[k].addr + bios[k].len < U64
    BY <1>1, BootAssumption
  <2>6. pc \in PCs
    <3>1. pc = "bios_read"
      BY Zenon DEF Init
    <3> QED BY <3>1 DEF PCs
  <2> QED BY <2>3, <2>4, <2>5, <2>6 DEF Machine
<1>3. T \in Nat /\ T >= 1
  BY <1>2, Sectors DEF Machine
<1>4. Transfers
  <2>1. memory = [s \in 0 .. 128 * T |-> Stale]
    BY Zenon DEF Init, STRIDE, T
  <2>2. load_disk_cnt = T /\ db_addr = 0 /\ d_lba = 0 /\ pc = "bios_read"
    BY Zenon DEF Init, T
  <2>3. Filled(0)
    BY <2>1 DEF Filled
  <2>4. db_addr = 128 * (T - load_disk_cnt) /\ load_disk_cnt \in 1 .. T
    BY <2>2, <1>3
  <2>5. memory = [s \in 0 .. 128 * T |-> memory[s]]
    BY <2>1
  <2> QED BY <1>3, <2>2, <2>3, <2>4, <2>5 DEF Transfers, Checked, FailsOnlyForTheMarker
<1>5. Layout
  <2>1. pc = "bios_read" /\ memlayoutlen = 0 /\ memlayoutbuf = <<>>
    BY Zenon DEF Init
  <2> QED BY <1>2, <2>1 DEF Layout, Checked, Machine
<1>6. Pages
  <2>1. pc = "bios_read" /\ pte = [t \in 0 .. 63 |-> None]
    BY DEF Init, PDES
  <2>2. Frames(0)
    BY <2>1 DEF Frames, None
  <2> QED BY <2>1, <2>2 DEF Pages, NoDirectory, NoFrames
<1> QED BY <1>2, <1>4, <1>5, <1>6 DEF LoaderInv

\* Once the page tables stand nothing changes them, nor the image.
LEMMA LoaderKept ==
  ASSUME LoaderInv, UNCHANGED <<LOADER_END, diskVars, mapVars, pageVars>>,
         pc \in {"protect_entry", "kernel", "measured", "printed"},
         pc' \in {"kernel", "lost", "panic", "measured", "printed", "hlt"}
  PROVE  LoaderInv'
<1>1. Machine'
  BY DEF LoaderInv, Machine, mapVars, PCs
<1>2. Transfers'
  <2>1. T' = T /\ Marker' = Marker
    BY DEF T, Marker, LOADER_DISK_TIME, LOADER_DISK_BLOCK_COUNT
  <2>2. memory' = memory /\ load_disk_cnt' = load_disk_cnt /\ memlayoutbuf' = memlayoutbuf
    BY DEF diskVars, mapVars
  <2>3. Checked /\ Filled(128 * T) /\ Marker < 128 * T
    BY DEF LoaderInv, Transfers, Checked
  <2>4. Filled(128 * T)'
    BY <2>1, <2>2, <2>3 DEF Filled, Overwritten
  <2>5. (Marker < 128 * T)'
    BY <2>1, <2>3
  <2> QED BY <2>1, <2>2, <2>4, <2>5 DEF LoaderInv, Transfers, FailsOnlyForTheMarker
<1>3. Layout'
  BY DEF LoaderInv, Layout, Checked, IsMap, mapVars
<1>4. Pages'
  <2>1. Directory(64) /\ Frames(16)
    BY DEF LoaderInv, Pages, NoDirectory, NoFrames
  <2>2. pde' = pde /\ pte' = pte
    BY DEF pageVars
  <2>3. Directory(64)' /\ Frames(16)'
    BY <2>1, <2>2 DEF Directory, Frames
  <2> QED BY <2>3 DEF Pages, NoDirectory, NoFrames
<1> QED BY <1>1, <1>2, <1>3, <1>4 DEF LoaderInv

\* One transfer: what is filled now reaches 128 sectors further.
LEMMA TransferStep ==
  ASSUME LoaderInv, bios_read
  PROVE  LoaderInv'
<1>1. /\ pc = "bios_read" /\ LOADER_END' = LOADER_END
      /\ bios' = bios /\ memlayoutlen' = memlayoutlen /\ memlayoutbuf' = memlayoutbuf
  BY DEF bios_read, mapVars
<1>2. T \in Nat /\ T >= 1
  BY Sectors DEF LoaderInv, Machine
<1>3. T' = T
  BY <1>1 DEF T, LOADER_DISK_TIME, LOADER_DISK_BLOCK_COUNT
<1>14. PICK j \in Nat : j = T - load_disk_cnt
  BY <1>1, <1>2 DEF LoaderInv, Transfers
<1>4. /\ load_disk_cnt \in 1 .. T /\ db_addr = 128 * j /\ d_lba = 128 * j /\ Filled(128 * j)
      /\ memory = [s \in 0 .. 128 * T |-> memory[s]]
  BY <1>1, <1>2, <1>14 DEF LoaderInv, Transfers
<1>5. memlayoutbuf = <<>> /\ memlayoutlen = 0
  BY <1>1 DEF LoaderInv, Layout, Checked
<1>6. load_disk_cnt' = load_disk_cnt - 1
  BY DEF bios_read
<1>7. pc' = IF load_disk_cnt' = 0 THEN "check_read" ELSE "bios_read"
  BY <1>1 DEF bios_read
<1>8. /\ memory' = [s \in 0 .. 128 * T |->
                      IF s \in 128 * j .. 128 * j + BLKCNT - 1 THEN s ELSE memory[s]]
  <2>1. DOMAIN memory = 0 .. 128 * T
    BY <1>4
  <2>2. memory' = [s \in 0 .. 128 * T |->
                     IF s \in db_addr .. db_addr + BLKCNT - 1 THEN d_lba + (s - db_addr) ELSE memory[s]]
    BY <2>1 DEF bios_read
  <2>3. \A s \in 0 .. 128 * T : 128 * j + (s - 128 * j) = s
    BY <1>2, <1>4
  <2> QED BY <1>4, <2>2, <2>3
<1>9. Filled(128 * (j + 1))'
  <2> SUFFICES ASSUME NEW s \in 0 .. 128 * T
               PROVE  memory'[s] = IF s < 128 * (j + 1) /\ ~InGap(s) THEN s ELSE Stale
    BY <1>1, <1>3, <1>5 DEF Filled, Overwritten
  <2>1. s \in Nat
    BY <1>2
  <2>2. s \in 128 * j .. 128 * j + BLKCNT - 1 <=> 128 * j <= s /\ s < 128 * (j + 1) /\ ~InGap(s)
    BY <1>4, <2>1, OneTransfer
  <2>3. memory[s] = IF s < 128 * j /\ ~InGap(s) THEN s ELSE Stale
    BY <1>4, <1>5 DEF Filled, Overwritten
  <2>4. memory'[s] = IF s \in 128 * j .. 128 * j + BLKCNT - 1 THEN s ELSE memory[s]
    BY <1>8
  <2>5. s < 128 * j => s < 128 * (j + 1)
    BY <1>4, <2>1
  <2>6. s < 128 * (j + 1) /\ ~(s < 128 * j) => 128 * j <= s
    BY <1>4, <2>1
  <2>7. 128 * j <= s => ~(s < 128 * j)
    BY <1>4, <2>1
  <2> HIDE DEF InGap
  <2> QED BY <2>2, <2>3, <2>4, <2>5, <2>6, <2>7, Zenon
<1>10. Machine'
  BY <1>1, <1>7 DEF LoaderInv, Machine, PCs
<1>11. Transfers'
  <2>1. memory' = [s \in 0 .. 128 * T |-> memory'[s]]
    BY <1>8
  <2>2. load_disk_cnt' \in Nat /\ (load_disk_cnt' # 0 => load_disk_cnt' \in 1 .. T)
    BY <1>2, <1>4, <1>6
  <2>3. load_disk_cnt' = 0 => j + 1 = T
    BY <1>2, <1>4, <1>6, <1>14
  <2>4. j + 1 = T - load_disk_cnt'
    BY <1>2, <1>4, <1>6, <1>14
  <2>5. load_disk_cnt' # 0 => db_addr' = 128 * (j + 1) /\ d_lba' = 128 * (j + 1)
    BY <1>4 DEF bios_read, STRIDE
  <2>6. ~Checked' /\ FailsOnlyForTheMarker'
    BY <1>7 DEF Checked, FailsOnlyForTheMarker
  <2>7. CASE load_disk_cnt' = 0
    <3>1. Filled(128 * T)'
      BY <1>3, <1>9, <2>3, <2>7 DEF Filled
    <3> QED BY <1>3, <1>7, <2>1, <2>2, <2>6, <2>7, <3>1 DEF Transfers
  <2>8. CASE load_disk_cnt' # 0
    <3>1. Filled(db_addr)'
      BY <1>9, <2>5, <2>8 DEF Filled
    <3> QED BY <1>3, <1>7, <2>1, <2>2, <2>4, <2>5, <2>6, <2>8, <3>1 DEF Transfers
  <2> QED BY <2>7, <2>8
<1>12. Layout'
  BY <1>1, <1>5, <1>7 DEF LoaderInv, Layout, Checked
<1>13. Pages'
  <2>1. pc \in NoDirectory /\ pc' \in NoDirectory
    BY <1>1, <1>7 DEF bios_read, NoDirectory
  <2>2. UNCHANGED pageVars
    BY DEF bios_read
  <2> QED BY <2>1, <2>2, NoPagesYet DEF LoaderInv
<1> QED BY <1>10, <1>11, <1>12, <1>13 DEF LoaderInv

\* The checks pass only if the marker was read, and fail only because of it.
LEMMA CheckStep ==
  ASSUME LoaderInv, check_read \/ bios_read_fails
  PROVE  LoaderInv'
<1>1. /\ pc \in {"bios_read", "check_read"} /\ LOADER_END' = LOADER_END /\ memory' = memory
      /\ load_disk_cnt' = load_disk_cnt
      /\ bios' = bios /\ memlayoutlen' = memlayoutlen /\ memlayoutbuf' = memlayoutbuf
      /\ pc' \in {"detectmem", "check_fail"}
  BY DEF check_read, bios_read_fails, mapVars, diskVars
<1>2. /\ T \in Nat /\ T >= 1 /\ Marker \in 0 .. 128 * T /\ SectorOf(LOADER_END) \in 0 .. Marker
      /\ SectorOf(KERNEL_OFFSET) = 8 /\ 8 \in 0 .. 128 * T
  BY Sectors DEF LoaderInv, Machine
<1>3. T' = T /\ Marker' = Marker
  BY <1>1 DEF T, Marker, LOADER_DISK_TIME, LOADER_DISK_BLOCK_COUNT
<1>4. memlayoutbuf = <<>> /\ memlayoutlen = 0
  BY <1>1 DEF LoaderInv, Layout, Checked
<1>5. Machine'
  BY <1>1 DEF LoaderInv, Machine, PCs
<1>6. Layout'
  BY <1>1, <1>4 DEF LoaderInv, Layout, Checked
<1>7. Pages'
  <2>1. pc \in NoDirectory /\ pc' \in NoDirectory
    BY <1>1 DEF check_read, bios_read_fails, NoDirectory
  <2>2. UNCHANGED pageVars
    BY DEF check_read, bios_read_fails
  <2> QED BY <2>1, <2>2, NoPagesYet DEF LoaderInv
<1>8. CASE bios_read_fails
  <2>1. pc = "bios_read" /\ pc' = "check_fail"
    BY <1>8 DEF bios_read_fails
  <2>2. load_disk_cnt # 0
    BY <1>2, <2>1 DEF LoaderInv, Transfers
  <2>3. Transfers'
    BY <1>1, <1>3, <2>1, <2>2 DEF LoaderInv, Transfers, Checked, FailsOnlyForTheMarker
  <2> QED BY <1>5, <1>6, <1>7, <2>3 DEF LoaderInv
<1>9. CASE check_read
  <2>1. pc = "check_read" /\ load_disk_cnt = 0 /\ Filled(128 * T)
    BY <1>9 DEF check_read, LoaderInv, Transfers
  <2>2. \A s \in 0 .. 128 * T : Holds(s) <=> s < 128 * T /\ ~InGap(s)
    <3> SUFFICES ASSUME NEW s \in 0 .. 128 * T PROVE Holds(s) <=> s < 128 * T /\ ~InGap(s)
      OBVIOUS
    <3>1. memory[s] = IF s < 128 * T /\ ~InGap(s) THEN s ELSE Stale
      BY <1>4, <2>1 DEF Filled, Overwritten
    <3>2. s # Stale
      BY <1>2 DEF Stale
    <3> QED BY <3>1, <3>2 DEF Holds
  <2>3. Filled(128 * T)'
    BY <1>1, <1>3, <2>1 DEF Filled, Overwritten
  <2>4. CASE pc' = "detectmem"
    <3>1. Holds(Marker)
      BY <1>9, <2>4 DEF check_read, Marker
    <3>2. Marker < 128 * T
      BY <1>2, <2>2, <3>1
    <3>3. Transfers'
      BY <1>1, <1>3, <2>3, <2>4, <3>2 DEF LoaderInv, Transfers, FailsOnlyForTheMarker
    <3> QED BY <1>5, <1>6, <1>7, <3>3 DEF LoaderInv
  <2>5. CASE pc' = "check_fail"
    <3>1. Holds(SectorOf(KERNEL_OFFSET))
      <4>1. ~InGap(8) /\ 8 < 128 * T
        BY <1>2 DEF InGap, STRIDE, BLKCNT
      <4> QED BY <1>2, <2>2, <4>1
    <3>2. ~Holds(SectorOf(LOADER_END)) \/ ~Holds(Marker)
      BY <1>9, <2>5, <3>1 DEF check_read, Marker
    <3>3. PICK s \in {SectorOf(LOADER_END), Marker} : ~Holds(s)
      BY <3>2
    <3>4. s \in 0 .. 128 * T
      BY <1>2
    <3>5. InGap(s) \/ s >= 128 * T
      BY <1>2, <2>2, <3>3, <3>4
    <3>6. FailsOnlyForTheMarker'
      <4>1. \E x \in {SectorOf(LOADER_END'), SectorOf(LOADER_END' + 3)} :
              InGap(x) \/ x >= STRIDE * LOADER_DISK_TIME'
        BY <1>1, <1>3, <3>5, Zenon DEF Marker, T, STRIDE
      <4> QED BY <4>1 DEF FailsOnlyForTheMarker
    <3>7. Transfers'
      BY <1>1, <1>3, <2>5, <3>6 DEF LoaderInv, Transfers, Checked
    <3> QED BY <1>5, <1>6, <1>7, <3>7 DEF LoaderInv
  <2> QED BY <1>1, <2>4, <2>5
<1> QED BY <1>8, <1>9

\* One entry of the memory map, or the carry.
LEMMA DetectStep ==
  ASSUME LoaderInv, detectmem \/ detectmemfail
  PROVE  LoaderInv'
<1>1. pc = "detectmem" /\ LOADER_END' = LOADER_END /\ load_disk_cnt' = load_disk_cnt /\ bios' = bios
  BY DEF detectmem, detectmemfail, diskVars
<1>2. pc' \in {"detectmem", "build_pde"}
  BY DEF detectmem, detectmemfail
<1>3. T \in Nat /\ T >= 1
  BY Sectors DEF LoaderInv, Machine
<1>4. T' = T /\ Marker' = Marker
  BY <1>1 DEF T, Marker, LOADER_DISK_TIME, LOADER_DISK_BLOCK_COUNT
<1>5. Machine'
  BY <1>1, <1>2 DEF LoaderInv, Machine, PCs
<1>6. Pages'
  <2>1. pc \in NoDirectory /\ pc' \in NoDirectory
    BY <1>2 DEF detectmem, detectmemfail, NoDirectory
  <2>2. UNCHANGED pageVars
    BY DEF detectmem, detectmemfail
  <2> QED BY <2>1, <2>2, NoPagesYet DEF LoaderInv
<1>7. /\ Filled(128 * T) /\ Marker < 128 * T /\ load_disk_cnt \in Nat
      /\ memory = [s \in 0 .. 128 * T |-> memory[s]]
  BY <1>1 DEF LoaderInv, Transfers, Checked
<1>8. Layout /\ memlayoutlen = Len(memlayoutbuf) /\ memlayoutbuf \in Seq(Region) /\ bios \in Seq(Region)
  BY <1>1 DEF LoaderInv, Layout, Machine
<1>9. (Marker < 128 * T)' /\ FailsOnlyForTheMarker'
  BY <1>2, <1>4, <1>7 DEF FailsOnlyForTheMarker
<1>10. CASE detectmemfail
  <2>1. /\ memory' = memory /\ memlayoutbuf' = memlayoutbuf /\ pc' = "build_pde"
        /\ memlayoutlen' \in Nat /\ memlayoutlen' > 3000 /\ memlayoutlen' <= 57005
    BY <1>10 DEF detectmemfail, diskVars
  <2>2. Filled(128 * T)'
    BY <1>4, <1>7, <2>1 DEF Filled, Overwritten
  <2>3. Transfers'
    BY <1>1, <1>4, <1>7, <1>9, <2>1, <2>2 DEF Transfers
  <2>4. ~IsMap'
    <3>1. Len(bios) <= 3000
      BY DEF LoaderInv, Machine
    <3>2. Len(memlayoutbuf) <= Len(bios)
      BY <1>8 DEF Layout
    <3>3. Len(memlayoutbuf) \in Nat /\ Len(bios) \in Nat
      BY <1>8
    <3>4. Len(memlayoutbuf) <= 3000
      BY ONLY <3>1, <3>2, <3>3
    <3> QED BY ONLY <2>1, <3>3, <3>4 DEF IsMap
  <2>5. Layout'
    BY <1>1, <1>8, <2>1, <2>4 DEF Layout, Checked
  <2> QED BY <1>5, <1>6, <2>3, <2>5 DEF LoaderInv
<1>11. CASE detectmem
  <2>1. PICK n \in Nat : n = Len(memlayoutbuf)
    BY <1>8
  <2>2. /\ n < Len(bios) /\ memlayoutlen' = n + 1
        /\ memlayoutbuf' = Append(memlayoutbuf, bios[n + 1])
        /\ memory' = [s \in 0 .. 128 * T |-> IF s \in EntrySectors(n + 1) THEN Stale ELSE memory[s]]
    <3>1. DOMAIN memory = 0 .. 128 * T
      BY <1>7
    <3> QED BY <1>8, <1>11, <2>1, <3>1 DEF detectmem
  <2>3. /\ memlayoutbuf' \in Seq(Region) /\ Len(memlayoutbuf') = n + 1 /\ memlayoutbuf' # <<>>
        /\ \A k \in 1 .. n + 1 : memlayoutbuf'[k] = bios[k]
    <3>1. bios[n + 1] \in Region
      BY <1>8, <2>1, <2>2
    <3>2. memlayoutbuf' \in Seq(Region) /\ Len(memlayoutbuf') = n + 1
      BY <1>8, <2>1, <2>2, <3>1
    <3>3. \A k \in 1 .. n : memlayoutbuf'[k] = bios[k]
      BY <1>8, <2>1, <2>2, <3>1 DEF Layout
    <3>4. memlayoutbuf'[n + 1] = bios[n + 1]
      BY <1>8, <2>1, <2>2, <3>1
    <3> QED BY <3>2, <3>3, <3>4
  <2>4. Filled(128 * T)'
    <3> DEFINE e(k) == SectorOf(LAYOUT_OFFSET + ENTRY * k - 1)
    <3>1. \A s : Overwritten(s)' <=> s \in 1 .. e(n + 1)
      BY <2>3 DEF Overwritten
    <3>2. \A s : Overwritten(s) <=> n > 0 /\ s \in 1 .. e(n)
      BY <1>8, <2>1 DEF Overwritten
    <3>3. \A s : s \in 1 .. e(n + 1) <=> s \in EntrySectors(n + 1) \/ (n > 0 /\ s \in 1 .. e(n))
      <4>1. CASE n = 0
        BY <4>1, OneEntry, Zenon
      <4>2. CASE n > 0
        BY <4>2, OneEntry
      <4> QED BY <4>1, <4>2
    <3> HIDE DEF e
    <3>4. \A s : Overwritten(s)' <=> Overwritten(s) \/ s \in EntrySectors(n + 1)
      BY <3>1, <3>2, <3>3, Zenon
    <3> SUFFICES ASSUME NEW s \in 0 .. 128 * T
                 PROVE  memory'[s] = IF s < 128 * T /\ ~InGap(s) /\ ~Overwritten(s)' THEN s ELSE Stale
      BY <1>4 DEF Filled
    <3>5. memory[s] = IF s < 128 * T /\ ~InGap(s) /\ ~Overwritten(s) THEN s ELSE Stale
      BY <1>7 DEF Filled
    <3>6. memory'[s] = IF s \in EntrySectors(n + 1) THEN Stale ELSE memory[s]
      BY <2>2
    <3> QED BY <3>4, <3>5, <3>6, Zenon
  <2>5. Transfers'
    <3>1. memory' = [s \in 0 .. 128 * T |-> memory'[s]]
      BY <2>2
    <3> QED BY <1>1, <1>2, <1>4, <1>7, <1>9, <2>4, <3>1 DEF Transfers
  <2>6. pc' = "build_pde" => Len(memlayoutbuf') = Len(bios)
    BY <1>11 DEF detectmem
  <2>7. n + 1 <= Len(bios) /\ n + 1 \in Nat /\ n + 1 <= 57005
    BY <1>8, <2>1, <2>2 DEF LoaderInv, Machine
  <2>8. Layout'
    BY <1>1, <1>2, <2>2, <2>3, <2>6, <2>7 DEF Layout, Checked
  <2> QED BY <1>5, <1>6, <2>5, <2>8 DEF LoaderInv
<1> QED BY <1>10, <1>11

\* Two entries of a table written with one value.
LEMMA TwoEntries ==
  ASSUME NEW S, NEW f \in [S -> Int], NEW i \in S, NEW j \in S, NEW v \in Int
  PROVE  [f EXCEPT ![i] = v, ![j] = v] = [d \in S |-> IF d = i \/ d = j THEN v ELSE f[d]]
OBVIOUS

LEMMA PagesStep ==
  ASSUME LoaderInv, build_pde \/ write_pde \/ build_pte \/ write_pte
  PROVE  LoaderInv'
<1>1. /\ LOADER_END' = LOADER_END /\ memory' = memory /\ load_disk_cnt' = load_disk_cnt
      /\ bios' = bios /\ memlayoutlen' = memlayoutlen /\ memlayoutbuf' = memlayoutbuf
      /\ pc \in {"build_pde", "write_pde", "build_pte", "write_pte"}
      /\ pc' \in {"write_pde", "build_pte", "write_pte", "protect_entry"}
  BY Zenon DEF build_pde, write_pde, build_pte, write_pte, diskVars, mapVars
<1>2. T' = T /\ Marker' = Marker
  BY <1>1 DEF T, Marker, LOADER_DISK_TIME, LOADER_DISK_BLOCK_COUNT
<1>3. Machine'
  BY <1>1 DEF LoaderInv, Machine, PCs
<1>4. Transfers'
  <2>1. Filled(128 * T) /\ Marker < 128 * T
    BY <1>1 DEF LoaderInv, Transfers, Checked
  <2>2. Filled(128 * T)' /\ (Marker < 128 * T)'
    BY <1>1, <1>2, <2>1 DEF Filled, Overwritten
  <2> QED BY <1>1, <1>2, <2>2 DEF LoaderInv, Transfers, FailsOnlyForTheMarker
<1>5. Layout'
  BY <1>1 DEF LoaderInv, Layout, Checked, IsMap
<1>6. Pages'
  <2> USE DEF NoDirectory, NoFrames
  <2>0. Pages
    BY DEF LoaderInv
  <2>1. CASE build_pde
    <3>1. /\ pc = "build_pde" /\ pc' = "write_pde" /\ pde' = [d \in 0 .. 1023 |-> None]
          /\ cx' = 64 /\ di' = 0 /\ eax' = 0 /\ pte' = pte
      BY <2>1 DEF build_pde, PDES
    <3>2. Frames(0)'
      BY <2>0, <3>1 DEF Pages, Frames
    <3>3. Directory(0)'
      <4>1. pde' = [d \in 0 .. LastPde |-> None]
        BY <3>1, Zenon DEF LastPde
      <4> QED BY <4>1 DEF Directory, None
    <3> QED BY <3>1, <3>2, <3>3 DEF Pages
  <2>2. CASE write_pde
    <3>1. /\ pc = "write_pde" /\ pde' = [pde EXCEPT ![di] = eax, ![di + 768] = eax]
          /\ cx' = cx - 1 /\ di' = di + 1 /\ eax' = eax + 1 /\ pte' = pte
          /\ pc' = IF cx' = 0 THEN "build_pte" ELSE "write_pde"
      BY <2>2 DEF write_pde, HIGH_PDE
    <3>2. cx \in 1 .. 64 /\ di = 64 - cx /\ eax = di /\ Directory(di) /\ Frames(0)
      BY <2>0, <3>1 DEF Pages
    <3>3. Frames(0)'
      BY <3>1, <3>2 DEF Frames
    <3>4. PICK n \in 0 .. 63 : n = di
      BY <3>2
    <3>10. LastPde \in Nat /\ LastPde >= 831
      BY DEF LastPde
    <3>5. pde' = [d \in 0 .. LastPde |-> IF d = n \/ d = n + 768 THEN n ELSE pde[d]]
      <4>1. pde \in [0 .. LastPde -> Int]
        BY <3>2 DEF Directory
      <4>2. pde' = [pde EXCEPT ![n] = n, ![n + 768] = n]
        <5>1. di = n /\ eax = n
          BY <3>2, <3>4
        <5> QED BY ONLY <3>1, <5>1
      <4>3. n \in 0 .. LastPde /\ n + 768 \in 0 .. LastPde
        BY <3>4, <3>10
      <4> HIDE DEF LastPde
      <4>4. n \in Int
        OBVIOUS
      <4> DEFINE m == n + 768
      <4>5. m \in 0 .. LastPde
        BY <4>3
      <4> HIDE DEF m
      <4>6. [pde EXCEPT ![n] = n, ![m] = n] = [d \in 0 .. LastPde |-> IF d = n \/ d = m THEN n ELSE pde[d]]
        BY ONLY <4>1, <4>3, <4>4, <4>5, TwoEntries, Zenon
      <4> QED BY <4>2, <4>6, Zenon DEF m
    <3>6. Directory(n + 1)'
      <4>1. \A d \in 0 .. n - 1 : pde[d] = d /\ pde[768 + d] = d
        BY <3>2, <3>4 DEF Directory
      <4>2. ASSUME NEW d \in 0 .. n PROVE pde'[d] = d /\ pde'[768 + d] = d
        <5>1. d \in 0 .. LastPde /\ 768 + d \in 0 .. LastPde /\ (d = n \/ d \in 0 .. n - 1)
          BY <3>10
        <5>2. CASE d = n
          BY <3>5, <5>1, <5>2
        <5>3. CASE d \in 0 .. n - 1
          <6>1. d # n /\ d # n + 768 /\ 768 + d # n /\ 768 + d # n + 768
            BY <5>3
          <6> QED BY <3>5, <4>1, <5>1, <5>3, <6>1
        <5> QED BY <5>1, <5>2, <5>3
      <4>3. pde' \in [0 .. LastPde -> Int]
        BY <3>2, <3>5 DEF Directory
      <4>4. 0 .. n + 1 - 1 = 0 .. n
        OBVIOUS
      <4> QED BY <4>2, <4>3, <4>4 DEF Directory
    <3>7. di' = n + 1 /\ eax' = n + 1 /\ cx' = 63 - n
      BY <3>1, <3>2, <3>4
    <3>8. CASE cx' = 0
      <4>1. n + 1 = 64 /\ pc' = "build_pte"
        <5>1. n + 1 = 64
          BY <3>7, <3>8
        <5> QED BY <3>1, <3>8, <5>1, Zenon
      <4>2. Directory(64)'
        BY <3>6, <4>1
      <4> QED BY <3>3, <4>1, <4>2 DEF Pages
    <3>9. CASE cx' # 0
      <4>1. pc' = "write_pde" /\ cx' \in 1 .. 64 /\ di' = 64 - cx' /\ eax' = di'
        <5>1. pc' = "write_pde"
          BY <3>1, <3>9, Zenon
        <5>2. cx' \in 1 .. 64 /\ di' = 64 - cx' /\ eax' = di'
          BY <3>7, <3>9
        <5> QED BY <5>1, <5>2
      <4>2. Directory(di)'
        BY <3>6, <3>7
      <4> QED BY <3>3, <4>1, <4>2 DEF Pages
    <3> QED BY <3>8, <3>9
  <2>3. CASE build_pte
    <3>1. /\ pc = "build_pte" /\ pc' = "write_pte" /\ pde' = pde /\ pte' = pte
          /\ cx' = 16 /\ di' = 0 /\ eax' = 0
      BY <2>3 DEF build_pte, PTES
    <3>2. Frames(0)' /\ Directory(64)'
      BY <2>0, <3>1 DEF Pages, Frames, Directory
    <3> QED BY <3>1, <3>2 DEF Pages
  <2>4. CASE write_pte
    <3>1. /\ pc = "write_pte" /\ pte' = [pte EXCEPT ![di] = eax] /\ pde' = pde
          /\ cx' = cx - 1 /\ di' = (di + 1) % 16 /\ eax' = eax + 1
          /\ pc' = IF cx' = 0 THEN "protect_entry" ELSE "write_pte"
      BY <2>4 DEF write_pte, SEGMENT
    <3>2. cx \in 1 .. 16 /\ di = 16 - cx /\ eax = di /\ Frames(di) /\ Directory(64)
      BY <2>0, <3>1 DEF Pages
    <3>3. Directory(64)'
      BY <3>1, <3>2 DEF Directory
    <3>4. PICK n \in 0 .. 15 : n = di
      BY <3>2
    <3>5. pte' = [t \in 0 .. 63 |-> IF t = n THEN n ELSE pte[t]]
      BY <3>1, <3>2, <3>4 DEF Frames
    <3>6. Frames(n + 1)'
      <4>1. \A t \in 0 .. 63 : pte[t] = IF t < n THEN t ELSE None
        BY <3>2, <3>4 DEF Frames
      <4>2. ASSUME NEW t \in 0 .. 63 PROVE pte'[t] = IF t < n + 1 THEN t ELSE None
        BY <3>5, <4>1
      <4>3. pte' \in [0 .. 63 -> Int]
        BY <3>2, <3>5 DEF Frames
      <4> QED BY <4>2, <4>3 DEF Frames
    <3>7. eax' = n + 1 /\ cx' = 15 - n
      BY <3>1, <3>2, <3>4
    <3>8. CASE cx' = 0
      <4>1. n + 1 = 16 /\ pc' = "protect_entry"
        <5>1. n + 1 = 16
          BY <3>7, <3>8
        <5> QED BY <3>1, <3>8, <5>1, Zenon
      <4>2. Frames(16)'
        BY <3>6, <4>1
      <4> QED BY <3>3, <4>1, <4>2 DEF Pages
    <3>9. CASE cx' # 0
      <4>1. n + 1 < 16 /\ (n + 1) % 16 = n + 1
        BY <3>7, <3>9
      <4>2. pc' = "write_pte" /\ cx' \in 1 .. 16 /\ di' = n + 1 /\ di' = 16 - cx' /\ eax' = di'
        <5>1. pc' = "write_pte"
          BY <3>1, <3>9, Zenon
        <5>2. di' = n + 1
          BY <3>1, <3>4, <4>1
        <5>3. cx' \in 1 .. 16 /\ di' = 16 - cx' /\ eax' = di'
          BY <3>7, <3>9, <5>2
        <5> QED BY <5>1, <5>2, <5>3
      <4>3. Frames(di)'
        BY <3>6, <4>2
      <4> QED BY <3>3, <4>2, <4>3 DEF Pages
    <3> QED BY <3>8, <3>9
  <2> QED BY <2>1, <2>2, <2>3, <2>4
<1> QED BY <1>3, <1>4, <1>5, <1>6 DEF LoaderInv

----------------------------------------------------------------------------
(* Sets of addresses.                                                      *)

\* What lies above every element of S adds its whole length.
LEMMA Above ==
  ASSUME NEW S \in SUBSET Nat, IsFiniteSet(S), NEW lo \in Nat, NEW hi \in Nat, lo <= hi,
         \A x \in S : x < lo
  PROVE  /\ IsFiniteSet(S \cup (lo .. hi - 1))
         /\ Cardinality(S \cup (lo .. hi - 1)) = Cardinality(S) + (hi - lo)
<1> DEFINE I == lo .. hi - 1
<1>1. IsFiniteSet(I) /\ Cardinality(I) = hi - lo
  <2>1. hi - 1 \in Int /\ lo \in Int
    OBVIOUS
  <2>2. IsFiniteSet(I) /\ Cardinality(I) = IF lo > hi - 1 THEN 0 ELSE (hi - 1) - lo + 1
    BY <2>1, FS_Interval
  <2> QED BY <2>2
<1>2. S \cap I = {}
  OBVIOUS
<1>3. Cardinality(S \cap I) = 0
  BY <1>2, FS_EmptySet
<1>4. Cardinality(S) \in Nat
  BY FS_CardinalityType
<1> HIDE DEF I
<1>5. IsFiniteSet(S \cup I) /\ Cardinality(S \cup I) = Cardinality(S) + Cardinality(I) - Cardinality(S \cap I)
  BY <1>1, FS_Union
<1>6. Cardinality(S \cup I) = Cardinality(S) + (hi - lo)
  BY <1>1, <1>3, <1>4, <1>5
<1> QED BY <1>5, <1>6 DEF I

\* One turn of the loop in terms of the addresses S counted so far, all below
\* last: a region that ends at last or later adds what it has behind last, and
\* adds all that S lacks if S has the rest of it.
EndsBehind(S, last, addr, end, from) ==
  /\ S \in SUBSET Nat /\ IsFiniteSet(S) /\ last \in Nat /\ \A x \in S : x < last
  /\ addr \in Nat /\ end \in Nat /\ addr <= end /\ last <= end
  /\ from \in Nat /\ addr <= from /\ last <= from /\ (from = addr \/ from = last)

LEMMA OneRegion ==
  ASSUME NEW S, NEW last, NEW addr, NEW end, NEW from, EndsBehind(S, last, addr, end, from)
  PROVE  /\ IsFiniteSet(S \cup (addr .. end - 1))
         /\ Cardinality(S \cup (addr .. end - 1)) >= Cardinality(S) + (end - from)
         /\ addr .. last - 1 \subseteq S
              => Cardinality(S \cup (addr .. end - 1)) = Cardinality(S) + (end - from)
<1> USE DEF EndsBehind
<1> DEFINE A == S \cup (from .. end - 1)
           B == S \cup (addr .. end - 1)
<1>1. from \in Nat /\ from <= end /\ addr <= from /\ last <= from
  OBVIOUS
<1>2. \A x \in S : x < from
  BY <1>1
<1>3. IsFiniteSet(A) /\ Cardinality(A) = Cardinality(S) + (end - from)
  BY <1>1, <1>2, Above
<1>4. IsFiniteSet(addr .. end - 1)
  <2>1. addr \in Int /\ end - 1 \in Int
    OBVIOUS
  <2> QED BY <2>1, FS_Interval
<1>5. IsFiniteSet(B)
  BY <1>4, FS_Union, Zenon
<1>6. A \in SUBSET B
  BY <1>1
<1>7. addr .. last - 1 \subseteq S => A = B
  <2> SUFFICES ASSUME addr .. last - 1 \subseteq S, NEW x \in addr .. end - 1, x \notin S
               PROVE  x \in from .. end - 1
    BY <1>6
  <2>1. x \notin addr .. last - 1
    OBVIOUS
  <2> QED BY <2>1, <1>1
<1> HIDE DEF A, B
<1>8. Cardinality(A) <= Cardinality(B)
  BY <1>5, <1>6, FS_Subset
<1>9. Cardinality(A) \in Nat /\ Cardinality(B) \in Nat
  BY <1>3, <1>5, FS_CardinalityType
<1>10. Cardinality(B) >= Cardinality(S) + (end - from)
  BY <1>3, <1>8, <1>9
<1>11. addr .. last - 1 \subseteq S => Cardinality(B) = Cardinality(S) + (end - from)
  BY <1>3, <1>7
<1> QED BY <1>5, <1>10, <1>11 DEF B

\* As many addresses from 1 on as S has are in S if and only if S has no hole.
LEMMA NoHole ==
  ASSUME NEW S \in SUBSET (Nat \ {0}), IsFiniteSet(S)
  PROVE  1 .. Cardinality(S) \subseteq S <=> \A b \in S : 1 .. b \subseteq S
<1> DEFINE c == Cardinality(S)
<1>1. c \in Nat
  BY FS_CardinalityType
<1>2. ASSUME NEW n \in Nat PROVE IsFiniteSet(1 .. n) /\ Cardinality(1 .. n) = n
  <2>1. 1 \in Int /\ n \in Int
    OBVIOUS
  <2>2. IsFiniteSet(1 .. n) /\ Cardinality(1 .. n) = IF 1 > n THEN 0 ELSE n - 1 + 1
    BY <2>1, FS_Interval
  <2> QED BY <2>2
<1>3. ASSUME 1 .. c \subseteq S PROVE \A b \in S : 1 .. b \subseteq S
  <2>1. Cardinality(1 .. c) = c
    BY <1>1, <1>2
  <2>2. S = 1 .. c
    <3>1. (1 .. c) \in SUBSET S
      BY <1>3
    <3> QED BY <2>1, <3>1, FS_Subset, Zenon
  <2> HIDE DEF c
  <2> SUFFICES ASSUME NEW b \in 1 .. c PROVE 1 .. b \subseteq 1 .. c
    BY <2>2
  <2> QED BY <1>1
<1>4. ASSUME \A b \in S : 1 .. b \subseteq S PROVE 1 .. c \subseteq S
  <2> SUFFICES ASSUME NEW x \in 1 .. c, x \notin S PROVE FALSE
    OBVIOUS
  <2>1. x \in Nat /\ x >= 1 /\ x <= c
    BY <1>1
  <2>2. ASSUME NEW b \in S PROVE b \in 1 .. x - 1
    <3>1. x \notin 1 .. b
      BY <1>4
    <3> QED BY <2>1, <3>1
  <2>3. S \in SUBSET (1 .. x - 1)
    BY <2>2
  <2>4. x - 1 \in Nat
    BY <2>1
  <2>5. Cardinality(S) <= Cardinality(1 .. x - 1) /\ Cardinality(1 .. x - 1) = x - 1
    BY <1>2, <2>3, <2>4, FS_Subset, Zenon
  <2> QED BY <2>1, <2>5, <1>1
<1> QED BY <1>3, <1>4

----------------------------------------------------------------------------
(* The loop of available_mem_size.                                         *)

End(k) == bios[k].addr + bios[k].len

EndsBackIn(n) ==
  \E j, k \in 1 .. n : j < k /\ IsUsable(bios[j]) /\ IsUsable(bios[k]) /\ End(k) < End(j)
BeginsBackIn(n) ==
  \E j, k \in 1 .. n : j < k /\ IsUsable(bios[j]) /\ IsUsable(bios[k]) /\ bios[k].addr < bios[j].addr

Accumulators == [size : Nat, last_end : Nat, underflow : BOOLEAN]

\* After n turns without a step back, last_end is the greatest end so far.
Greatest(n, a) ==
  /\ \A j \in 1 .. n : IsUsable(bios[j]) => End(j) <= a.last_end
  /\ a.last_end = 0 \/ \E j \in 1 .. n : IsUsable(bios[j]) /\ End(j) = a.last_end

Counted(n, a) ==
  /\ a.size <= a.last_end
  /\ a.size <= Cardinality(UsableIn(n))
  /\ ~BeginsBackIn(n) => a.size = Cardinality(UsableIn(n))

Forward(n, a) == ~EndsBackIn(n) => Greatest(n, a) /\ Counted(n, a)

LEMMA U64Type == U64 \in Nat /\ U64 > 0 /\ \A x \in Int : x % U64 \in Nat
BY DEF U64

LEMMA U64Small == ASSUME NEW x \in Nat, x < U64 PROVE x % U64 = x
BY DEF U64

LEMMA RegionType ==
  ASSUME Machine, NEW k \in 1 .. Len(bios)
  PROVE  /\ bios[k] \in Region /\ bios[k].addr \in Nat /\ bios[k].len \in Nat
         /\ End(k) \in Nat /\ bios[k].addr <= End(k) /\ End(k) < U64
<1>1. bios[k] \in Region
  BY DEF Machine
<1>2. bios[k].addr \in Nat /\ bios[k].len \in Nat
  BY <1>1 DEF Region
<1>3. bios[k].addr + bios[k].len < U64
  BY DEF Machine
<1> QED BY <1>1, <1>2, <1>3 DEF End

LEMMA ExtentIs ==
  ASSUME Machine, NEW k \in 1 .. Len(bios)
  PROVE  Extent(bios[k]) = bios[k].addr .. End(k) - 1
<1>1. bios[k].addr \in Nat /\ bios[k].len \in Nat
  BY RegionType
<1>2. bios[k].addr + (bios[k].len - 1) = (bios[k].addr + bios[k].len) - 1
  BY <1>1
<1> QED BY <1>2 DEF Extent, End

\* The usable addresses are natural numbers from 1 on, below the greatest end.
LEMMA UsableBelow ==
  ASSUME Machine, NEW n \in Nat, n <= Len(bios), NEW last \in Nat,
         \A j \in 1 .. n : IsUsable(bios[j]) => End(j) <= last
  PROVE  /\ UsableIn(n) \in SUBSET (Nat \ {0}) /\ IsFiniteSet(UsableIn(n))
         /\ \A x \in UsableIn(n) : x < last
<1>1. ASSUME NEW x \in UsableIn(n) PROVE x \in Nat /\ x >= 1 /\ x < last
  <2>1. PICK k \in 1 .. n : IsUsable(bios[k]) /\ x \in Extent(bios[k])
    BY DEF UsableIn
  <2>3. k \in 1 .. Len(bios) /\ Len(bios) \in Nat
    BY DEF Machine
  <2>2. bios[k].addr >= 1 /\ x \in bios[k].addr .. End(k) - 1
    <3>1. bios[k].addr >= 1
      BY <2>1 DEF IsUsable
    <3>2. Extent(bios[k]) = bios[k].addr .. End(k) - 1
      BY <2>3, ExtentIs
    <3> QED BY <2>1, <3>1, <3>2
  <2>4. bios[k].addr \in Nat /\ End(k) \in Nat
    BY <2>3, RegionType
  <2>5. End(k) <= last
    BY <2>1
  <2> QED BY <2>2, <2>4, <2>5
<1>2. UsableIn(n) \in SUBSET Nat /\ \A x \in UsableIn(n) : x <= last
  BY <1>1
<1>3. IsFiniteSet(UsableIn(n))
  BY <1>2, FS_BoundedSetOfNaturals
<1> QED BY <1>1, <1>3

LEMMA UsableNext ==
  ASSUME NEW n \in Nat
  PROVE  UsableIn(n + 1) = IF IsUsable(bios[n + 1]) THEN UsableIn(n) \cup Extent(bios[n + 1])
                                                    ELSE UsableIn(n)
<1>1. {j \in 1 .. n + 1 : IsUsable(bios[j])}
        = {j \in 1 .. n : IsUsable(bios[j])} \cup (IF IsUsable(bios[n + 1]) THEN {n + 1} ELSE {})
  <2>1. \A j : j \in 1 .. n + 1 <=> j \in 1 .. n \/ j = n + 1
    OBVIOUS
  <2> QED BY <2>1
<1> QED BY <1>1 DEF UsableIn

LEMMA UsableNone == UsableIn(0) = {}
BY DEF UsableIn

\* A step back among n + 1 regions is one among n, or one of the last.
LEMMA BackNext ==
  ASSUME NEW n \in Nat
  PROVE  /\ EndsBackIn(n + 1) <=>
              \/ EndsBackIn(n)
              \/ IsUsable(bios[n + 1]) /\ \E j \in 1 .. n : IsUsable(bios[j]) /\ End(n + 1) < End(j)
         /\ BeginsBackIn(n + 1) <=>
              \/ BeginsBackIn(n)
              \/ IsUsable(bios[n + 1]) /\ \E j \in 1 .. n : IsUsable(bios[j]) /\ bios[n + 1].addr < bios[j].addr
<1>1. \A j : j \in 1 .. n + 1 <=> j \in 1 .. n \/ j = n + 1
  OBVIOUS
<1>2. \A j \in 1 .. n : j < n + 1 /\ ~(n + 1 < j)
  OBVIOUS
<1>3. ~(n + 1 < n + 1)
  OBVIOUS
<1>4. n + 1 \in 1 .. n + 1
  OBVIOUS
<1>5. EndsBackIn(n + 1) <=>
        \/ EndsBackIn(n)
        \/ IsUsable(bios[n + 1]) /\ \E j \in 1 .. n : IsUsable(bios[j]) /\ End(n + 1) < End(j)
  BY <1>1, <1>2, <1>3, <1>4, Zenon DEF EndsBackIn
<1>6. BeginsBackIn(n + 1) <=>
        \/ BeginsBackIn(n)
        \/ IsUsable(bios[n + 1]) /\ \E j \in 1 .. n : IsUsable(bios[j]) /\ bios[n + 1].addr < bios[j].addr
  BY <1>1, <1>2, <1>3, <1>4, Zenon DEF BeginsBackIn
<1> QED BY <1>5, <1>6

LEMMA BackLater ==
  ASSUME NEW n \in Nat, NEW m \in Nat, n <= m
  PROVE  EndsBackIn(n) => EndsBackIn(m)
<1>1. \A j : j \in 1 .. n => j \in 1 .. m
  OBVIOUS
<1> QED BY <1>1, Zenon DEF EndsBackIn

\* One turn of the loop keeps Forward, and underflows exactly at the first step
\* back.
LEMMA ForwardStep ==
  ASSUME Machine, NEW n \in Nat, n + 1 <= Len(bios), NEW a \in Accumulators, Forward(n, a),
         NEW b, b = add(a, bios[n + 1])
  PROVE  /\ b \in Accumulators /\ Forward(n + 1, b)
         /\ ~EndsBackIn(n) /\ ~a.underflow => (b.underflow <=> EndsBackIn(n + 1))
<1> DEFINE mem == bios[n + 1]
           addr == mem.addr
           end == End(n + 1)
           from == IF addr > a.last_end THEN addr ELSE a.last_end
<1>1. n + 1 \in 1 .. Len(bios) /\ Len(bios) \in Nat
  BY DEF Machine
<1>2. mem \in Region /\ addr \in Nat /\ end \in Nat /\ addr <= end /\ end < U64
  BY <1>1, RegionType
<1>3. a.size \in Nat /\ a.last_end \in Nat /\ a.underflow \in BOOLEAN
  BY DEF Accumulators
<1>4. CASE ~IsUsable(mem)
  <2>1. b = a
    BY <1>4 DEF add, IsUsable
  <2>2. EndsBackIn(n + 1) <=> EndsBackIn(n)
    BY <1>4, BackNext
  <2>3. BeginsBackIn(n + 1) <=> BeginsBackIn(n)
    BY <1>4, BackNext
  <2>4. UsableIn(n + 1) = UsableIn(n)
    BY <1>4, UsableNext, Zenon
  <2>5. Greatest(n, a) => Greatest(n + 1, a)
    <3>1. \A j : j \in 1 .. n + 1 <=> j \in 1 .. n \/ j = n + 1
      OBVIOUS
    <3> QED BY <1>4, <3>1, Zenon DEF Greatest
  <2>6. Counted(n, a) => Counted(n + 1, a)
    BY <2>3, <2>4 DEF Counted
  <2>7. Forward(n + 1, b)
    BY <2>1, <2>2, <2>5, <2>6 DEF Forward
  <2>8. ~EndsBackIn(n) /\ ~a.underflow => (b.underflow <=> EndsBackIn(n + 1))
    BY <1>3, <2>1, <2>2, Zenon
  <2> QED BY <2>1, <2>7, <2>8
<1>5. CASE IsUsable(mem)
  <2>1. b = [size |-> (a.size + (end - from)) % U64, last_end |-> end, underflow |-> end < from]
    BY <1>5 DEF add, IsUsable, End
  <2>2. from \in Nat /\ addr <= from /\ a.last_end <= from /\ (from = addr \/ from = a.last_end)
    BY <1>2, <1>3
  <2> HIDE DEF mem, addr, end, from
  <2>3. a.size + (end - from) \in Int
    BY <1>2, <1>3, <2>2
  <2>4. b.size = (a.size + (end - from)) % U64 /\ b.last_end = end /\ b.underflow = (end < from)
    BY <2>1
  <2>5. b \in Accumulators
    BY <1>2, <2>1, <2>3, U64Type DEF Accumulators
  <2>6. CASE EndsBackIn(n)
    <3>1. EndsBackIn(n + 1)
      BY <2>6, BackNext
    <3> QED BY <2>5, <2>6, <3>1 DEF Forward
  <2>7. CASE ~EndsBackIn(n)
    <3>1. Greatest(n, a) /\ Counted(n, a)
      BY <2>7 DEF Forward
    <3>2. end < from <=> end < a.last_end
      BY <1>2, <1>3, <2>2
    <3>3. end < a.last_end <=> \E j \in 1 .. n : IsUsable(bios[j]) /\ end < End(j)
      <4>1. ASSUME end < a.last_end PROVE \E j \in 1 .. n : IsUsable(bios[j]) /\ end < End(j)
        <5>1. a.last_end # 0
          BY <4>1, <1>2
        <5> QED BY <3>1, <4>1, <5>1 DEF Greatest
      <4>2. ASSUME NEW j \in 1 .. n, IsUsable(bios[j]), end < End(j) PROVE end < a.last_end
        <5>1. End(j) <= a.last_end
          BY <3>1, <4>2 DEF Greatest
        <5>2. j \in 1 .. Len(bios)
          BY <1>1
        <5>3. End(j) \in Nat
          BY <5>2, RegionType
        <5> QED BY <1>2, <1>3, <4>2, <5>1, <5>3
      <4> QED BY <4>1, <4>2
    <3>4. EndsBackIn(n + 1) <=> end < from
      <4>1. EndsBackIn(n + 1) <=> \E j \in 1 .. n : IsUsable(bios[j]) /\ end < End(j)
        BY <1>5, <2>7, BackNext, Zenon DEF mem, end
      <4> QED BY <3>2, <3>3, <4>1
    <3>5. b.underflow <=> EndsBackIn(n + 1)
      BY <2>4, <3>4, Zenon
    <3>6. ASSUME ~EndsBackIn(n + 1) PROVE Greatest(n + 1, b) /\ Counted(n + 1, b)
      <4>1. from <= end /\ a.last_end <= end
        BY <1>2, <1>3, <2>2, <3>2, <3>4, <3>6
      <4>2. Greatest(n + 1, b)
        <5>1. ASSUME NEW j \in 1 .. n + 1, IsUsable(bios[j]) PROVE End(j) <= end
          <6>1. CASE j = n + 1
            BY <6>1, <1>2 DEF end
          <6>2. CASE j \in 1 .. n
            <7>1. End(j) <= a.last_end
              BY <3>1, <5>1, <6>2 DEF Greatest
            <7>2. j \in 1 .. Len(bios)
              BY <1>1
            <7>3. End(j) \in Nat
              BY <7>2, RegionType
            <7> QED BY <1>2, <1>3, <4>1, <7>1, <7>3
          <6> QED BY <6>1, <6>2
        <5>2. \E j \in 1 .. n + 1 : IsUsable(bios[j]) /\ End(j) = end
          <6>1. n + 1 \in 1 .. n + 1
            OBVIOUS
          <6> QED BY <1>5, <6>1 DEF mem, end
        <5> QED BY <2>4, <5>1, <5>2 DEF Greatest
      <4>3. a.size + (end - from) <= end /\ a.size + (end - from) \in Nat
        BY <1>2, <1>3, <2>2, <3>1, <4>1 DEF Counted
      <4>4. b.size = a.size + (end - from)
        <5>1. a.size + (end - from) < U64
          BY <1>2, <4>3, U64Type
        <5> QED BY <2>4, <4>3, <5>1, U64Small
      <4> DEFINE S == UsableIn(n)
                 S2 == UsableIn(n + 1)
      <4>5. S \in SUBSET Nat /\ IsFiniteSet(S) /\ \A x \in S : x < a.last_end
        <5>1. \A j \in 1 .. n : IsUsable(bios[j]) => End(j) <= a.last_end
          BY <3>1 DEF Greatest
        <5>2. n <= Len(bios)
          BY <1>1
        <5>3. S \in SUBSET (Nat \ {0}) /\ IsFiniteSet(S) /\ \A x \in S : x < a.last_end
          BY <1>3, <5>1, <5>2, UsableBelow
        <5> QED BY <5>3
      <4>6. S2 = S \cup (addr .. end - 1)
        <5>1. Extent(bios[n + 1]) = addr .. end - 1
          BY <1>1, ExtentIs DEF addr, end, mem
        <5> QED BY <1>5, <5>1, UsableNext, Zenon DEF mem
      <4>8. Cardinality(S) \in Nat
        BY <4>5, FS_CardinalityType
      <4>9. /\ IsFiniteSet(S2) /\ Cardinality(S2) >= Cardinality(S) + (end - from)
            /\ addr .. a.last_end - 1 \subseteq S => Cardinality(S2) = Cardinality(S) + (end - from)
        <5> HIDE DEF S, S2
        <5> DEFINE last == a.last_end
        <5>1. last \in Nat /\ last <= end /\ last <= from /\ (from = addr \/ from = last) /\ \A x \in S : x < last
          BY <1>3, <2>2, <4>1, <4>5
        <5> HIDE DEF last
        <5>2. S \in SUBSET Nat /\ IsFiniteSet(S) /\ addr \in Nat /\ end \in Nat /\ addr <= end
          BY <1>2, <4>5
        <5>3. from \in Nat /\ addr <= from
          BY <2>2
        <5>4. /\ IsFiniteSet(S \cup (addr .. end - 1))
              /\ Cardinality(S \cup (addr .. end - 1)) >= Cardinality(S) + (end - from)
              /\ addr .. last - 1 \subseteq S
                   => Cardinality(S \cup (addr .. end - 1)) = Cardinality(S) + (end - from)
          <6>1. EndsBehind(S, last, addr, end, from)
            BY <5>1, <5>2, <5>3 DEF EndsBehind
          <6> QED BY ONLY <6>1, OneRegion
        <5> QED BY <4>6, <5>4 DEF last
      <4>10. Cardinality(S2) \in Nat
        BY <4>9, FS_CardinalityType
      <4>11. b.size <= Cardinality(S2)
        <5>1. a.size <= Cardinality(S)
          BY <3>1 DEF Counted
        <5> HIDE DEF S, S2
        <5> QED BY <1>2, <1>3, <2>2, <4>4, <4>8, <4>9, <4>10, <5>1
      <4>12. ASSUME ~BeginsBackIn(n + 1) PROVE b.size = Cardinality(S2)
        <5>1. a.size = Cardinality(S)
          <6>1. ~BeginsBackIn(n)
            BY <4>12, BackNext, Zenon
          <6> QED BY <3>1, <6>1 DEF Counted
        <5>2. addr .. a.last_end - 1 \subseteq S
          <6> SUFFICES ASSUME NEW x \in addr .. a.last_end - 1 PROVE x \in S
            OBVIOUS
          <6>1. a.last_end # 0 /\ x \in Nat /\ addr <= x /\ x <= a.last_end - 1
            BY <1>2, <1>3
          <6>2. PICK j \in 1 .. n : IsUsable(bios[j]) /\ End(j) = a.last_end
            BY <3>1, <6>1 DEF Greatest
          <6>3. ~(addr < bios[j].addr)
            BY <1>5, <4>12, <6>2, BackNext, Zenon DEF addr, mem
          <6>4. j \in 1 .. Len(bios)
            BY <1>1
          <6>5. bios[j].addr \in Nat
            BY <6>4, RegionType
          <6>6. x \in bios[j].addr .. End(j) - 1
            BY <1>2, <1>3, <6>1, <6>2, <6>3, <6>5
          <6>7. Extent(bios[j]) = bios[j].addr .. End(j) - 1
            BY <6>4, ExtentIs
          <6> QED BY <6>2, <6>6, <6>7, Zenon DEF UsableIn
        <5> HIDE DEF S, S2
        <5> QED BY <4>4, <4>9, <5>1, <5>2
      <4>13. Counted(n + 1, b)
        BY <2>4, <4>3, <4>4, <4>11, <4>12 DEF Counted
      <4> QED BY <4>2, <4>13
    <3> QED BY <2>5, <3>5, <3>6 DEF Forward
  <2> QED BY <2>6, <2>7
<1> QED BY <1>4, <1>5

----------------------------------------------------------------------------
(* The same loop in a release build, which goes on after a step back.      *)

CountedBelow(n, last) == {x \in UsableIn(n) : x < last}

\* The sum s that the loop stands for, before it wraps: at most the usable
\* memory below last_end, and at least the reach of a region, per region, below
\* zero.
Sums(n, last, s) ==
  /\ s <= Cardinality(CountedBelow(n, last))
  /\ s < 0 => \E k \in 1 .. n : IsUsable(bios[k]) /\ 0 - s <= n * End(k)

Signed(n, a) ==
  /\ a.last_end = 0 \/ \E j \in 1 .. n : IsUsable(bios[j]) /\ End(j) = a.last_end
  /\ \E s \in Int : a.size = s % U64 /\ Sums(n, a.last_end, s)

LEMMA U64Mod ==
  ASSUME NEW x \in Int
  PROVE  /\ x % U64 \in Nat
         /\ x >= 0 => x % U64 <= x
         /\ x < 0 => U64 - (x % U64) <= 0 - x
BY DEF U64

LEMMA U64Add ==
  ASSUME NEW x \in Int, NEW y \in Int
  PROVE  ((x % U64) + y) % U64 = (x + y) % U64
BY DEF U64

LEMMA Reach ==
  ASSUME NEW n \in Nat, NEW e \in Nat, NEW f \in Nat, e <= f
  PROVE  /\ n * e \in Nat /\ n * e <= n * f /\ (n + 1) * f = n * f + f
         /\ n * e <= (n + 1) * e
OBVIOUS

LEMMA BelowFinite ==
  ASSUME Machine, NEW n \in Nat, n <= Len(bios), NEW last
  PROVE  /\ UsableIn(n) \in SUBSET (Nat \ {0}) /\ IsFiniteSet(UsableIn(n))
         /\ CountedBelow(n, last) \in SUBSET Nat /\ IsFiniteSet(CountedBelow(n, last))
         /\ Cardinality(CountedBelow(n, last)) \in Nat
         /\ Cardinality(CountedBelow(n, last)) <= Cardinality(UsableIn(n))
<1>1. ASSUME NEW j \in 1 .. n PROVE End(j) <= U64
  <2>1. j \in 1 .. Len(bios)
    BY DEF Machine
  <2> QED BY <2>1, RegionType, U64Type
<1>2. UsableIn(n) \in SUBSET (Nat \ {0}) /\ IsFiniteSet(UsableIn(n))
  BY <1>1, U64Type, UsableBelow
<1>3. CountedBelow(n, last) \in SUBSET UsableIn(n)
  BY DEF CountedBelow
<1>4. IsFiniteSet(CountedBelow(n, last)) /\ Cardinality(CountedBelow(n, last)) <= Cardinality(UsableIn(n))
  BY <1>2, <1>3, FS_Subset
<1> QED BY <1>2, <1>3, <1>4, FS_CardinalityType

\* What a region that ends before last takes away is at most what it leaves out.
LEMMA CutOff ==
  ASSUME NEW S \in SUBSET Nat, IsFiniteSet(S), NEW end \in Nat, NEW last \in Nat, end <= last,
         NEW R \in SUBSET Nat, IsFiniteSet(R), \A x \in S : x < last, \A x \in S : x < end => x \in R
  PROVE  Cardinality(R) >= Cardinality(S) + (end - last)
<1> DEFINE I == end .. last - 1
<1>1. IsFiniteSet(I) /\ Cardinality(I) = last - end
  <2>1. last - 1 \in Int /\ end \in Int
    OBVIOUS
  <2>2. IsFiniteSet(I) /\ Cardinality(I) = IF end > last - 1 THEN 0 ELSE (last - 1) - end + 1
    BY <2>1, FS_Interval
  <2> QED BY <2>2
<1>2. S \in SUBSET (R \cup I)
  OBVIOUS
<1> HIDE DEF I
<1>3. IsFiniteSet(R \cup I) /\ Cardinality(R \cup I) = Cardinality(R) + Cardinality(I) - Cardinality(R \cap I)
  BY <1>1, FS_Union
<1>4. IsFiniteSet(R \cap I)
  BY <1>1, FS_Intersection
<1>5. Cardinality(S) <= Cardinality(R \cup I)
  BY <1>2, <1>3, FS_Subset
<1>6. Cardinality(S) \in Nat /\ Cardinality(R) \in Nat /\ Cardinality(R \cap I) \in Nat
      /\ Cardinality(R \cup I) \in Nat
  BY <1>3, <1>4, FS_CardinalityType
<1> QED BY <1>1, <1>3, <1>5, <1>6

\* One turn of the loop: the sum grows by what the region has behind last_end,
\* or shrinks by what it lacks.
LEMMA SignedStep ==
  ASSUME Machine, NEW n \in Nat, n + 1 <= Len(bios), NEW a \in Accumulators, Signed(n, a),
         NEW b, b = add(a, bios[n + 1])
  PROVE  Signed(n + 1, b)
<1> DEFINE mem == bios[n + 1]
           addr == mem.addr
           end == End(n + 1)
           last == a.last_end
           from == IF addr > last THEN addr ELSE last
<1>1. n + 1 \in 1 .. Len(bios) /\ Len(bios) \in Nat /\ n <= Len(bios)
  BY DEF Machine
<1>2. addr \in Nat /\ end \in Nat /\ addr <= end
  BY <1>1, RegionType
<1>3. a.size \in Nat /\ last \in Nat
  BY DEF Accumulators
<1>4. PICK s \in Int : a.size = s % U64 /\ Sums(n, last, s)
  BY DEF Signed
<1>5. last = 0 \/ \E j \in 1 .. n : IsUsable(bios[j]) /\ End(j) = last
  BY DEF Signed
<1>6. \A j : j \in 1 .. n + 1 <=> j \in 1 .. n \/ j = n + 1
  OBVIOUS
<1>7. \A j \in 1 .. n : End(j) \in Nat
  <2> SUFFICES ASSUME NEW j \in 1 .. n PROVE End(j) \in Nat
    OBVIOUS
  <2>1. j \in 1 .. Len(bios)
    BY <1>1
  <2> QED BY <2>1, RegionType
<1>8. CASE ~IsUsable(mem)
  <2>1. b = a
    BY <1>8 DEF add, IsUsable
  <2>2. CountedBelow(n + 1, last) = CountedBelow(n, last)
    <3>1. UsableIn(n + 1) = UsableIn(n)
      BY <1>8, UsableNext, Zenon
    <3> QED BY <3>1 DEF CountedBelow
  <2>3. ASSUME s < 0 PROVE \E k \in 1 .. n + 1 : IsUsable(bios[k]) /\ 0 - s <= (n + 1) * End(k)
    <3>1. PICK k \in 1 .. n : IsUsable(bios[k]) /\ 0 - s <= n * End(k)
      BY <1>4, <2>3 DEF Sums
    <3>2. End(k) \in Nat
      BY <1>7
    <3>3. n * End(k) <= (n + 1) * End(k) /\ n * End(k) \in Nat /\ (n + 1) * End(k) \in Nat
      BY <3>2, Reach
    <3>4. 0 - s <= (n + 1) * End(k)
      BY <3>1, <3>3
    <3> QED BY <1>6, <3>1, <3>4
  <2>4. Sums(n + 1, last, s)
    BY <1>4, <2>2, <2>3 DEF Sums
  <2>5. last = 0 \/ \E j \in 1 .. n + 1 : IsUsable(bios[j]) /\ End(j) = last
    BY <1>5, <1>6
  <2> QED BY <1>4, <2>1, <2>4, <2>5 DEF Signed
<1>9. CASE IsUsable(mem)
  <2>1. b = [size |-> (a.size + (end - from)) % U64, last_end |-> end, underflow |-> end < from]
    BY <1>9 DEF add, IsUsable, End
  <2>2. from \in Nat /\ addr <= from /\ last <= from /\ (from = addr \/ from = last)
    BY <1>2, <1>3
  <2>3. UsableIn(n + 1) = UsableIn(n) \cup (addr .. end - 1)
    <3>1. Extent(bios[n + 1]) = addr .. end - 1
      BY <1>1, ExtentIs
    <3> QED BY <1>9, <3>1, UsableNext, Zenon
  <2>4. End(n + 1) = end /\ IsUsable(bios[n + 1])
    BY <1>9
  <2> HIDE DEF mem, addr, end, last, from
  <2> DEFINE t == s + (end - from)
             S == CountedBelow(n, last)
             R == CountedBelow(n + 1, end)
  <2>5. t \in Int
    BY <1>2, <2>2
  <2>6. b.size = t % U64 /\ b.last_end = end
    <3>1. end - from \in Int
      BY <1>2, <2>2
    <3>2. b.size = ((s % U64) + (end - from)) % U64 /\ b.last_end = end
      BY <1>4, <2>1
    <3> QED BY <3>1, <3>2, U64Add
  <2>7. S \in SUBSET Nat /\ IsFiniteSet(S) /\ Cardinality(S) \in Nat /\ \A x \in S : x < last
    BY <1>1, BelowFinite DEF CountedBelow
  <2>8. R \in SUBSET Nat /\ IsFiniteSet(R) /\ Cardinality(R) \in Nat
    BY <1>1, BelowFinite
  <2>9. Cardinality(R) >= Cardinality(S) + (end - from)
    <3>1. CASE last <= end
      <4>1. EndsBehind(S, last, addr, end, from)
        BY <1>2, <1>3, <2>2, <2>7, <3>1 DEF EndsBehind, last
      <4> DEFINE Q == S \cup (addr .. end - 1)
      <4>2. IsFiniteSet(Q) /\ Cardinality(Q) >= Cardinality(S) + (end - from)
        BY ONLY <4>1, OneRegion
      <4>3. Q \in SUBSET R
        <5>1. ASSUME NEW x \in S PROVE x \in R
          <6>1. x \in UsableIn(n) /\ x < last /\ x \in Nat
            BY <2>7 DEF CountedBelow
          <6>2. x < end
            BY <1>2, <1>3, <3>1, <6>1 DEF last
          <6> QED BY <2>3, <6>1, <6>2 DEF CountedBelow
        <5>2. ASSUME NEW x \in addr .. end - 1 PROVE x \in R
          <6>1. x < end
            BY <1>2
          <6> QED BY <2>3, <6>1 DEF CountedBelow
        <5> QED BY <5>1, <5>2
      <4> HIDE DEF Q, R, S
      <4>4. Cardinality(Q) <= Cardinality(R) /\ Cardinality(Q) \in Nat
        BY <2>8, <4>2, <4>3, FS_Subset, FS_CardinalityType
      <4> QED BY <1>2, <2>2, <2>7, <2>8, <4>2, <4>4
    <3>2. CASE end < last
      <4>1. from = last
        BY <1>2, <1>3, <2>2, <3>2 DEF last
      <4>2. \A x \in S : x < end => x \in R
        BY <2>3 DEF CountedBelow
      <4>3. last \in Nat /\ end <= last
        BY <1>2, <1>3, <3>2 DEF last
      <4> HIDE DEF R, S
      <4>4. Cardinality(R) >= Cardinality(S) + (end - last)
        BY <1>2, <2>7, <2>8, <4>2, <4>3, CutOff
      <4> QED BY <4>1, <4>4
    <3>3. last \in Nat
      BY <1>3 DEF last
    <3> QED BY <1>2, <3>1, <3>2, <3>3
  <2>10. t <= Cardinality(R)
    <3>1. s <= Cardinality(S)
      BY <1>4 DEF Sums
    <3> HIDE DEF S, R
    <3> QED BY <1>2, <2>2, <2>7, <2>8, <2>9, <3>1
  <2>11. ASSUME t < 0 PROVE \E k \in 1 .. n + 1 : IsUsable(bios[k]) /\ 0 - t <= (n + 1) * End(k)
    <3>1. CASE s < 0
      <4>1. PICK k \in 1 .. n : IsUsable(bios[k]) /\ 0 - s <= n * End(k)
        BY <1>4, <3>1 DEF Sums
      <4>2. PICK e \in Nat : e = End(k)
        BY <1>7
      <4>3. CASE from <= end \/ last = 0
        <5>1. 0 - t <= 0 - s
          BY <1>2, <2>2, <4>3
        <5>2. n * e \in Nat /\ (n + 1) * e \in Nat /\ n * e <= (n + 1) * e
          BY Reach
        <5>3. 0 - t <= (n + 1) * e
          BY <2>5, <4>1, <4>2, <5>1, <5>2
        <5> QED BY <1>6, <4>1, <4>2, <5>3
      <4>4. CASE ~(from <= end) /\ last # 0
        <5>1. from = last
          BY <1>2, <2>2, <4>4
        <5>2. PICK j \in 1 .. n : IsUsable(bios[j]) /\ End(j) = last
          BY <1>5, <4>4
        <5>3. PICK f \in Nat : f = End(j)
          BY <1>7
        <5>4. 0 - t <= n * e + f
          <6>1. 0 - t = (0 - s) + (f - end)
            BY <1>2, <2>2, <5>1, <5>2, <5>3
          <6>2. n * e \in Nat
            BY Reach
          <6> HIDE DEF t
          <6> QED BY <1>2, <4>1, <4>2, <6>1, <6>2
        <5>5. PICK k2 \in 1 .. n : IsUsable(bios[k2]) /\ e <= End(k2) /\ f <= End(k2)
          <6>1. CASE e <= f
            <7>1. e <= End(j) /\ f <= End(j)
              BY <5>3, <6>1
            <7> QED BY <5>2, <7>1
          <6>2. CASE f <= e
            <7>1. e <= End(k) /\ f <= End(k)
              BY <4>2, <6>2
            <7> QED BY <4>1, <7>1
          <6> QED BY <6>1, <6>2
        <5>6. PICK g \in Nat : g = End(k2)
          BY <1>7
        <5>7. n * e \in Nat /\ n * g \in Nat /\ n * e <= n * g /\ (n + 1) * g = n * g + g
          BY <5>5, <5>6, Reach
        <5>8. 0 - t <= (n + 1) * g
          <6> HIDE DEF t
          <6> QED BY <2>5, <5>4, <5>5, <5>6, <5>7
        <5> QED BY <1>6, <5>5, <5>6, <5>8
      <4> QED BY <4>3, <4>4
    <3>2. CASE s >= 0
      <4>1. end < from
        BY <1>2, <2>2, <2>11, <3>2
      <4>2. from = last /\ last # 0
        BY <1>2, <2>2, <4>1
      <4>3. PICK j \in 1 .. n : IsUsable(bios[j]) /\ End(j) = last
        BY <1>5, <4>2
      <4>4. PICK f \in Nat : f = End(j)
        BY <1>7
      <4>5. 0 - t <= f
        BY <1>2, <2>2, <3>2, <4>2, <4>3, <4>4
      <4>6. n * f \in Nat /\ (n + 1) * f = n * f + f
        BY <4>4, Reach
      <4>7. 0 - t <= (n + 1) * f
        <5> HIDE DEF t
        <5> QED BY <2>5, <4>5, <4>6
      <4> QED BY <1>6, <4>3, <4>4, <4>7
    <3> QED BY <3>1, <3>2
  <2>12. Sums(n + 1, end, t)
    BY <2>10, <2>11 DEF Sums
  <2>13. \E j \in 1 .. n + 1 : IsUsable(bios[j]) /\ End(j) = end
    BY <1>6, <2>4
  <2> HIDE DEF t
  <2> QED BY <2>5, <2>6, <2>12, <2>13 DEF Signed
<1> QED BY <1>8, <1>9

Loop(n, a) == Forward(n, a) /\ Signed(n, a)

LEMMA LoopStep ==
  ASSUME Machine, NEW n \in Nat, n + 1 <= Len(bios), NEW a \in Accumulators, Loop(n, a),
         NEW b, b = add(a, bios[n + 1])
  PROVE  /\ b \in Accumulators /\ Loop(n + 1, b)
         /\ ~EndsBackIn(n) /\ ~a.underflow => (b.underflow <=> EndsBackIn(n + 1))
BY ForwardStep, SignedStep DEF Loop

----------------------------------------------------------------------------
(* The boot keeps the invariant.                                           *)

Returned == size = acc.size /\ added = Len(bios) /\ (overflow_checks => ~EndsBackIn(added))

Ended == {"measured", "printed", "hlt", "panic", "lost"}

Measuring ==
  /\ overflow_checks \in BOOLEAN /\ added \in Nat /\ acc \in Accumulators
  /\ added <= Len(memlayoutbuf)
  /\ pc \notin Ended => size = None /\ (overflow_checks => ~acc.underflow /\ ~EndsBackIn(added))
  /\ pc \in {"measured", "printed", "hlt"} => size \in Nat /\ (IsMap => Returned)
  /\ pc = "panic" /\ IsMap => \/ size = None /\ overflow_checks /\ EndsBackIn(Len(bios))
                              \/ Returned

BootInv == LoaderInv /\ Measuring /\ Loop(added, acc)

LEMMA BootInitial == BootInit => BootInv
<1> SUFFICES ASSUME BootInit PROVE BootInv
  OBVIOUS
<1>1. Init /\ overflow_checks \in BOOLEAN /\ added = 0 /\ size = None
  BY DEF BootInit
<1>2. acc = [size |-> 0, last_end |-> 0, underflow |-> FALSE]
  BY DEF BootInit
<1>3. LoaderInv
  BY <1>1, LoaderInit
<1>4. pc = "bios_read"
  BY <1>1, Zenon DEF Init
<1>5. acc \in Accumulators /\ ~acc.underflow
  BY <1>2 DEF Accumulators
<1>6. ~EndsBackIn(0)
  BY DEF EndsBackIn
<1>7. Len(memlayoutbuf) \in Nat
  BY <1>3 DEF LoaderInv, Layout
<1>8. Measuring
  BY <1>1, <1>4, <1>5, <1>6, <1>7 DEF Measuring, Ended
<1>9. Loop(0, acc)
  <2>1. Greatest(0, acc)
    BY <1>2 DEF Greatest
  <2>2. Counted(0, acc)
    BY <1>2, UsableNone, FS_EmptySet DEF Counted
  <2>3. Signed(0, acc)
    <3>1. CountedBelow(0, 0) = {}
      BY UsableNone DEF CountedBelow
    <3>2. Sums(0, 0, 0)
      BY <3>1, FS_EmptySet DEF Sums
    <3>3. 0 \in Int /\ 0 = 0 % U64
      BY U64Type, U64Small
    <3>4. acc.size = 0 /\ acc.last_end = 0
      BY <1>2
    <3> QED BY <3>2, <3>3, <3>4 DEF Signed
  <2> QED BY <2>1, <2>2, <2>3 DEF Loop, Forward
<1> QED BY <1>1, <1>3, <1>8, <1>9 DEF BootInv

\* What the invariant says of the BIOS's map depends on nothing else.
LEMMA MapKept ==
  ASSUME bios' = bios, NEW n, NEW a
  PROVE  /\ EndsBackIn(n)' <=> EndsBackIn(n)
         /\ Loop(n, a)' <=> Loop(n, a)
<1>1. \A k : End(k)' = End(k)
  BY DEF End
<1>2. EndsBackIn(n)' <=> EndsBackIn(n)
  BY <1>1, Zenon DEF EndsBackIn
<1>3. BeginsBackIn(n)' <=> BeginsBackIn(n)
  BY Zenon DEF BeginsBackIn
<1>4. Greatest(n, a)' <=> Greatest(n, a)
  BY <1>1, Zenon DEF Greatest
<1>5. UsableIn(n)' = UsableIn(n)
  BY DEF UsableIn
<1>6. Counted(n, a)' <=> Counted(n, a)
  BY <1>3, <1>5, Zenon DEF Counted
<1>7. Signed(n, a)' <=> Signed(n, a)
  <2>1. \A last : CountedBelow(n, last)' = CountedBelow(n, last)
    BY <1>5 DEF CountedBelow
  <2>2. \A last, s : Sums(n, last, s)' <=> Sums(n, last, s)
    BY <1>1, <2>1, Zenon DEF Sums
  <2> QED BY <1>1, <2>2, Zenon DEF Signed
<1> QED BY <1>2, <1>4, <1>6, <1>7, Zenon DEF Loop, Forward

\* Until the kernel runs its variables do not change, and neither does the map
\* of the BIOS.
LEMMA LoaderSteps ==
  ASSUME BootInv, Next, UNCHANGED <<overflow_checks, added, acc, size>>
  PROVE  BootInv'
<1>1. LoaderInv /\ Measuring /\ Loop(added, acc)
  BY DEF BootInv
<1>2. Len(memlayoutbuf) \in Nat /\ memlayoutbuf \in Seq(Region) /\ bios \in Seq(Region)
  BY <1>1 DEF LoaderInv, Layout, Machine
<1> DEFINE Goes == /\ LoaderInv' /\ bios' = bios /\ Len(memlayoutbuf) <= Len(memlayoutbuf')
                   /\ pc \notin Ended /\ pc' \notin {"measured", "printed", "hlt", "panic"}
<1>3. ASSUME bios_read PROVE Goes
  <2>1. LoaderInv'
    BY <1>1, <1>3, TransferStep
  <2>2. pc = "bios_read" /\ pc' \in {"bios_read", "check_read"} /\ bios' = bios /\ memlayoutbuf' = memlayoutbuf
    BY <1>3 DEF bios_read, mapVars
  <2> QED BY <1>2, <2>1, <2>2 DEF Ended
<1>4. ASSUME check_read \/ bios_read_fails PROVE Goes
  <2>1. LoaderInv'
    BY <1>1, <1>4, CheckStep
  <2>2. pc \in {"bios_read", "check_read"} /\ pc' \in {"detectmem", "check_fail"} /\ bios' = bios /\ memlayoutbuf' = memlayoutbuf
    BY <1>4 DEF check_read, bios_read_fails, mapVars
  <2> QED BY <1>2, <2>1, <2>2 DEF Ended
<1>5. ASSUME detectmem \/ detectmemfail PROVE Goes
  <2>1. LoaderInv'
    BY <1>1, <1>5, DetectStep
  <2>2. pc = "detectmem" /\ pc' \in {"detectmem", "build_pde"} /\ bios' = bios
    BY <1>5 DEF detectmem, detectmemfail
  <2>3. Len(memlayoutbuf) <= Len(memlayoutbuf')
    <3>1. CASE detectmem
      <4>1. Len(memlayoutbuf) + 1 \in 1 .. Len(bios)
        BY <1>2, <3>1 DEF detectmem
      <4>2. bios[Len(memlayoutbuf) + 1] \in Region
        BY <1>2, <4>1
      <4>3. memlayoutbuf' = Append(memlayoutbuf, bios[Len(memlayoutbuf) + 1])
        BY <3>1 DEF detectmem
      <4> QED BY <1>2, <4>2, <4>3
    <3>2. CASE detectmemfail
      <4>1. memlayoutbuf' = memlayoutbuf
        BY <3>2 DEF detectmemfail
      <4> QED BY <1>2, <4>1
    <3> QED BY <1>5, <3>1, <3>2
  <2> QED BY <2>1, <2>2, <2>3 DEF Ended
<1>6. ASSUME build_pde \/ write_pde \/ build_pte \/ write_pte PROVE Goes
  <2>1. LoaderInv'
    BY <1>1, <1>6, PagesStep
  <2>2. /\ pc \in {"build_pde", "write_pde", "build_pte", "write_pte"}
        /\ pc' \in {"write_pde", "build_pte", "write_pte", "protect_entry"}
        /\ bios' = bios /\ memlayoutbuf' = memlayoutbuf
    BY <1>6, Zenon DEF build_pde, write_pde, build_pte, write_pte, mapVars
  <2> QED BY <1>2, <2>1, <2>2 DEF Ended
<1>7. ASSUME protect_entry PROVE Goes
  <2>1. /\ pc = "protect_entry" /\ pc' \in {"kernel", "lost"} /\ bios' = bios /\ memlayoutbuf' = memlayoutbuf
        /\ UNCHANGED <<LOADER_END, diskVars, mapVars, pageVars>>
    BY <1>7 DEF protect_entry, mapVars
  <2>2. LoaderInv'
    BY <1>1, <2>1, LoaderKept
  <2> QED BY <1>2, <2>1, <2>2 DEF Ended
<1>8. Goes
  BY <1>3, <1>4, <1>5, <1>6, <1>7 DEF Next
<1>9. EndsBackIn(added)' <=> EndsBackIn(added)
  <2>1. PICK n : n = added
    OBVIOUS
  <2>2. EndsBackIn(n)' <=> EndsBackIn(n)
    BY <1>8, MapKept
  <2>3. n = added'
    BY <2>1
  <2> QED BY <2>1, <2>2, <2>3
<1>10. Loop(added, acc)'
  <2>1. PICK n, a : n = added /\ a = acc
    OBVIOUS
  <2>2. Loop(n, a)'
    BY <1>1, <1>8, <2>1, MapKept
  <2>3. n = added' /\ a = acc'
    BY <2>1
  <2> QED BY <2>2, <2>3
<1>11. Measuring'
  <2>1. Len(memlayoutbuf') \in Nat
    BY <1>8 DEF LoaderInv, Layout
  <2>2. added' <= Len(memlayoutbuf')
    BY <1>1, <1>2, <1>8, <2>1 DEF Measuring
  <2> QED BY <1>1, <1>8, <1>9, <2>2 DEF Measuring, Ended
<1> QED BY <1>8, <1>10, <1>11 DEF BootInv

LEMMA AddStep ==
  ASSUME BootInv, AddRegion
  PROVE  BootInv'
<1>1. LoaderInv /\ Machine /\ Layout /\ Measuring /\ Loop(added, acc)
  BY DEF BootInv, LoaderInv
<1>2. /\ pc = "kernel" /\ IsMap /\ added < Len(memlayoutbuf) /\ added' = added + 1
      /\ acc' = add(acc, memlayoutbuf[added + 1])
      /\ pc' = (IF overflow_checks /\ acc'.underflow THEN "panic" ELSE "kernel")
      /\ UNCHANGED <<LOADER_END, diskVars, mapVars, pageVars>>
      /\ overflow_checks' = overflow_checks /\ size' = size
  BY DEF AddRegion
<1>3. bios' = bios /\ memlayoutbuf' = memlayoutbuf /\ memlayoutlen' = memlayoutlen
  BY <1>2 DEF mapVars
<1>4. LoaderInv'
  BY <1>1, <1>2, LoaderKept
<1>5. /\ overflow_checks \in BOOLEAN /\ added \in Nat /\ acc \in Accumulators /\ size = None
      /\ overflow_checks => ~acc.underflow /\ ~EndsBackIn(added)
  BY <1>1, <1>2 DEF Measuring, Ended
<1>6. /\ Len(memlayoutbuf) \in Nat /\ Len(memlayoutbuf) <= Len(bios) /\ Len(bios) \in Nat
      /\ \A k \in 1 .. Len(memlayoutbuf) : memlayoutbuf[k] = bios[k]
  BY <1>1 DEF Layout, Machine
<1>7. PICK n \in Nat : n = added
  BY <1>5
<1>8. PICK a \in Accumulators : a = acc
  BY <1>5
<1>9. PICK b : b = add(a, bios[n + 1])
  OBVIOUS
<1>10. acc' = b
  <2>1. n + 1 \in 1 .. Len(memlayoutbuf)
    BY <1>2, <1>6, <1>7
  <2>2. memlayoutbuf[n + 1] = bios[n + 1]
    BY <1>6, <2>1
  <2> QED BY <1>2, <1>7, <1>8, <1>9, <2>2
<1>11. n + 1 <= Len(bios) /\ n + 1 <= Len(memlayoutbuf)
  BY <1>2, <1>6, <1>7
<1>12. Loop(n, a)
  BY <1>1, <1>7, <1>8
<1>13. /\ b \in Accumulators /\ Loop(n + 1, b)
       /\ ~EndsBackIn(n) /\ ~a.underflow => (b.underflow <=> EndsBackIn(n + 1))
  BY <1>1, <1>9, <1>11, <1>12, LoopStep
<1>14. (Loop(n + 1, b)' <=> Loop(n + 1, b)) /\ (EndsBackIn(n + 1)' <=> EndsBackIn(n + 1))
  BY <1>3, MapKept
<1>15. added' = n + 1
  BY <1>2, <1>7
<1>16. Loop(added, acc)'
  <2>1. Loop(n + 1, b)'
    BY <1>13, <1>14
  <2> QED BY <1>10, <1>15, <2>1
<1>17. overflow_checks => (b.underflow <=> EndsBackIn(n + 1))
  BY <1>5, <1>7, <1>8, <1>13
<1>18. Measuring'
  <2>1. added' \in Nat /\ acc' \in Accumulators /\ added' <= Len(memlayoutbuf')
    BY <1>3, <1>10, <1>11, <1>13, <1>15
  <2>2. CASE overflow_checks /\ b.underflow
    <3>1. pc' = "panic"
      BY <1>2, <1>10, <2>2
    <3>2. EndsBackIn(Len(bios))
      BY <1>6, <1>11, <1>17, <2>2, BackLater
    <3>3. EndsBackIn(Len(bios))'
      <4>1. PICK m : m = Len(bios)
        BY Zenon
      <4>2. EndsBackIn(m)'
        BY <1>3, <3>2, <4>1, MapKept
      <4>3. m = Len(bios')
        BY <1>3, <4>1
      <4> QED BY <4>2, <4>3
    <3> QED BY <1>2, <1>5, <2>1, <2>2, <3>1, <3>3 DEF Measuring, Ended
  <2>3. CASE ~(overflow_checks /\ b.underflow)
    <3>1. pc' = "kernel"
      BY <1>2, <1>10, <2>3
    <3>2. overflow_checks => ~b.underflow /\ ~EndsBackIn(n + 1)
      BY <1>17, <2>3
    <3>3. overflow_checks' => ~acc'.underflow /\ ~EndsBackIn(added)'
      <4>1. overflow_checks => ~b.underflow /\ ~EndsBackIn(n + 1)'
        BY <1>14, <3>2
      <4> QED BY <1>2, <1>10, <1>15, <4>1
    <3> QED BY <1>2, <1>5, <2>1, <3>1, <3>3 DEF Measuring, Ended
  <2> QED BY <2>2, <2>3
<1> QED BY <1>4, <1>16, <1>18 DEF BootInv

\* main's steps after the loop leave map and accumulators alone.
LEMMA MainStep ==
  ASSUME BootInv, Measured \/ StrayPanics \/ PrintLayout \/ AllocateBox
  PROVE  BootInv'
<1>1. LoaderInv /\ Machine /\ Layout /\ Measuring /\ Loop(added, acc)
  BY DEF BootInv, LoaderInv
<1>2. /\ UNCHANGED <<LOADER_END, diskVars, mapVars, pageVars>>
      /\ overflow_checks' = overflow_checks /\ added' = added /\ acc' = acc
      /\ pc \in {"kernel", "measured", "printed"} /\ pc' \in {"measured", "panic", "printed", "lost", "hlt"}
  BY DEF Measured, StrayPanics, PrintLayout, AllocateBox
<1>3. bios' = bios /\ memlayoutbuf' = memlayoutbuf /\ memlayoutlen' = memlayoutlen
  BY <1>2 DEF mapVars
<1>4. LoaderInv'
  BY <1>1, <1>2, LoaderKept
<1>5. PICK n, a : n = added /\ a = acc
  OBVIOUS
<1>6. n = added' /\ a = acc'
  BY <1>2, <1>5
<1>7. Loop(added, acc)'
  <2>1. Loop(n, a)'
    BY <1>1, <1>3, <1>5, MapKept
  <2> QED BY <1>6, <2>1
<1>8. EndsBackIn(added)' <=> EndsBackIn(added)
  <2>1. EndsBackIn(n)' <=> EndsBackIn(n)
    BY <1>3, MapKept
  <2> QED BY <1>5, <1>6, <2>1
<1>9. IsMap' <=> IsMap
  BY <1>3 DEF IsMap
<1>10. size' = size /\ Returned => Returned'
  BY <1>2, <1>3, <1>8 DEF Returned
<1>11. Measuring'
  <2>1. CASE Measured
    <3>1. pc = "kernel" /\ pc' = "measured"
      BY <2>1 DEF Measured
    <3>2. acc.size \in Nat
      BY <1>1 DEF Measuring, Accumulators
    <3>3. size' \in Nat
      BY <2>1, <3>2, BootAssumption, Zenon DEF Measured
    <3>4. IsMap => size' = acc.size /\ added = Len(memlayoutbuf)
      BY <2>1 DEF Measured
    <3>5. IsMap => Len(memlayoutbuf) = Len(bios)
      BY <1>1, <3>1 DEF Layout, Checked
    <3>6. overflow_checks => ~EndsBackIn(added)
      BY <1>1, <3>1 DEF Measuring, Ended
    <3>7. IsMap => Returned'
      BY <1>2, <1>3, <1>8, <3>4, <3>5, <3>6 DEF Returned
    <3> QED BY <1>1, <1>2, <1>3, <1>9, <3>1, <3>3, <3>7 DEF Measuring, Ended
  <2>2. CASE StrayPanics
    <3>1. pc' = "panic" /\ ~IsMap
      BY <2>2 DEF StrayPanics
    <3> QED BY <1>1, <1>2, <1>3, <1>9, <3>1 DEF Measuring, Ended
  <2>3. CASE PrintLayout \/ AllocateBox
    <3>1. pc \in {"measured", "printed"} /\ size' = size /\ pc' \in {"printed", "lost", "hlt", "panic"}
      BY <2>3 DEF PrintLayout, AllocateBox
    <3>2. size \in Nat /\ (IsMap => Returned)
      BY <1>1, <3>1 DEF Measuring
    <3>3. IsMap' => Returned'
      BY <1>9, <1>10, <3>1, <3>2
    <3> QED BY <1>1, <1>2, <1>3, <3>1, <3>2, <3>3 DEF Measuring, Ended
  <2> QED BY <2>1, <2>2, <2>3
<1> QED BY <1>4, <1>7, <1>11 DEF BootInv

LEMMA BootStutters ==
  ASSUME BootInv, UNCHANGED bootVars
  PROVE  BootInv'
<1>1. /\ UNCHANGED <<LOADER_END, load_disk_cnt, d_lba, db_addr, memory, memlayoutlen, bios, memlayoutbuf>>
      /\ UNCHANGED <<cx, di, eax, pde, pte>>
      /\ UNCHANGED <<pc, overflow_checks, added, acc, size>>
  BY DEF bootVars, vars
<1>2. Machine'
  BY <1>1 DEF BootInv, LoaderInv, Machine
<1>3. T' = T /\ Marker' = Marker
  BY <1>1 DEF T, Marker, LOADER_DISK_TIME, LOADER_DISK_BLOCK_COUNT
<1>4. Transfers'
  <2>1. (Filled(128 * T)' <=> Filled(128 * T)) /\ (Filled(db_addr)' <=> Filled(db_addr))
    BY <1>1, <1>3 DEF Filled, Overwritten
  <2>2. FailsOnlyForTheMarker'
    BY <1>1 DEF BootInv, LoaderInv, Transfers, FailsOnlyForTheMarker, LOADER_DISK_TIME, LOADER_DISK_BLOCK_COUNT
  <2> QED BY <1>1, <1>3, <2>1, <2>2 DEF BootInv, LoaderInv, Transfers, Checked
<1>5. Layout'
  BY <1>1 DEF BootInv, LoaderInv, Layout, Checked, IsMap
<1>6. Pages'
  <2>1. (Directory(64)' <=> Directory(64)) /\ (Directory(di)' <=> Directory(di))
    BY <1>1 DEF Directory
  <2>2. (Frames(0)' <=> Frames(0)) /\ (Frames(di)' <=> Frames(di)) /\ (Frames(16)' <=> Frames(16))
    BY <1>1 DEF Frames
  <2> QED BY <1>1, <2>1, <2>2 DEF BootInv, LoaderInv, Pages
<1>7. PICK n, a, m : n = added /\ a = acc /\ m = Len(bios)
  BY Zenon
<1>8. n = added' /\ a = acc' /\ m = Len(bios')
  BY <1>1, <1>7
<1>9. Loop(added, acc)'
  <2>1. Loop(n, a)'
    BY <1>1, <1>7, MapKept DEF BootInv
  <2> QED BY <1>8, <2>1
<1>10. (EndsBackIn(added)' <=> EndsBackIn(added)) /\ (EndsBackIn(Len(bios))' <=> EndsBackIn(Len(bios)))
  <2>1. (EndsBackIn(n)' <=> EndsBackIn(n)) /\ (EndsBackIn(m)' <=> EndsBackIn(m))
    BY <1>1, MapKept
  <2> QED BY <1>7, <1>8, <2>1
<1>11. Measuring'
  BY <1>1, <1>10 DEF BootInv, Measuring, Returned, IsMap, Ended
<1> QED BY <1>2, <1>4, <1>5, <1>6, <1>9, <1>11 DEF BootInv, LoaderInv

\* The invariant holds throughout the boot, on every machine.
THEOREM BootInvariance == BootSpec => []BootInv
<1>1. BootInv /\ [BootNext]_bootVars => BootInv'
  <2> SUFFICES ASSUME BootInv, [BootNext]_bootVars PROVE BootInv'
    OBVIOUS
  <2>1. CASE Next /\ UNCHANGED <<overflow_checks, added, acc, size>>
    BY <2>1, LoaderSteps
  <2>2. CASE AddRegion
    BY <2>2, AddStep
  <2>3. CASE Measured \/ StrayPanics \/ PrintLayout \/ AllocateBox
    BY <2>3, MainStep
  <2>4. CASE UNCHANGED bootVars
    BY <2>4, BootStutters
  <2> QED BY <2>1, <2>2, <2>3, <2>4 DEF BootNext
<1> QED BY <1>1, BootInitial, PTL DEF BootSpec

----------------------------------------------------------------------------
(* What follows from it.                                                   *)

\* Whatever the size of the image and the memory map, the sectors missing after
\* loader.s's checks are those between two transfers and those that the
\* memory map takes.
THEOREM ImageLoaded == BootSpec => []OnlyGapsAreMissing
<1>1. BootInv => OnlyGapsAreMissing
  <2> SUFFICES ASSUME BootInv, Checked, NEW s \in 0 .. Marker
               PROVE  Holds(s) <=> ~InGap(s) /\ ~Overwritten(s)
    BY DEF OnlyGapsAreMissing, Marker
  <2>1. Filled(128 * T) /\ Marker < 128 * T
    BY DEF BootInv, LoaderInv, Transfers
  <2>2. T \in Nat /\ Marker \in 0 .. 128 * T
    BY Sectors DEF BootInv, LoaderInv, Machine
  <2>3. s \in 0 .. 128 * T /\ s < 128 * T
    BY <2>1, <2>2
  <2>4. memory[s] = IF ~InGap(s) /\ ~Overwritten(s) THEN s ELSE Stale
    BY <2>1, <2>3 DEF Filled
  <2>5. s # Stale
    BY <2>2 DEF Stale
  <2> QED BY <2>4, <2>5, Zenon DEF Holds
<1> QED BY <1>1, BootInvariance, PTL

\* Where the comment on END_CHECK is true: an image of up to 127 sectors, which
\* the first transfer reads without a gap, has been loaded in full when the
\* checks of loader.s pass.
THEOREM SmallImageComplete == BootSpec => [](LOADER_DISK_BLOCK_COUNT <= 127 => CheckedIsComplete)
<1>1. BootInv /\ OnlyGapsAreMissing => (LOADER_DISK_BLOCK_COUNT <= 127 => CheckedIsComplete)
  <2> DEFINE c == LOADER_DISK_BLOCK_COUNT
  <2> SUFFICES ASSUME BootInv, OnlyGapsAreMissing, c <= 127, Checked, memlayoutbuf = <<>>,
                      NEW s \in 0 .. c - 1
               PROVE  Holds(s)
    BY DEF CheckedIsComplete
  <2>1. LOADER_END \in Nat /\ LOADER_END >= 4097
    BY DEF BootInv, LoaderInv, Machine
  <2>2. c \in Nat /\ 512 * c <= LOADER_END + 511
    <3>1. LOADER_END + 511 \in Nat
      BY <2>1
    <3> QED BY <3>1, Div512 DEF LOADER_DISK_BLOCK_COUNT
  <2>3. SectorOf(LOADER_END + 3) \in Nat /\ LOADER_END + 3 < 512 * SectorOf(LOADER_END + 3) + 512
    <3>1. LOADER_END + 3 \in Nat
      BY <2>1
    <3> QED BY <3>1, Div512 DEF SectorOf
  <2> HIDE DEF c
  <2>4. s \in 0 .. SectorOf(LOADER_END + 3)
    BY <2>1, <2>2, <2>3
  <2>5. ~InGap(s)
    <3>1. s \in Nat /\ s < 127
      BY <2>2
    <3>2. s % 128 = s
      BY <3>1, SMT
    <3> QED BY <3>1, <3>2 DEF InGap, STRIDE, BLKCNT
  <2>6. ~Overwritten(s)
    BY DEF Overwritten
  <2> QED BY <2>4, <2>5, <2>6 DEF OnlyGapsAreMissing
<1> QED BY <1>1, ImageLoaded, BootInvariance, PTL

\* Whatever the size of the image, check_read of loader.s rejects what it has
\* read only because of the place of the marker.
THEOREM FailureExplained == BootSpec => []FailsOnlyForTheMarker
<1>1. BootInv => FailsOnlyForTheMarker
  BY DEF BootInv, LoaderInv, Transfers
<1> QED BY <1>1, BootInvariance, PTL

LEMMA TablesStand ==
  ASSUME BootInv, InKernel
  PROVE  Directory(64) /\ Frames(16)
BY DEF BootInv, LoaderInv, Pages, InKernel, Checked, NoDirectory, NoFrames

\* What an entry of the directory leads to.
LEMMA Leads ==
  ASSUME BootInv, InKernel, NEW m \in Nat, m < 64
  PROVE  /\ Translates(m, m) <=> m < 16
         /\ Translates(HIGH_PDE + m, m) <=> m < 16
<1>1. m \in 0 .. 64 - 1 /\ m \in 0 .. 63
  OBVIOUS
<1>2. pde[m] = m /\ pde[768 + m] = m
  BY <1>1, TablesStand DEF Directory
<1>3. pte[m] = IF m < 16 THEN m ELSE None
  BY <1>1, TablesStand DEF Frames
<1> QED BY <1>2, <1>3 DEF Translates, None, HIGH_PDE

\* Once the kernel runs the low 64 MiB are mapped twice by loader.s's tables:
\* what build_pde and build_pte leave behind when their loops have ended.
THEOREM LowMemoryMapped == BootSpec => []LowMemoryIsMapped
<1>1. BootInv => LowMemoryIsMapped
  <2> SUFFICES ASSUME BootInv, InKernel, NEW m \in 0 .. PTES - 1
               PROVE  Translates(m, m) /\ Translates(HIGH_PDE + m, m)
    BY DEF LowMemoryIsMapped
  <2>1. m \in Nat /\ m < 16 /\ m < 64
    BY DEF PTES
  <2> QED BY <2>1, Leads
<1> QED BY <1>1, BootInvariance, PTL

\* A page can be reached at 3 GiB if it is in the first 64 MiB.
LEMMA LowPages ==
  ASSUME BootInv, InKernel, NEW p \in Nat, p < 65536
  PROVE  Mapped(p) <=> p < 16384
<1> DEFINE m == p \div 1024
<1>1. m \in Nat /\ m < 64 /\ (m < 16 <=> p < 16384)
  OBVIOUS
<1> HIDE DEF m
<1>2. Translates(HIGH_PDE + m, m) <=> m < 16
  BY <1>1, Leads
<1>3. Mapped(p) <=> Translates(HIGH_PDE + m, m)
  BY DEF Mapped, m
<1> QED BY <1>1, <1>2, <1>3

LEMMA MemsizeType ==
  ASSUME BootInv, pc \in {"measured", "printed", "hlt"}
  PROVE  size \in Nat /\ memsize \in Nat /\ memsize < 4096 /\ InKernel
<1>1. size \in Nat
  BY DEF BootInv, Measuring
<1> QED BY <1>1 DEF memsize, InKernel, Checked

\* Whatever size is measured, the pages given to the page allocator are mapped
\* by loader.s's tables if and only if they are at most 63 MiB.
THEOREM ManagedMapped == BootSpec => []ManagedIsMapped
<1>1. BootInv => ManagedIsMapped
  <2> SUFFICES ASSUME BootInv, pc \in {"measured", "printed", "hlt"}
               PROVE  memsize <= 63 <=> \A a \in Managed : a < 4 * PDES /\ Mapped(256 * a)
    BY DEF ManagedIsMapped
  <2>1. memsize \in Nat /\ InKernel
    BY MemsizeType
  <2>2. ASSUME memsize <= 63, NEW a \in Managed PROVE a < 4 * PDES /\ Mapped(256 * a)
    <3>1. a \in Nat /\ a <= 63
      BY <2>1, <2>2 DEF Managed
    <3>2. 256 * a \in Nat /\ 256 * a < 16384 /\ 256 * a < 65536
      BY <3>1
    <3>3. Mapped(256 * a)
      BY <2>1, <3>2, LowPages
    <3> QED BY <3>1, <3>3 DEF PDES
  <2>3. ASSUME ~(memsize <= 63) PROVE \E a \in Managed : ~Mapped(256 * a)
    <3>1. 64 \in Managed
      BY <2>1, <2>3 DEF Managed
    <3>2. ~Mapped(256 * 64)
      <4>1. 256 * 64 \in Nat /\ 256 * 64 < 65536 /\ ~(256 * 64 < 16384)
        OBVIOUS
      <4> QED BY <2>1, <4>1, LowPages
    <3> QED BY <3>1, <3>2
  <2> QED BY <2>2, <2>3
<1> QED BY <1>1, BootInvariance, PTL

\* On its way to the hlt loop main touches only pages that loader.s's tables
\* map, whatever the image, the memory map and the size measured.
THEOREM TouchedMapped == BootSpec => []TouchedIsMapped
<1>1. BootInv => TouchedIsMapped
  <2> SUFFICES ASSUME BootInv, pc \in {"measured", "printed", "hlt"}
               PROVE  \A p \in (7 .. 14) \cup {184}
                         \cup (32 .. 32 + LOADER_END \div 4096)
                         \cup (32 .. 32 + (LAYOUT_OFFSET + ENTRY * memlayoutlen) \div 4096)
                         \cup (data_ptr .. base_addr) : Mapped(p)
    BY DEF TouchedIsMapped
  <2>1. memsize \in Nat /\ memsize < 4096 /\ InKernel
    BY MemsizeType
  <2>2. LOADER_END \in Nat /\ LOADER_END <= 520192 /\ memlayoutlen \in Nat /\ memlayoutlen <= 57005
    BY DEF BootInv, LoaderInv, Machine, Layout
  <2>3. ASSUME NEW p \in Nat, p < 16384 PROVE Mapped(p)
    BY <2>1, <2>3, LowPages
  <2> DEFINE image == LOADER_END \div 4096
             layout == (LAYOUT_OFFSET + ENTRY * memlayoutlen) \div 4096
  <2>4. image \in Nat /\ image <= 127
    BY <2>2
  <2>5. layout \in Nat /\ layout <= 279
    BY <2>2 DEF LAYOUT_OFFSET, ENTRY
  <2>6. base_addr \in Nat /\ base_addr <= 300 /\ data_ptr = 256
    <3>1. pagecnt \in Nat /\ pagecnt <= 1048320
      BY <2>1 DEF pagecnt
    <3>2. bitmap_size \in Nat /\ bitmap_size <= 131040
      BY <3>1 DEF bitmap_size
    <3>3. bitmap_pages \in Nat /\ bitmap_pages <= 33
      BY <3>2 DEF bitmap_pages
    <3> QED BY <3>3 DEF base_addr, data_ptr
  <2> HIDE DEF image, layout
  <2>7. ASSUME NEW p \in (7 .. 14) \cup {184} \cup (32 .. 32 + image) \cup (32 .. 32 + layout) \cup (data_ptr .. base_addr)
        PROVE  p \in Nat /\ p < 16384
    BY <2>4, <2>5, <2>6
  <2>8. \A p \in (7 .. 14) \cup {184} \cup (32 .. 32 + image) \cup (32 .. 32 + layout) \cup (data_ptr .. base_addr) : Mapped(p)
    BY <2>3, <2>7
  <2> QED BY <2>8 DEF image, layout
<1> QED BY <1>1, BootInvariance, PTL

LEMMA BackInAll ==
  ASSUME Machine
  PROVE  (EndsBack <=> EndsBackIn(Len(bios))) /\ (BeginsBack <=> BeginsBackIn(Len(bios)))
BY Zenon DEF EndsBack, BeginsBack, EndsBackIn, BeginsBackIn, End

\* What the loop has counted at its end.
LEMMA AllCounted ==
  ASSUME BootInv, Returned, ~EndsBack
  PROVE  /\ UsableMemory \in SUBSET (Nat \ {0}) /\ IsFiniteSet(UsableMemory)
         /\ size <= Cardinality(UsableMemory)
         /\ ~BeginsBack => size = Cardinality(UsableMemory)
<1>1. Machine /\ Loop(added, acc) /\ acc \in Accumulators /\ added = Len(bios) /\ size = acc.size
  BY DEF BootInv, LoaderInv, Measuring, Returned
<1>2. ~EndsBackIn(added)
  BY <1>1, BackInAll
<1>3. Greatest(added, acc) /\ Counted(added, acc)
  BY <1>1, <1>2 DEF Loop, Forward
<1>4. acc.last_end \in Nat /\ added \in Nat /\ added <= Len(bios)
  BY <1>1 DEF Accumulators, Machine
<1>5. \A j \in 1 .. added : IsUsable(bios[j]) => End(j) <= acc.last_end
  BY <1>3 DEF Greatest
<1>6. UsableIn(added) \in SUBSET (Nat \ {0}) /\ IsFiniteSet(UsableIn(added))
  BY <1>1, <1>4, <1>5, UsableBelow, Zenon
<1>7. UsableMemory = UsableIn(added)
  BY <1>1 DEF UsableMemory
<1> QED BY <1>1, <1>3, <1>6, <1>7, BackInAll DEF Counted

\* And when regions step back: at most what there is, or wrapped.
LEMMA AllSummed ==
  ASSUME BootInv, Returned
  PROVE  \/ size <= Cardinality(UsableMemory)
         \/ \E k \in 1 .. Len(bios) :
              IsUsable(bios[k]) /\ U64 - size <= Len(bios) * (bios[k].addr + bios[k].len)
<1>1. Machine /\ Signed(added, acc) /\ added = Len(bios) /\ size = acc.size
  BY DEF BootInv, LoaderInv, Loop, Returned
<1>2. PICK n \in Nat : n = Len(bios)
  BY <1>1 DEF Machine
<1>3. PICK s \in Int : size = s % U64 /\ Sums(n, acc.last_end, s)
  BY <1>1, <1>2 DEF Signed
<1>4. CASE s >= 0
  <2> DEFINE c == Cardinality(CountedBelow(n, acc.last_end))
             u == Cardinality(UsableIn(n))
  <2>1. s <= c
    BY <1>3 DEF Sums
  <2>2. c \in Nat /\ c <= u /\ u \in Nat
    BY <1>1, <1>2, BelowFinite, FS_CardinalityType
  <2>3. size \in Nat /\ size <= s
    BY <1>3, <1>4, U64Mod
  <2> HIDE DEF c, u
  <2>4. size <= u
    BY <2>1, <2>2, <2>3
  <2> QED BY <1>2, <2>4 DEF u, UsableMemory
<1>5. CASE s < 0
  <2>1. PICK k \in 1 .. n : IsUsable(bios[k]) /\ 0 - s <= n * End(k)
    BY <1>3, <1>5 DEF Sums
  <2>2. k \in 1 .. Len(bios)
    BY <1>2
  <2>3. End(k) \in Nat
    BY <1>1, <2>2, RegionType
  <2>4. U64 - size <= 0 - s /\ U64 - size \in Int
    BY <1>3, <1>5, U64Mod, U64Type
  <2>5. n * End(k) \in Nat
    BY <2>3, Reach
  <2>6. U64 - size <= n * End(k)
    BY <2>1, <2>4, <2>5
  <2> QED BY <1>2, <2>1, <2>2, <2>6 DEF End
<1> QED BY <1>4, <1>5

\* For every memory map: available_mem_size counts no more than there is, or
\* has wrapped below zero and misses 2^64 by little; it counts all there is when
\* the regions are sorted, and panics, in a debug build, exactly when one ends
\* before an earlier one.
THEOREM SizeCounted == BootSpec => []SizeIsUsable
<1>1. BootInv => SizeIsUsable
  <2> DEFINE Wrapped == \E k \in 1 .. Len(bios) :
               IsUsable(bios[k]) /\ U64 - size <= Len(bios) * (bios[k].addr + bios[k].len)
  <2> SUFFICES ASSUME BootInv, pc \in {"measured", "printed", "hlt", "panic"}, IsMap
               PROVE  /\ ~EndsBack /\ ~BeginsBack => size = Cardinality(UsableMemory)
                      /\ size <= Cardinality(UsableMemory) \/ (EndsBack /\ Wrapped)
                      /\ size = None <=> overflow_checks /\ EndsBack
    BY DEF SizeIsUsable
  <2>1. Machine /\ Measuring
    BY DEF BootInv, LoaderInv
  <2>2. CASE Returned
    <3>1. size # None
      BY <2>1, <2>2 DEF Returned, Measuring, Accumulators, None
    <3>2. overflow_checks => ~EndsBack
      BY <2>1, <2>2, BackInAll DEF Returned
    <3>3. size <= Cardinality(UsableMemory) \/ Wrapped
      BY <2>2, AllSummed
    <3>4. ~EndsBack => size <= Cardinality(UsableMemory)
      BY <2>2, AllCounted
    <3>5. ~EndsBack /\ ~BeginsBack => size = Cardinality(UsableMemory)
      BY <2>2, AllCounted
    <3> HIDE DEF Wrapped
    <3> QED BY <3>1, <3>2, <3>3, <3>4, <3>5, Zenon
  <2>3. CASE size = None /\ overflow_checks /\ EndsBackIn(Len(bios))
    <3>1. IsFiniteSet(UsableMemory)
      <4>1. Len(bios) \in Nat
        BY <2>1 DEF Machine
      <4> QED BY <2>1, <4>1, BelowFinite DEF UsableMemory
    <3>2. Cardinality(UsableMemory) \in Nat
      BY <3>1, FS_CardinalityType
    <3>3. size <= Cardinality(UsableMemory)
      BY <2>3, <3>2 DEF None
    <3>4. EndsBack
      BY <2>1, <2>3, BackInAll
    <3> HIDE DEF Wrapped
    <3> QED BY <2>3, <3>3, <3>4, Zenon
  <2> QED BY <2>1, <2>2, <2>3 DEF Measuring
<1> QED BY <1>1, BootInvariance, PTL

\* For every sorted memory map: PageAllocator::default manages usable memory
\* only if the map has no hole above 1 MiB, and only then unless the size is cut
\* to 32 bits.
THEOREM ManagedUsable == BootSpec => []ManagedIsUsable
<1>1. BootInv => ManagedIsUsable
  <2> DEFINE Whole == \A b \in UsableMemory : 1 .. b \subseteq UsableMemory
  <2> SUFFICES ASSUME BootInv, pc \in {"measured", "printed", "hlt"}, IsMap, ~EndsBack, ~BeginsBack
               PROVE  /\ Whole => Managed \subseteq UsableMemory
                      /\ ~Whole /\ size < 4096 => ~(Managed \subseteq UsableMemory)
    BY DEF ManagedIsUsable
  <2>1. Returned /\ size \in Nat
    BY DEF BootInv, Measuring
  <2>2. /\ UsableMemory \in SUBSET (Nat \ {0}) /\ IsFiniteSet(UsableMemory)
        /\ size = Cardinality(UsableMemory)
    BY <2>1, AllCounted
  <2>3. 1 .. size \subseteq UsableMemory <=> Whole
    BY <2>2, NoHole
  <2> HIDE DEF Whole
  <2>4. memsize \in Nat /\ memsize <= size /\ (size < 4096 => memsize = size)
    BY <2>1 DEF memsize
  <2>5. Managed \subseteq 1 .. size /\ (size < 4096 => Managed = 1 .. size)
    BY <2>1, <2>4 DEF Managed
  <2>6. Whole => Managed \subseteq UsableMemory
    BY <2>3, <2>5, Zenon
  <2>7. ASSUME ~Whole, size < 4096 PROVE ~(Managed \subseteq UsableMemory)
    <3>1. Managed = 1 .. size
      BY <2>5, <2>7
    <3>2. ~(1 .. size \subseteq UsableMemory)
      BY <2>3, <2>7
    <3> QED BY ONLY <3>1, <3>2
  <2> QED BY <2>6, <2>7
<1> QED BY <1>1, BootInvariance, PTL
=============================================================================
