# RondOS in TLA+

RondOS is a small x86 kernel in Rust with a boot loader in assembly. This
directory holds TLA+ models of it, the TLC configurations that check them, and
TLAPS proofs of all the safety properties that are checked. `PROJECT.json` lists
the runs, the source lines of every definition, the hazards and the theorems.

## The system and its parts

| part | source | operations | state | actors |
|---|---|---|---|---|
| boot loader | `src/loader.s` | disk transfers, check, E820, page tables, jump to the kernel | memory image, `memlayoutlen`, directory and tables | loader, BIOS |
| kernel main | `kernel/src/main.rs` | boot order, prints, `hlt` loop | `TICKS` | main |
| handlers | `main.rs`, `arch/x86/intr.rs` | timer, keyboard, exceptions, panic, EOI | interrupt table | one handler at a time above main |
| 8259A and 8254 set-up | `arch/x86/pic.rs` | `pic_init`, `pit_configure_channel` | controller registers | main, devices |
| lazy statics | `utils/singleton.rs` | `get`, `get_mut`, `init` | `inited`, `data` | every context |
| page allocator | `mm/page.rs` | `get_page`, `free_page`, bitmap | bitmap | main, through `Box` |
| global allocator, memory map | `mm/mod.rs`, `loader.rs` | `alloc`, `dealloc`, `available_mem_size` | - | main |
| VGA console | `io/vga.rs` | `putc`, scrolling, cursor, `clear` | `col_pos`, screen, CRT registers | main and keyboard handler |
| serial console | `io/serial.rs` | `init`, `send`, `send_raw`, `receive` | UART registers | main, panic |
| packed objects | `utils/mod.rs`, `arch/x86/mod.rs`, `arch/x86/intr.rs`, `mm/page.rs` | bit access, selectors, interrupt entries and options, table index, page table entries, bitmap bytes | a word, an entry, a byte array | their caller |
| threads | `thread/mod.rs` | none, unused structures | - | - |

There is one CPU and no scheduler. Concurrency comes from interrupt handlers,
which run to their end above the context they interrupt, and from devices.

## Modules

Components:

- `PageAllocator`: `alloc`, `dealloc` and `free_page` over the bits of the
  bitmap (`BitMap`), with every failed assertion leading to `halted`. The ghost
  `live` holds the blocks in use, `strays` counts calls of `free_page` that break
  its contract (`StrayFree`). `PagePool` is the abstract promise.
- `BitMapBytes`: the same bitmap as the bytes it is stored in, with `mark`,
  `clear`, `flip`, `set`, `sets`, `any` and the early returns of the scans.
- `BitAccess`: the trait `BitAccess`. A word is the set of its 1 bits; shifts and
  masks are what they do to such a set.
- `Descriptors`: what is packed with it: selectors, interrupt options and
  entries and their layout in memory, the order of the interrupt table and its
  `index`, page table entries.
- `Bits`: one client for each packed object, making any sequence of calls,
  next to a plain record `ref` of what it stored.
- `Singleton`: `init` with one action per access to shared memory. Nothing
  clears the statics of the image, so the state byte may start with any value.
- `Kernel`: `main`'s serial greeting, boot order and prints, the interrupt table,
  the master 8259A, the keyboard controller's output buffer, the handlers and the
  panic handler. `MainFails` is a panic in what `main` computes, `ColumnLost` a key
  inside a print of `main` that moves `col_pos` off the screen (`Vga` has the
  details); the print then panics, and so does the print of the panic handler,
  until the stack runs out or the column is back. It is composed with `Singleton` as `VGA_BUFFER`, whose contexts are the
  nesting depths of the interrupt stack, and with `Descriptors`: the gates the
  CPU reads are the entries that `set_handle_fn` packed.
- `Pit`: frequency to count, and the three port writes.
- `Loader`: disk transfers in sectors, the check, E820, the loops that fill the
  page directory (one entry a step) and the page tables (one table a step, with
  `di` wrapping at its segment), the jump.
- `Boot`: extends `Loader` with the kernel's use of what the loader leaves:
  `get_memlayout`, `available_mem_size` one region at a time, and the part of
  memory that `PageAllocator::default` takes, seen through the page tables. Debug
  builds (overflow panics) and release builds (overflow wraps) are both in it.
- `Vga`: `putc` and `clear` in steps of one access, main and keyboard handler
  interleaved, next to a reference terminal. `Cached` allows a build that keeps
  `col_pos` in a register: two live `&mut` to one object are undefined
  behaviour, so both outcomes are possible. Copying a row is one step.
- `Serial`: the writes of `init`, polling `send`, `send_raw` and `receive`, a
  UART with finite FIFOs in both directions.

`MCPageAllocator`, `MCBits`, `MCLoader` and `MCPit` give the constants of small
instances; the other modules need only their `.cfg`. The theorems are in
`PageAllocatorProofs`, `SingletonProofs`, `SerialProofs`, `KernelProofs`,
`BootProofs`, `BitsProofs` and `DriverProofs` (for `Vga` and `Pit`); `BitsProofs`
and `KernelProofs` rest on the lemmas of `DescriptorsProofs`.

Operators named `X_Something` next to `X` are plausible bugs of `X`; putting
one in place of `X` makes the property listed for it in `PROJECT.json` fail.

Devices and CPU (8259A, 8254, 16550, keyboard controller, interrupt delivery)
are modelled from how the code programs them, and are marked external.

## Runs

| run | what it shows |
|---|---|
| `page_allocator` | any order of `alloc` and `dealloc`: blocks disjoint, inside memory, bitmap exact, `PagePool` implemented; after a wrong free, still no page is marked that no live block owns |
| `bits` | every packed object holds what was stored, bit for bit, and assertions fail exactly for the calls that are out of range; the bitmap's bytes and their scans agree with the bits of `PageAllocator` |
| `singleton` | three racing contexts: from a cleared byte one initialiser and no late reset; a reference is to initialised data, and who waits has an initialiser to wait for, unless the byte said 2, or 1, at boot |
| `kernel` | no line is taken for an exception; every panic, and every reset, has one of four causes; no nesting; EOIs match their lines; timer and keyboard are served; handlers return; main comes to its `hlt` loop or that of the panic handler |
| `pit` | divisor nearest to the wanted rate, monotone in the frequency |
| `loader` | loading: exactly the gap sectors, and those the memory map overwrites, are missing; failures only because of the marker. Memory: low 64 MiB mapped twice; the counted size is the usable memory, or how far from it when regions end before earlier ones; when the managed memory is usable, and when it is mapped; nothing `main` touches is unmapped |
| `vga` | `putc` and `clear` equal a reference terminal up to the first key; only a key inside main's work on `col_pos` moves it off the screen; the cursor recovers after any interruption, modulo the 16 bits of its two registers |
| `serial` | line set up from any BIOS state; nothing sent is lost or reordered, nothing received either up to an overrun; sends end, and receives once a byte is there |

Three properties of `loader` say where the code stops being right, in both
directions. `ManagedIsUsable`: the allocator takes one piece of memory, so holes
in the E820 map are handed out. `ManagedIsMapped`: at most 63 MiB above the first
are mapped. `SizeIsUsable`: the size is exact for sorted maps and never more than
the usable memory, except that a region ending before an earlier one makes a
debug build panic and may take a release build below zero, where the sum wraps.

Four runs are expected to fail, each against a statement in the source:

- `pit_fast`: a count of 1 is programmed in mode 2 from 795454 Hz on
  (`pic.rs:96-97` says it is avoided). `main` only uses 200 Hz.
- `loader_complete`: 127 sectors are read every 128, so an image of more
  than 128 sectors can pass the check incomplete (`loader.s:302`).
- `loader_pages`: 64 directory entries, 16 page tables (`loader.s:175`).
- `vga_race`: a key between the test and the increment of `col_pos` moves it
  off the screen, and the next character panics (`singleton.rs:18`,
  `vga.rs:87`).

### Bounds

- Page allocator: 2-byte pages in a 64-byte address space. `AvailableMem`
  exceeds `UsizeMod`, so that its truncation to `usize` happens: 16 bytes
  remain, 8 pages, one of them for the bitmap. Requests need 1, 1, 2, 3 and 8
  pages: fragmentation, exhaustion, a search that runs into the end, and a
  request larger than the memory. One wrong free, at any point.
- Bits: words of 5 bits with all ranges and values; a bitmap of 10 bits in 3
  bytes, so that it has a partly used byte and one behind it, with runs of up to
  4 bits across the boundary. Gates, selectors and page table entries have their
  real widths, with a few addresses, indices and frames of all-zero, all-one and
  mixed bits.
- Singleton: three contexts give an initialiser, a waiter and a late caller;
  the state byte starts as each of its three states and as 3, for the others.
- Kernel: 4 events (edges and spurious interrupts), lines 2 and 4 without
  handlers, scancodes at the ends of the arrays, room for nesting depth 2 so
  that nesting could be seen and for two panics over one another, one region of
  the memory map to print, a state byte of 0 or 3. With 1 or 2 the kernel ends
  in its first print or prints through garbage, which `Singleton` shows.
- Pit: frequencies on both sides of every threshold.
- Loader: 13 image sizes around multiples of 512 bytes and of 127 and 128
  sectors; memory maps with holes, overlaps, disorder, nested regions, sums below zero, just
  within and just beyond the page tables and `usize`, and longer than the room
  for them. Sizes of regions are in MiB. `StraySizes` are sizes that a slice of
  57005 entries may add up to.
- Vga: 3 by 3 screen, one glyph, two keys.
- Serial: FIFOs of 2, and enough bytes both ways to overrun them.

Deadlock checking is off where the program really stops (panic loop, `hlt` with
no event left, loader failure) or where a bound ends the behaviour.

### Fairness

- `Singleton`: none. On the single CPU a handler that spins keeps the context
  it waits for from running, so only safety is claimed; `Kernel` shows that no
  handler ever has to wait.
- `Kernel`: the CPU executes main and handlers, and takes a deliverable
  interrupt; devices are not fair.
- `Serial`: the CPU executes a call it is in, and the UART shifts out. That
  calls are made or bytes arrive is not assumed.

## Proofs

Every invariant, action property and refinement that a passing run checks on a
small instance is a theorem for all values of the constants. A few theorems go
beyond the runs: how the kernel uses `Singleton`, and, for three of the four
failing runs, a condition under which the statement in the source is true
(`SmallImageComplete`, `TimerCountOfOne`, `ColumnKept`; the last one is also
checked, as `OnlyRacesLoseColumn`).

`PageAllocatorProofs`, for all page, memory and request sizes under the named
assumptions of `PageAllocator`. `LiveDisjoint` is not inductive: a new block is
disjoint from the others only because the bits it takes are clear and clear bits
belong to no block. `IInv` therefore joins type, range (`LiveInRange`), the exact
bitmap (`BitsMatch`, stated on `Bits` so that it also holds before the first use)
and disjointness. A wrong free destroys the exact bitmap in one direction; `SInv`
keeps the other, and `AllInv` is `SInv`, and `IInv` as long as `strays = 0`. Lemmas
about `contains`, `find`, `flips` and division carry the argument; `find` needs
the least-element principle from `WellFoundedInduction`. `Refinement` shows that
first fit takes a step of `PagePool`, and that a panic in `alloc` happens only when
no run fits (`FitsIffClear`).

`BootProofs`, for every set of machines: any image from 4097 to 520192 bytes,
any memory map of 1 to 3000 regions that end below `U64`, which stands for 2^64
bytes (2^30 MiB in the model, so that TLC's integers hold it). `LoaderInv` says how far
the transfers have come and which sector every sector of memory holds
(`Transfers`), which of them the memory map has overwritten (`Layout`), and what
directory and tables contain after each turn of their loops (`Pages`, from
`Directory` and `Frames`). For `available_mem_size` the loop has two invariants.
`Forward` holds up to the first region that ends before an earlier one: `last_end`
is the greatest end so far (`Greatest`), and `size` is at most, and for sorted
regions exactly, the number of MiB in their union (`Counted`). `Signed` holds always:
`size` is, modulo `U64`, an integer that is at most the usable MiB below `last_end`
(`CountedBelow`) and that each turn lowers by at most one end of a region (`Sums`),
which gives both bounds of `SizeIsUsable` in a release build. `ManagedUsable` rests
on `NoHole`: as many MiB from the first on as are usable are all usable if and only
if the usable memory has no hole. Cardinalities of intervals and unions
come from `FiniteSetTheorems`.

`KernelProofs`, for any set of unhandled master lines among 2..6, any scancodes,
regions, number of events and nesting bound. `HandlersDoNotNest` needs to know
that the interrupt flag is off while a handler runs, which needs the gates in the
table to be interrupt gates: a fact about the bits that `set_handle_addr` packs.
`IInv` joins how far the boot has come and what the table holds (`Booting`), in
which stages main prints (`Printing`), the lines (`LinesOK`), which handler runs,
how far it is and whether its line is in service (`Serving`). `PanicInv` adds the
panics: their causes are known, a handler panics only for scancode 0 or a lost
column, and without a lost column main and a handler panic at most once each, for
which the stack has room.
`KernelUsesSingleton` shows that every
behaviour of the kernel is one of `Singleton` with the nesting depths as contexts.
`VgaInv` adds that the greeting has initialised `VGA_BUFFER` before interrupts are
on, hence that no handler waits for it (`HandlersNeverWait`, the safety behind
`HandlersReturn`). `KernelTypes` needs `Edges` to bound `TICKS`: each
tick was an event or the edge pending at boot, and an edge that is requested, or
with a handler that has still to count it, is not among the ticks yet.

`SerialProofs`, for any bytes, FIFO size and number of calls. `Programmed` gives
the registers after each write of `init`, whatever the BIOS left; `Sending` adds to
`NothingLost` that a `send` which has seen `OUTPUT_EMPTY` still finds the FIFO empty;
`Receiving` likewise that a seen byte is still there.

`BitsProofs`, for words of any width, bitmaps of any size, and any addresses,
indices and frames. Calls panic exactly if they are out of range, and words hold
what was stored. For the packed objects `FieldsInv` says that the object is the
packing of the record (`Entry`, `Packed`, `selector_new`, `Pte`); each setter takes a
packing to a packing, and the decoding of packings is proved once, in
`DescriptorsProofs`, with the lemmas on shifts, masks, `get_bits` and `set_bits` and
with the places of the fields in the interrupt table. For the bitmap `BytesInv`
says that the memory is the one whose one bits are those of the map and of the
garbage behind its last byte (`MemOf`, `Ones`). The loops are recursive functions:
each is shown to equal a closed form, which satisfies its equation (so that the
`CHOOSE` behind it has a value) and cannot first differ from it in any turn
(`LoopInduction` and `ScanInduction`, on sets instead of predicates, from the
least-element principle). `ContainsAgrees` and `FindAgrees` then compare the closed
forms with `BitMap`.

`DriverProofs`, for screens of any size with at least two rows and columns and
any bytes, and for any arguments of `pit_configure_channel`. `ColInv` says which value
of `col_pos` each step of `putc` holds, as long as no key has crossed it. `ShowsTerminal` speaks
of the moments between two calls; `Alone` extends it to every step of `putc` and
`clear` by what the screen will be when the call ends (`Pending`): the terminal is
always that. `CursorInv` says of each of the four port writes which bytes of the
target position are in place, unless a key came in between. The assumption that
the screen has at most 2^16 cells is used only by `CursorExact`. For the timer,
`TimerInv` follows the bytes of the count, and `CountIs` bounds the rounded quotient
from both sides; the products need the nonlinear facts one at a time.

`SingletonProofs`, for any set of contexts and any byte at boot (the ghost `boot`).
`ReferencesInitialised` and `WaitsHaveInitialiser` say which bytes break the promise;
`SingleInitialiser` and `UsedIsNeverReset` speak of a cleared byte, because with
garbage two contexts may both take the arm `Err(_)`.

Only model-checked: liveness (`TimerServed`, `KeyServed`,
`HandlersReturn`, `MainComesToRest`, `SendsEnd`, `ReceivesEnd`), because fairness and
`ENABLED` are outside the prover's reach, and the four expected violations, which
are counterexamples.

## Plan

Done: all parts with state, their composition up to the first `Box`, and the
proofs above. What would follow: `Vga` composed with `Kernel`, so that the
interleavings of `putc` come from the interrupt controller; today each has its own
bound on interruptions.

## Not modelled

- A20, GDT, SSE and the mode switch: straight-line machine set-up without
  branches.
- Text formatting, colours and `Debug` implementations; `get_kernel_size`, which
  is only printed.
- `enable_cursor` and `disable_cursor`: private and never called. `inb`, `outb`,
  `esp` and the like: single instructions, present as the device accesses of the
  other modules.
- Exceptions raised by `main` itself: `TouchedIsMapped` shows that it meets no
  page fault on its way, and it executes no breakpoint. Their handlers are in
  `Kernel`.
- Alignments above a page in `alloc`: no such type is allocated.
- Threads (unused structures), build scripts, and the `Drop` of `Singleton`
  (every one is a static).
