---------------------------- MODULE Descriptors ----------------------------
(***************************************************************************)
(* The words and tables that the kernel shares with the CPU: segment       *)
(* selectors and privilege levels (arch/x86/mod.rs), the entries of the    *)
(* interrupt table and the table's layout (arch/x86/intr.rs), page table   *)
(* entries (mm/page.rs) and pg_round_down (mm/mod.rs), as the words of     *)
(* BitAccess.                                                              *)
(***************************************************************************)
EXTENDS Integers, Sequences, BitAccess

\* The numbers 0 to 3; from_u16 panics on anything else.
PrivilegeLevel == SUBSET {0, 1}
Ring0 == {}

----------------------------------------------------------------------------
(* SegmentSelector.                                                        *)

selector_new(index, rpl) == Shl(index, 3, 16) \cup rpl
selector_index(sel) == Shr(sel, 3)
selector_rpl(sel) == get_bits(sel, HalfOpen(0, 2), 16)
set_rpl(sel, rpl) == set_bits(sel, HalfOpen(0, 2), rpl, 16)

----------------------------------------------------------------------------
(* InterruptOption and InterruptEntry.                                     *)

is_trap(opt) == get_bit(opt, 8)
set_trap(opt, val) == set_bit(opt, 8, val)
privilege_level(opt) == get_bits(opt, Closed(13, 14), 16)
set_privilege_level_HalfOpen(opt, val) == set_bits(opt, HalfOpen(12, 14), val, 16)
set_privilege_level(opt, val) == set_bits(opt, Closed(13, 14), val, 16)
is_present(opt) == get_bit(opt, 15)
set_present(opt, val) == set_bit(opt, 15, val)

\* InterruptOption::new starts from 0b0000111000000000.
option_new(trap, level, present) ==
  set_present(set_privilege_level(set_trap({9, 10, 11}, trap), level), present)

entry_default ==
  [pointer_low |-> {}, gdt_selector |-> {}, pointer_middle |-> {},
   options |-> option_new(FALSE, Ring0, FALSE)]

set_handle_addr_Trap(pointer, cs) ==
  [pointer_low |-> pointer \cap (0 .. 15), gdt_selector |-> cs,
   pointer_middle |-> Shr(pointer, 16), options |-> option_new(TRUE, Ring0, TRUE)]
set_handle_addr(pointer, cs) ==
  [pointer_low |-> pointer \cap (0 .. 15), gdt_selector |-> cs,
   pointer_middle |-> Shr(pointer, 16), options |-> option_new(FALSE, Ring0, TRUE)]

\* The eight bytes of the packed structure, as the CPU reads them.
InMemory(e) ==
  e.pointer_low \cup Shl(e.gdt_selector, 16, 64) \cup Shl(e.options, 32, 64)
  \cup Shl(e.pointer_middle, 48, 64)

----------------------------------------------------------------------------
(* InterruptDescriptorTable.                                               *)

\* The fields in the order of the structure, with their numbers of entries.
Fields == <<
  <<"divide_error", 1>>, <<"debug", 1>>, <<"non_maskable_interrupt", 1>>,
  <<"breakpoint", 1>>, <<"overflow", 1>>, <<"bound_range_exceeded", 1>>,
  <<"invalid_opcode", 1>>, <<"device_not_available", 1>>, <<"double_fault", 1>>,
  <<"coprocessor_segment_overrun", 1>>, <<"invalid_tss", 1>>,
  <<"segment_not_present", 1>>, <<"stack_segment_fault", 1>>,
  <<"general_protection_fault", 1>>, <<"page_fault", 1>>, <<"reserved_1", 1>>,
  <<"x87_floating_point", 1>>, <<"alignment_check", 1>>, <<"machine_check", 1>>,
  <<"simd_floating_point", 1>>, <<"virtualization", 1>>, <<"reserved_2", 9>>,
  <<"security_exception", 1>>, <<"reserved_3", 1>>, <<"interrupts", 224>> >>

\* The number of entries before the k-th field.
Before[k \in 1 .. Len(Fields)] ==
  IF k = 1 THEN 0 ELSE Before[k - 1] + Fields[k - 1][2]

\* The place of an entry in the table: the vector for which the CPU uses it.
Vector(field, i) ==
  Before[CHOOSE k \in DOMAIN Fields : Fields[k][1] = field] + i

\* The entry that index and index_mut give access to.  They panic for the
\* vectors in Refused, which are reserved or push an error code.
Refused == {8} \cup (10 .. 15) \cup {17, 18} \cup (21 .. 31)
exceptions(i) ==
  CASE i \in 0 .. 7 ->
         <<(<<"divide_error", "debug", "non_maskable_interrupt", "breakpoint", "overflow",
              "bound_range_exceeded", "invalid_opcode", "device_not_available">>)[i + 1], 0>>
    [] i = 9 -> <<"coprocessor_segment_overrun", 0>>
    [] i = 16 -> <<"x87_floating_point", 0>>
    [] i = 19 -> <<"simd_floating_point", 0>>
    [] i = 20 -> <<"virtualization", 0>>
index_OffByOne(i) ==
  IF i \in 32 .. 255 THEN <<"interrupts", i - 31>> ELSE exceptions(i)
index(i) ==
  IF i \in 32 .. 255 THEN <<"interrupts", i - 32>> ELSE exceptions(i)

----------------------------------------------------------------------------
(* PageTableEntry.                                                         *)

present(pte) == get_bit(pte, 0)
rw(pte) == get_bit(pte, 1)
is_user(pte) == get_bit(pte, 2)
write_through(pte) == get_bit(pte, 3)
cache_disable(pte) == get_bit(pte, 4)
accessed(pte) == get_bit(pte, 5)
dirty(pte) == get_bit(pte, 6)
page_attribute(pte) == get_bit(pte, 7)
global(pte) == get_bit(pte, 8)
available(pte) == get_bits(pte, Closed(9, 11), 32)
addr(pte) == Shl(get_bits(pte, Closed(12, 31), 32), 12, 32)

pg_round_down(a) == a \cap Not(0 .. 11, 32)
============================================================================
