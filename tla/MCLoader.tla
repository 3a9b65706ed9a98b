------------------------------ MODULE MCLoader ------------------------------
EXTENDS Boot

\* One transfer and several, with the end of the kernel on both sides of a
\* sector boundary, of a gap and of the last transfer.
MCImageBytes ==
  {4097, 60000, 127 * 512 - 2, 127 * 512, 127 * 512 + 1, 128 * 512 - 1, 128 * 512,
   128 * 512 + 1, 255 * 512 - 4, 255 * 512, 256 * 512, 100000, 150000}

R(addr, len, kind) == [addr |-> addr, len |-> len, kind |-> kind]
U(addr, len) == R(addr, len, "Usable")
Low == U(0, 1)

\* 32 MiB; no more than the low one; just within the page tables and just not;
\* 128 MiB; a hole below 16 MiB and one at 1 MiB; regions that overlap, that are
\* out of order, one inside another, one that fills a gap late; a sum that goes
\* below zero, once and again; sizes that do not fit usize; and more regions than
\* the loader has room for, with and without the entry point lost.
MCMaps == {
  <<Low, U(1, 31), R(32, 1, "ACPIReclaimable")>>,
  <<Low, R(1, 1, "Reserved")>>,
  <<Low, U(1, 63)>>, <<Low, U(1, 64)>>,
  <<Low, U(1, 127), R(128, 1, "Reserved")>>,
  <<Low, U(1, 14), R(15, 1, "Reserved"), U(16, 32)>>,
  <<Low, R(1, 1, "Bad"), U(2, 30)>>,
  <<Low, U(1, 20), U(10, 30)>>,
  <<U(16, 16), U(1, 15), Low>>,
  <<Low, U(1, 40), U(8, 8)>>, <<Low, U(1, 2), U(10, 10), U(5, 20)>>,
  <<U(20, 4), U(1, 2)>>, <<U(20, 4), U(1, 2), U(30, 4), U(1, 2)>>,
  <<Low, U(1, 4200)>>, <<Low, U(1, 3071), U(4096, 1024)>>, <<Low, U(1, 3071), U(4096, 2048)>> }
Long(n) == [i \in 1 .. n |-> IF i = 2 THEN U(1, 31) ELSE R(0, 1, "Reserved")]

MCMachines ==
  (MCImageBytes \X {<<Low, U(1, 31), R(32, 1, "ACPIReclaimable")>>})
  \cup ({60000} \X (MCMaps \cup {Long(178), Long(179), Long(181)}))

MCStraySizes == {0, 31, 4095, 4097}
=============================================================================
