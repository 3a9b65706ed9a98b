------------------------------- MODULE MCBits -------------------------------
EXTENDS Bits

\* Handlers at 0, at 0xc0022000 and at addresses with the bits on both sides
\* of each boundary set or cleared.
MCPointers == {{}, {13, 17, 30, 31}, {0, 15, 16, 31}, 0 .. 31}
MCIndices == {{}, {0}, {0, 12}, 0 .. 12}
MCFrames == {{}, {0}, {8, 19}, 0 .. 19}
=============================================================================
