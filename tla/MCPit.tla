------------------------------- MODULE MCPit -------------------------------
EXTENDS Pit

\* Both sides of every clamp and of the rounding, and TIMER_FREQ.
MCFrequencies ==
  {1, 18, 19, 20, 200, 1193, 65535, 795453, 795454, PIT_HZ, PIT_HZ + 1}
============================================================================
