-------------------------- MODULE MCPageAllocator --------------------------
(* PageAllocator on a few small pages: 2-byte pages, so that a bitmap page *)
(* holds 16 bits, in a 64-byte address space.                              *)
EXTENDS PageAllocator

MCReqSizes == {1, 2, 3, 6, 15}
MCStrayPtrs == {18, 19, 20, 22, 26, 2, 62}
MCStrayCnts == {1, 2}
=============================================================================
