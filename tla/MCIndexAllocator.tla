-------------------------- MODULE MCIndexAllocator --------------------------
(* A small instance of IndexAllocator, with indices in use on both sides of *)
(* the limit.                                                              *)
EXTENDS IndexAllocator

Around == 0..MaxIndex + 2

=============================================================================
