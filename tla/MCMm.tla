-------------------------------- MODULE MCMm --------------------------------
(***************************************************************************)
(* Model-checking instances of Mm: a 16-bit size_t and two client          *)
(* pointers.  The request sizes reach each placement path: 1 byte (a mini  *)
(* block), 24 bytes (a 32-byte block split off a larger free block), 48    *)
(* bytes (a 64-byte block: with chunksize 64 the second one extends the    *)
(* heap), and a calloc whose product overflows.                            *)
(***************************************************************************)
EXTENDS Mm

MCSlots == {1, 2}
MCRequests == {1, 24, 48}
MCCallocArgs == {<<2, 12>>, <<3, 21846>>}

\* Three pointers with fewer sizes: enough live and free blocks at once for
\* buckets of several nodes inside the full API model.
MCSlots3 == {1, 2, 3}
MCRequests3 == {1, 24}
MCCallocArgs3 == {<<2, 12>>}

\* memlib's mem_sbrk fails only at its limit.
MCNoRefusals == {0}

\* A system sbrk may refuse any of the (at most three) mem_sbrk calls of
\* one API call: mm_init's two and extend_heap's.
MCRefusals == {0, 1, 2, 3}

\* spec.md section 8, scenario 4: zeroed_allocate(1, SIZE_MAX) returns nil.
MCHugeCallocArgs == {<<1, SIZE_MAX>>}
=============================================================================
