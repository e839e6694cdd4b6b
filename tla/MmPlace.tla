------------------------------ MODULE MmPlace ------------------------------
(***************************************************************************)
(* Coalescer and placement engine of mm.c: coalesce_block, extend_heap,    *)
(* split_block, find_fit; and memlib's mem_sbrk, which extend_heap and     *)
(* mm_init call.                                                           *)
(*                                                                         *)
(* A C function with a result returns a record [st, ret]: the allocator    *)
(* state after the function and its return value.                          *)
(***************************************************************************)
EXTENDS MmFreeList

CONSTANTS
  HeapLo,   \* mem_heap_lo(): address of the first heap byte
  MaxHeap   \* memlib's MAX_HEAP: bytes the break may advance in all

ASSUME HeapLo \in Nat /\ HeapLo > 0 /\ HeapLo % 16 = 0
ASSUME MaxHeap \in Nat /\ HeapLo + MaxHeap < Word \div 2

SBRK_FAILED == SIZE_MAX   \* the all-ones pointer mem_sbrk returns on failure

(***************************************************************************)
(* memlib (not part of src/): mem_sbrk takes an intptr_t; a negative       *)
(* increment, or one that passes mem_max_addr, fails, returning all-ones, and *)
(* leaves the break alone.  Memory it hands out is not initialised.       *)
(*                                                                         *)
(* Fault model: s.refuse = k > 0 makes the k-th mem_sbrk of the current    *)
(* API call fail as well, as a system sbrk may refuse any request (spec.md *)
(* 4.7, "sbrk refuses extension").  memlib itself never does: its runs use *)
(* k = 0 only.                                                             *)
(***************************************************************************)
mem_sbrk(s, incr) ==
  LET t == [s EXCEPT !.refuse = max(@ - 1, 0)]
  IN  IF incr >= Word \div 2 \/ s.brk + incr > HeapLo + MaxHeap \/ s.refuse = 1
      THEN [st |-> t, ret |-> SBRK_FAILED]
      ELSE [st |-> [t EXCEPT !.brk = @ + incr], ret |-> s.brk]

(***************************************************************************)
(* coalesce_block: the four boundary cases.  prev is only located (and     *)
(* only read) when the block's prev_alloc bit is clear.  The helpers below *)
(* are the steps of a case, applied to the state the previous step left.   *)
(***************************************************************************)
\* Case two: prev grows over the block, keeping prev's own flag bits.
merge_prev(s, prev, current_size) ==
  write_pack(s, prev, current_size + get_size(s, prev), FALSE,
             get_prev_alloc(s, prev), get_prev_mini(s, prev))

\* Case four: prev grows over the block and next.
merge_both(s, prev, next, current_size) ==
  write_pack(s, prev, current_size + get_size(s, prev) + get_size(s, next),
             FALSE, get_prev_alloc(s, prev), get_prev_mini(s, prev))

\* Case three: the block grows over next.
merge_next(s, block, total_size) ==
  write_pack(s, block, total_size, FALSE, TRUE, get_prev_mini(s, block))

\* Cases three and four: the block after the absorbed next loses both
\* prev bits (its left neighbour is now a free non-mini block).
clear_next_next(s, next) ==
  LET next_next == find_next(s, next)
  IN  write_pack(s, next_next, get_size(s, next_next),
                 get_alloc(s, next_next), FALSE, FALSE)

coalesce_block(s, block) ==
  LET current_size == get_size(s, block)
      prev_alloc   == get_prev_alloc(s, block)
      prev         == find_prev(s, block)
      next         == find_next(s, block)
      next_alloc   == get_alloc(s, next)
      next_size    == get_size(s, next)
  IN
  CASE prev_alloc /\ next_alloc ->
         [st  |-> insert_free(write_pack(s, next, next_size, TRUE, FALSE,
                                         is_mini_block(s, block)), block),
          ret |-> block]
    [] ~prev_alloc /\ next_alloc ->
         [st  |-> insert_free(
                    write_pack(merge_prev(remove_free(s, prev), prev,
                                          current_size),
                               next, next_size, TRUE, FALSE, FALSE), prev),
          ret |-> prev]
    [] prev_alloc /\ ~next_alloc ->
         [st  |-> insert_free(
                    clear_next_next(merge_next(remove_free(s, next), block,
                                               current_size + next_size),
                                    next), block),
          ret |-> block]
    [] ~prev_alloc /\ ~next_alloc ->
         [st  |-> insert_free(
                    clear_next_next(
                      merge_both(remove_free(remove_free(s, prev), next),
                                 prev, next, current_size), next), prev),
          ret |-> prev]

(***************************************************************************)
(* extend_heap: the new free block's header overwrites the old epilogue    *)
(* and inherits its prev bits; a new epilogue goes at the new end; then    *)
(* the block is coalesced.                                                 *)
(***************************************************************************)
new_epilogue(s, block) ==
  write_epilogue(s, find_next(s, block), get_alloc(s, block),
                 is_mini_block(s, block))

extend_block(s, block, size) ==
  coalesce_block(
    new_epilogue(write_pack(s, block, size, FALSE, get_prev_alloc(s, block),
                            get_prev_mini(s, block)), block),
    block)

extend_heap(s, size) ==
  LET asize == round_up(size, dsize)
      r     == mem_sbrk(s, asize)
  IN  IF r.ret = SBRK_FAILED THEN [st |-> r.st, ret |-> NULL]
      ELSE extend_block(r.st, payload_to_header(r.ret), asize)

(***************************************************************************)
(* split_block: carve asize off an allocated block; the remainder is       *)
(* written free with prev_alloc set.  The right neighbour's prev_alloc is  *)
(* "cleared" with write_prev_alloc(_, false), which writes nothing.        *)
(***************************************************************************)
\* write_prev_alloc(find_next(block), prev_alloc)
write_next_prev_alloc(s, block, prev_alloc) ==
  write_prev_alloc(s, find_next(s, block), prev_alloc)

\* Seeded fault (BoundaryTagsConsistent): the remainder's prev_mini bit
\* not set after a 16-byte block is split off.
split_rest_no_mini(s, block_next, rest, asize) ==
  [st  |-> write_next_prev_alloc(
             write_pack(s, block_next, rest, FALSE, TRUE, FALSE),
             block_next, FALSE),
   ret |-> block_next]

split_rest(s, block_next, rest, asize) ==
  [st  |-> write_next_prev_alloc(
             write_pack(s, block_next, rest, FALSE, TRUE,
                        asize = min_block_size), block_next, FALSE),
   ret |-> block_next]

split_block(s, block, asize) ==
  LET block_size == get_size(s, block)
      rest       == (block_size - asize) % Word
      s1         == write_pack(s, block, asize, TRUE,
                               get_prev_alloc(s, block), get_prev_mini(s, block))
  IN  IF rest >= min_block_size
      THEN split_rest(s1, find_next(s1, block), rest, asize)
      ELSE [st |-> s, ret |-> NULL]

(***************************************************************************)
(* find_fit: the mini-list head for a 16-byte request; otherwise, from the *)
(* request's class upward, the first class whose list yields a block.      *)
(* Within a list the scan keeps the smallest fitting block so far and      *)
(* returns it at the first fitting block that is not smaller.              *)
(***************************************************************************)
RECURSIVE scan_class(_, _, _, _)
scan_class(s, asize, block, best) ==
  IF block = NULL THEN best
  ELSE IF ~get_alloc(s, block) /\ asize <= get_size(s, block)
  THEN IF best = NULL \/ get_size(s, block) < get_size(s, best)
       THEN scan_class(s, asize, Rd(s, NextLink(block)), block)
       ELSE best
  ELSE scan_class(s, asize, Rd(s, NextLink(block)), best)

\* Seeded fault (FitSoundAndComplete): the search gives up after the
\* request's own class instead of moving on to larger classes.
fit_in_first_class(s, asize, i) ==
  IF i >= LENGTH THEN NULL ELSE scan_class(s, asize, s.seg[i], NULL)

RECURSIVE fit_from_class(_, _, _)
fit_from_class(s, asize, i) ==
  IF i >= LENGTH THEN NULL
  ELSE LET best == scan_class(s, asize, s.seg[i], NULL)
       IN  IF best # NULL THEN best ELSE fit_from_class(s, asize, i + 1)

find_fit(s, asize) ==
  IF asize = min_block_size /\ s.mini # NULL THEN s.mini
  ELSE fit_from_class(s, asize, find_class(asize))
=============================================================================
