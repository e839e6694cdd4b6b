------------------------------ MODULE MmCheck ------------------------------
(***************************************************************************)
(* The invariant checker of mm.c: mm_checkheap and its helpers, which the  *)
(* debug build asserts on entry to and exit from every API call.  It walks *)
(* the implicit list from heap_start to the epilogue and each seg_list     *)
(* bucket; it does not look at the mini list.                              *)
(***************************************************************************)
EXTENDS MmPlace

epilogue(s) == s.brk - wsize   \* mem_heap_hi() - 7

check_prologue_epilogue(s) ==
  /\ extract_alloc(Rd(s, HeapLo))
  /\ get_alloc(s, epilogue(s))
  /\ extract_size(Rd(s, HeapLo)) = 0
  /\ get_size(s, epilogue(s)) = 0

check_alignment(block) == header_to_payload(block) % 16 = 0

check_boundary(s, block) == HeapLo <= block /\ block <= s.brk - 1

check_non_consecutive_free(s, block) ==
  ~(~get_alloc(s, block) /\ ~get_alloc(s, find_next(s, block)))

\* The mini status of the block is taken from its right neighbour.
check_header_footer_match(s, block) ==
  ~(/\ ~get_alloc(s, block)
    /\ ~get_prev_mini(s, find_next(s, block))
    /\ Rd(s, block) # Rd(s, header_to_footer(s, block)))

check_block_size(s, block) ==
  get_size(s, block) >= min_block_size /\ get_size(s, block) % 16 = 0

\* The while loop of general_heap_checker.  Each block that passes the size
\* and boundary checks moves the walk strictly forward inside the heap.
RECURSIVE heap_walk(_, _)
heap_walk(s, curr) ==
  IF curr = epilogue(s) THEN TRUE
  ELSE /\ check_alignment(curr)
       /\ check_boundary(s, curr)
       /\ check_block_size(s, curr)
       /\ check_header_footer_match(s, curr)
       /\ check_non_consecutive_free(s, curr)
       /\ heap_walk(s, find_next(s, curr))

general_heap_checker(s) ==
  check_prologue_epilogue(s) /\ heap_walk(s, s.start)

\* One bucket of check_list.  A cyclic list would keep the C loop running
\* forever; the walk gives up (fails) after more nodes than the heap holds.
RECURSIVE list_walk(_, _, _, _)
list_walk(s, i, curr, fuel) ==
  IF curr = NULL THEN TRUE
  ELSE LET next == Rd(s, NextLink(curr))
       IN  /\ fuel > 0
           /\ check_boundary(s, curr)
           /\ next # NULL => Rd(s, PrevLink(next)) = curr
           /\ find_class(get_size(s, curr)) = i
           /\ list_walk(s, i, next, fuel - 1)

check_list(s) ==
  \A i \in 0..LENGTH-1 : list_walk(s, i, s.seg[i], MaxHeap \div dsize)

mm_checkheap(s) == general_heap_checker(s) /\ check_list(s)
=============================================================================
