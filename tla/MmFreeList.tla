----------------------------- MODULE MmFreeList -----------------------------
(***************************************************************************)
(* Size-class index and free-list set of mm.c: find_class, is_head,        *)
(* insert_free, remove_free.                                               *)
(*                                                                         *)
(* s.seg is seg_list, a function 0..LENGTH-1 -> block address or NULL;     *)
(* s.mini is mini_list.  A free non-mini block keeps its prev link in the  *)
(* word at block+8 and its next link at block+16; a free mini block keeps  *)
(* its only (next) link at block+8.                                        *)
(***************************************************************************)
EXTENDS MmBlock, FiniteSets

LENGTH == 14

\* Lower bounds of classes 1..13; the class of a size is the number of
\* bounds it reaches (find_class's chain of "asize < bound" tests).
ClassBound == <<32, 64, 128, 256, 512, 1024, 2048, 3072, 4096,
                6656, 8192, 16384, 32768>>

find_class(asize) == Cardinality({i \in 1..13 : ClassBound[i] <= asize})

PrevLink(block) == block + wsize
NextLink(block) == block + 2 * wsize
MiniNext(block) == block + wsize

\* Class index if the block is the head of the list of its size class.
is_head(s, block) ==
  LET class == find_class(get_size(s, block))
  IN  IF s.seg[class] = block THEN class ELSE -1

\* Seeded fault (CheckHeapHolds): a push onto a non-empty seg list that
\* does not point the old head's prev link back at the new head.
insert_free_no_back_link(s, block) ==
  IF is_mini_block(s, block)
  THEN [Wr(s, MiniNext(block), s.mini) EXCEPT !.mini = block]
  ELSE LET class == find_class(get_size(s, block))
           curr  == s.seg[class]
       IN  Wr(Wr([s EXCEPT !.seg[class] = block], NextLink(block), curr),
              PrevLink(block), NULL)

\* Seeded fault (FreeListsExact): a mini push that always takes the
\* empty-list branch, dropping the blocks already on the mini list.
insert_free_mini_reset(s, block) ==
  IF is_mini_block(s, block)
  THEN [Wr(s, MiniNext(block), NULL) EXCEPT !.mini = block]
  ELSE LET class == find_class(get_size(s, block))
           curr  == s.seg[class]
           s1    == [s EXCEPT !.seg[class] = block]
       IN  IF curr # NULL
           THEN Wr(Wr(s1, PrevLink(curr), block), NextLink(block), curr)
           ELSE Wr(Wr(s1, NextLink(block), NULL), PrevLink(block), NULL)

\* LIFO push.  On a non-empty list the new head's prev link is left as it
\* was: only the old head's prev and the new head's next are written.
insert_free(s, block) ==
  IF is_mini_block(s, block)
  THEN \* both branches of the C code store the old head (NULL if empty)
       [Wr(s, MiniNext(block), s.mini) EXCEPT !.mini = block]
  ELSE LET class == find_class(get_size(s, block))
           curr  == s.seg[class]
           s1    == [s EXCEPT !.seg[class] = block]
       IN  IF curr # NULL
           THEN Wr(Wr(s1, PrevLink(curr), block), NextLink(block), curr)
           ELSE Wr(Wr(s1, NextLink(block), NULL), PrevLink(block), NULL)

\* The mini-list element whose next link is block (the while loop of
\* remove_free); NULL if the walk falls off the list.
RECURSIVE mini_pred(_, _, _)
mini_pred(s, block, curr) ==
  IF curr = NULL THEN NULL
  ELSE IF Rd(s, MiniNext(curr)) = block THEN curr
  ELSE mini_pred(s, block, Rd(s, MiniNext(curr)))

\* Seeded faults (MCMm3): the middle case of a bucket unlink without its
\* back link (CheckHeapHolds), and unlinked as if it were the tail
\* (FreeListsExact).  Both need a bucket of three or more blocks.
remove_free_no_back_link(s, block) ==
  IF is_mini_block(s, block)
  THEN IF Rd(s, MiniNext(s.mini)) = NULL
       THEN [s EXCEPT !.mini = NULL]
       ELSE IF block = s.mini
       THEN [s EXCEPT !.mini = Rd(s, MiniNext(s.mini))]
       ELSE Wr(s, MiniNext(mini_pred(s, block, s.mini)),
               Rd(s, MiniNext(block)))
  ELSE LET prev     == Rd(s, PrevLink(block))
           next     == Rd(s, NextLink(block))
           head_ind == is_head(s, block)
       IN  IF head_ind # -1
           THEN [s EXCEPT !.seg[head_ind] = next]
           ELSE Wr(s, NextLink(prev), next)

remove_free_middle_as_tail(s, block) ==
  IF is_mini_block(s, block)
  THEN IF Rd(s, MiniNext(s.mini)) = NULL
       THEN [s EXCEPT !.mini = NULL]
       ELSE IF block = s.mini
       THEN [s EXCEPT !.mini = Rd(s, MiniNext(s.mini))]
       ELSE Wr(s, MiniNext(mini_pred(s, block, s.mini)),
               Rd(s, MiniNext(block)))
  ELSE LET prev     == Rd(s, PrevLink(block))
           head_ind == is_head(s, block)
       IN  IF head_ind # -1
           THEN [s EXCEPT !.seg[head_ind] = Rd(s, NextLink(block))]
           ELSE Wr(s, NextLink(prev), NULL)

\* Unlink.  The mini list is emptied outright when it has one element; a
\* removed seg-list head leaves the new head's prev link unchanged.
remove_free(s, block) ==
  IF is_mini_block(s, block)
  THEN IF Rd(s, MiniNext(s.mini)) = NULL
       THEN [s EXCEPT !.mini = NULL]
       ELSE IF block = s.mini
       THEN [s EXCEPT !.mini = Rd(s, MiniNext(s.mini))]
       ELSE Wr(s, MiniNext(mini_pred(s, block, s.mini)),
               Rd(s, MiniNext(block)))
  ELSE LET prev     == Rd(s, PrevLink(block))
           next     == Rd(s, NextLink(block))
           head_ind == is_head(s, block)
       IN  IF head_ind # -1
           THEN [s EXCEPT !.seg[head_ind] = next]
           ELSE IF next = NULL
           THEN Wr(s, NextLink(prev), NULL)
           ELSE Wr(Wr(s, NextLink(prev), next), PrevLink(next), prev)
=============================================================================
