------------------------------ MODULE FindFit ------------------------------
(***************************************************************************)
(* find_fit of mm.c, checked as an algorithm over bounded bucket contents. *)
(* The state is what find_fit reads: the sizes of the blocks on each       *)
(* bucket (in list order), whether the mini list is empty, and the         *)
(* request.  Blocks join a bucket at its head, as insert_free pushes them. *)
(* The heap find_fit walks is laid out from that state: each block has a   *)
(* free header and a next link, at addresses apart enough not to overlap.  *)
(***************************************************************************)
EXTENDS MmPlace, SequencesExt

CONSTANTS
  BucketSizes,  \* class -> block sizes a free block of that class may have
  ASizes,       \* adjusted request sizes (multiples of 16)
  MaxLen        \* longest bucket considered

VARIABLES buckets, mini_free, asize

vars == <<buckets, mini_free, asize>>

Classes == DOMAIN BucketSizes

Addr(i, k) == HeapLo + 1024 * i + 128 * k
MiniAddr   == HeapLo + 1024 * LENGTH

\* The word at a: a block's header, or its next link (NextLink = +16).
Word_at(a) ==
  LET i == (a - HeapLo) \div 1024
      k == ((a - HeapLo) % 1024) \div 128
  IN  IF a = MiniAddr THEN pack_all(min_block_size, FALSE, TRUE, FALSE)
      ELSE IF (a - HeapLo) % 128 = 0
      THEN pack_all(buckets[i][k], FALSE, TRUE, FALSE)
      ELSE IF k < Len(buckets[i]) THEN Addr(i, k + 1) ELSE NULL

\* The allocator state find_fit sees.
Layout ==
  LET hdrs == {Addr(i, k) : i \in Classes, k \in 1..MaxLen}
      used == {a \in hdrs : ((a - HeapLo) % 1024) \div 128 <= Len(buckets[(a - HeapLo) \div 1024])}
  IN  [mem   |-> [a \in used \cup {NextLink(h) : h \in used}
                    \cup (IF mini_free THEN {MiniAddr} ELSE {}) |-> Word_at(a)],
       seg   |-> [i \in 0..LENGTH-1 |->
                    IF i \in Classes /\ buckets[i] # <<>> THEN Addr(i, 1) ELSE NULL],
       mini  |-> IF mini_free THEN MiniAddr ELSE NULL,
       start |-> NULL,
       brk   |-> MiniAddr + dsize]

Fit == find_fit(Layout, asize)

Init ==
  /\ buckets = [i \in Classes |-> <<>>]
  /\ mini_free = FALSE
  /\ asize \in ASizes

\* insert_free of a block of size z into bucket i: a LIFO push.
Push(i, z) ==
  /\ Len(buckets[i]) < MaxLen
  /\ buckets' = [buckets EXCEPT ![i] = <<z>> \o @]
  /\ UNCHANGED <<mini_free, asize>>

PushMini ==
  /\ ~mini_free
  /\ mini_free' = TRUE
  /\ UNCHANGED <<buckets, asize>>

Ask(a) ==
  /\ asize' = a
  /\ UNCHANGED <<buckets, mini_free>>

Next ==
  \/ \E i \in Classes : \E z \in BucketSizes[i] : Push(i, z)
  \/ PushMini
  \/ \E a \in ASizes : Ask(a)

Spec == Init /\ [][Next]_vars

SizeOf(b) == get_size(Layout, b)
Fits(b)   == asize <= SizeOf(b)

\* Blocks of the buckets find_fit may search for this request, with the
\* mini-list head when the request is a mini block.
Searched ==
  ({Addr(i, k) : i \in {c \in Classes : c >= find_class(asize)},
                 k \in 1..MaxLen} \cap DOMAIN Layout.mem)
  \cup (IF asize = min_block_size /\ mini_free THEN {MiniAddr} ELSE {})

(***************************************************************************)
(* Properties.                                                             *)
(***************************************************************************)
\* find_fit (the mini shortcut, then buckets upward from the request's
\* class) returns a free block large enough, and returns NULL only when
\* no block of a searched bucket fits: malloc extends the heap only when
\* it must.
FitSoundAndComplete ==
  /\ Fit # NULL => Fit \in Searched /\ Fits(Fit)
  /\ Fit = NULL => \A b \in Searched : ~Fits(b)

\* spec.md section 4 (find_fit): within the first bucket with a fit, the
\* scan keeps the smallest fitting block and halts at the first fitting
\* block LARGER than the best so far.  The reference scan below is that
\* sentence; the code halts at one that is not smaller.
RECURSIVE SpecScan(_, _)
SpecScan(b, best) ==
  IF b = NULL THEN best
  ELSE IF ~Fits(b) THEN SpecScan(Rd(Layout, NextLink(b)), best)
  ELSE IF best = NULL \/ SizeOf(b) < SizeOf(best)
  THEN SpecScan(Rd(Layout, NextLink(b)), b)
  ELSE IF SizeOf(b) > SizeOf(best) THEN best
  ELSE SpecScan(Rd(Layout, NextLink(b)), best)

RECURSIVE SpecFit(_)
SpecFit(i) ==
  IF i >= LENGTH THEN NULL
  ELSE IF SpecScan(Layout.seg[i], NULL) # NULL THEN SpecScan(Layout.seg[i], NULL)
  ELSE SpecFit(i + 1)

FitMatchesSpec ==
  Fit = IF asize = min_block_size /\ mini_free THEN MiniAddr
        ELSE SpecFit(find_class(asize))
=============================================================================
