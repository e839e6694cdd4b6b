--------------------------------- MODULE Mm ---------------------------------
(***************************************************************************)
(* The public API of mm.c (mm_init, malloc, free, realloc, calloc) driven  *)
(* by a trace client that holds its pointers in a fixed set of Slots.      *)
(*                                                                         *)
(* Each API call is one atomic step: the allocator is single-threaded and  *)
(* never suspends, so no other call can interleave with its writes.  The   *)
(* step also performs what the driver does with the result: after a       *)
(* successful malloc it fills the payload.  Client data is abstracted to   *)
(* the payload's first word, which the driver sets to Tag(slot); memcpy    *)
(* and memset act on that word.                                            *)
(***************************************************************************)
EXTENDS MmCheck, SequencesExt

CONSTANTS
  Slots,      \* the client's pointer variables
  Requests,   \* sizes passed to malloc and realloc
  CallocArgs, \* <<elements, size>> pairs passed to calloc
  SbrkRefusals \* which mem_sbrk of a call is refused (0: none; see mem_sbrk)

ASSUME Requests \subseteq 0..SIZE_MAX
ASSUME CallocArgs \subseteq (0..SIZE_MAX) \X (0..SIZE_MAX)
ASSUME 0 \in SbrkRefusals /\ SbrkRefusals \subseteq Nat

VARIABLES
  mem,        \* heap words: byte address -> word_t
  seg_list,   \* class -> first block of its free list, or NULL
  mini_list,  \* first block of the mini list, or NULL
  heap_start, \* first block header, NULL before mm_init
  mem_brk,    \* memlib's break: one past the last heap byte
  ptr,        \* client: slot -> payload pointer held, or NULL
  req         \* client: slot -> size requested for that pointer

alloc_vars  == <<mem, seg_list, mini_list, heap_start, mem_brk>>
client_vars == <<ptr, req>>
vars        == <<alloc_vars, client_vars>>

\* Distinct first-word contents the driver writes into each slot's block:
\* odd values with bit 3 set, never a packed header nor a block address.
Tag(sl) == 9 + 2 * sl

\* The allocator's state at the start of a call in which the f-th mem_sbrk
\* is refused (f = 0: none is).
Call(f) == [mem |-> mem, seg |-> seg_list, mini |-> mini_list,
            start |-> heap_start, brk |-> mem_brk, refuse |-> f]

St == Call(0)

Apply(t) ==
  /\ mem' = t.mem
  /\ seg_list' = t.seg
  /\ mini_list' = t.mini
  /\ heap_start' = t.start
  /\ mem_brk' = t.brk

(***************************************************************************)
(* memlib's byte operations (not part of src/).  The client token lives in *)
(* the first payload byte, so a copy of n >= 1 bytes carries the first    *)
(* word; memset stores c in every word of the range.                      *)
(***************************************************************************)
memcpy(s, dst, src, n) == IF n > 0 THEN Wr(s, dst, Rd(s, src)) ELSE s
memset(s, dst, c, n) ==
  [s EXCEPT !.mem = [a \in {x \in dst..(dst + n - 1) : x % wsize = 0} |-> c] @@ @]

\* The driver writes the n requested bytes at p: the first word carries the
\* token d, the other words hold client bytes the model does not track
\* (they read as Junk).
Fill(s, p, n, d) ==
  LET keep == {a \in DOMAIN s.mem : a < p \/ a >= p + n}
  IN  [s EXCEPT !.mem = (p :> d) @@ [a \in keep |-> s.mem[a]]]

(***************************************************************************)
(* mm_init: prologue and epilogue words, empty lists, one chunk.  A failed *)
(* extend_heap leaves heap_start set.                                      *)
(***************************************************************************)
init_heap(s, start) ==
  [Wr(Wr([s EXCEPT !.seg = [i \in 0..LENGTH-1 |-> NULL], !.mini = NULL],
         start, pack_all(0, TRUE, FALSE, FALSE)),
      start + wsize, pack_all(0, TRUE, TRUE, FALSE))
   EXCEPT !.start = start + wsize]

init_result(e) == [st |-> e.st, ret |-> e.ret # NULL]

mm_init(s) ==
  LET r == mem_sbrk(s, 2 * wsize)
  IN  IF r.ret = SBRK_FAILED THEN [st |-> r.st, ret |-> FALSE]
      ELSE init_result(extend_heap(init_heap(r.st, r.ret), chunksize))

(***************************************************************************)
(* malloc: lazy mm_init, size 0 ignored, asize = round_up(size + 8, 16),   *)
(* find_fit or else extend_heap, then remove, mark allocated, set the      *)
(* right neighbour's prev_alloc, split, and coalesce the remainder.        *)
(***************************************************************************)
\* write_pack(block, get_size(block), alloc, <the block's own prev bits>)
write_alloc(s, block, alloc) ==
  write_pack(s, block, get_size(s, block), alloc,
             get_prev_alloc(s, block), get_prev_mini(s, block))

coalesce_split(sp) ==
  IF sp.ret # NULL THEN coalesce_block(sp.st, sp.ret).st ELSE sp.st

place(s, block, asize) ==
  [st  |-> coalesce_split(
             split_block(
               write_next_prev_alloc(write_alloc(remove_free(s, block), block,
                                                 TRUE), block, TRUE),
               block, asize)),
   ret |-> header_to_payload(block)]

place_extended(ext, asize) ==
  IF ext.ret = NULL THEN [st |-> ext.st, ret |-> NULL]
  ELSE place(ext.st, ext.ret, asize)

\* Seeded fault (TypeOK): the heap always grows by chunksize,
\* even for a request larger than one chunk.
malloc_sized_chunk_only(s, asize) ==
  LET fit == find_fit(s, asize)
  IN  IF fit # NULL THEN place(s, fit, asize)
      ELSE place_extended(extend_heap(s, chunksize), asize)

malloc_sized(s, asize) ==
  LET fit == find_fit(s, asize)
  IN  IF fit # NULL THEN place(s, fit, asize)
      ELSE place_extended(extend_heap(s, max(asize, chunksize)), asize)

\* Seeded fault (CheckHeapHolds): mm_init's result is ignored, so a malloc
\* whose mm_init failed goes on to search and extend the heap anyway.
malloc_inited_unchecked(i, size) ==
  IF size = 0 THEN [st |-> i.st, ret |-> NULL]
  ELSE malloc_sized(i.st, round_up((size + wsize) % Word, dsize))

malloc_inited(i, size) ==
  CASE ~i.ret    -> [st |-> i.st, ret |-> NULL]
    [] size = 0  -> [st |-> i.st, ret |-> NULL]
    [] OTHER     -> malloc_sized(i.st, round_up((size + wsize) % Word, dsize))

malloc(s, size) ==
  malloc_inited(IF s.start = NULL THEN mm_init(s) ELSE [st |-> s, ret |-> TRUE],
                size)

\* free: clear alloc, "clear" the neighbour's prev_alloc (a no-op), coalesce.
free(s, bp) ==
  LET block == payload_to_header(bp)
  IN  IF bp = NULL THEN s
      ELSE coalesce_block(write_next_prev_alloc(write_alloc(s, block, FALSE),
                                                block, FALSE), block).st

\* Seeded fault (AllocatorRefinement): the old block freed before the
\* copy, so free's list links overwrite the data being moved.
realloc_free_first(m, p, size) ==
  LET copysize == get_size(m.st, payload_to_header(p)) - wsize
  IN  IF m.ret = NULL THEN [st |-> m.st, ret |-> NULL]
      ELSE [st  |-> memcpy(free(m.st, p), m.ret, p,
                           IF size < copysize THEN size ELSE copysize),
            ret |-> m.ret]

\* Seeded fault (NoLeakedBlock): the old block is freed even when the new
\* malloc failed, although the client keeps the old pointer.
realloc_free_on_failure(m, p, size) ==
  LET copysize == get_size(m.st, payload_to_header(p)) - wsize
  IN  IF m.ret = NULL THEN [st |-> free(m.st, p), ret |-> NULL]
      ELSE [st  |-> free(memcpy(m.st, m.ret, p,
                                IF size < copysize THEN size ELSE copysize), p),
            ret |-> m.ret]

\* Seeded fault (NoLeakedBlock): the copy is made but the old block is
\* never freed.
realloc_no_free(m, p, size) ==
  LET copysize == get_size(m.st, payload_to_header(p)) - wsize
  IN  IF m.ret = NULL THEN [st |-> m.st, ret |-> NULL]
      ELSE [st  |-> memcpy(m.st, m.ret, p,
                           IF size < copysize THEN size ELSE copysize),
            ret |-> m.ret]

\* realloc after a successful or failed malloc m: copy min(size, old
\* payload) bytes, then free the old block.
realloc_copy(m, p, size) ==
  LET copysize == get_size(m.st, payload_to_header(p)) - wsize
  IN  IF m.ret = NULL THEN [st |-> m.st, ret |-> NULL]
      ELSE [st  |-> free(memcpy(m.st, m.ret, p,
                                IF size < copysize THEN size ELSE copysize), p),
            ret |-> m.ret]

\* realloc: never in place; the old block is freed after the copy.
realloc(s, p, size) ==
  CASE size = 0 -> [st |-> free(s, p), ret |-> NULL]
    [] p = NULL -> malloc(s, size)
    [] OTHER    -> realloc_copy(malloc(s, size), p, size)

calloc_zero(m, asize) ==
  IF m.ret = NULL THEN [st |-> m.st, ret |-> NULL]
  ELSE [st |-> memset(m.st, m.ret, 0, asize), ret |-> m.ret]

\* calloc: the product wraps modulo 2^WordBits; the division detects it.
calloc(s, elements, size) ==
  LET asize == (elements * size) % Word
  IN  CASE elements = 0               -> [st |-> s, ret |-> NULL]
        [] asize \div elements # size -> [st |-> s, ret |-> NULL]
        [] OTHER                      -> calloc_zero(malloc(s, asize), asize)

(***************************************************************************)
(* The specification.                                                      *)
(***************************************************************************)
Init ==
  /\ mem = [a \in {} |-> 0]
  /\ seg_list = [i \in 0..LENGTH-1 |-> NULL]
  /\ mini_list = NULL
  /\ heap_start = NULL
  /\ mem_brk = HeapLo
  /\ ptr = [sl \in Slots |-> NULL]
  /\ req = [sl \in Slots |-> 0]

\* The driver calls mm_init once, before any other call.
MmInit(f) ==
  /\ heap_start = NULL
  /\ Apply(mm_init(Call(f)).st)
  /\ UNCHANGED client_vars

\* What the driver does with the result r of a call on slot sl that
\* requested n bytes: keep the pointer, and fill a fresh block with d.
Returned(sl, n, r, d) ==
  /\ Apply(IF r.ret = NULL THEN r.st ELSE Fill(r.st, r.ret, n, d))
  /\ ptr' = [ptr EXCEPT ![sl] = r.ret]
  /\ req' = [req EXCEPT ![sl] = IF r.ret = NULL THEN 0 ELSE n]

Malloc(sl, n, f) ==
  /\ ptr[sl] = NULL
  /\ Returned(sl, n, malloc(Call(f), n), Tag(sl))

Free(sl) ==
  /\ Apply(free(St, ptr[sl]))
  /\ ptr' = [ptr EXCEPT ![sl] = NULL]
  /\ req' = [req EXCEPT ![sl] = 0]

\* On failure (r.ret = NULL, n > 0) the client keeps its old pointer.
\* After a realloc(NULL, n) the driver fills the block with its token;
\* after a move the block keeps the copied one.
Reallocated(sl, n, r) ==
  \/ /\ r.ret = NULL /\ n > 0
     /\ Apply(r.st)
     /\ UNCHANGED client_vars
  \/ /\ r.ret # NULL \/ n = 0
     /\ Returned(sl, n, r, IF ptr[sl] = NULL THEN Tag(sl) ELSE Rd(r.st, r.ret))

Realloc(sl, n, f) == Reallocated(sl, n, realloc(Call(f), ptr[sl], n))

\* calloc's memset has already zeroed the block: the driver writes nothing.
Callocated(sl, n, r) ==
  /\ Apply(r.st)
  /\ ptr' = [ptr EXCEPT ![sl] = r.ret]
  /\ req' = [req EXCEPT ![sl] = IF r.ret = NULL THEN 0 ELSE n]

Calloc(sl, a, f) ==
  /\ ptr[sl] = NULL
  /\ Callocated(sl, (a[1] * a[2]) % Word, calloc(Call(f), a[1], a[2]))

Next ==
  \/ \E f \in SbrkRefusals : MmInit(f)
  \/ \E sl \in Slots :
       \/ \E n \in Requests, f \in SbrkRefusals :
            Malloc(sl, n, f) \/ Realloc(sl, n, f)
       \/ \E a \in CallocArgs, f \in SbrkRefusals : Calloc(sl, a, f)
       \/ Free(sl)

Spec == Init /\ [][Next]_vars

(***************************************************************************)
(* Views of the state used by the properties.                             *)
(***************************************************************************)
IsHeapWord(a) == HeapLo <= a /\ a < mem_brk /\ a % wsize = 0

\* The implicit list: headers from heap_start up to the epilogue, walked by
\* size as find_next does; the walk stops at a size-0 word and is bounded
\* by the largest number of blocks the heap can hold.
RECURSIVE BlocksFrom(_, _, _)
BlocksFrom(s, b, fuel) ==
  IF fuel = 0 \/ get_size(s, b) = 0 THEN <<>>
  ELSE <<b>> \o BlocksFrom(s, find_next(s, b), fuel - 1)

Blocks(s) ==
  IF s.start = NULL THEN <<>> ELSE BlocksFrom(s, s.start, MaxHeap \div dsize)

\* Words some code path reads: the prologue, every header, the epilogue,
\* the footer and links of each free block, the token of each live block.
\* Each is written before it becomes one of these.  The other words are
\* stale bytes inside blocks, and the prev link of a bucket head, which
\* insert_free never writes and remove_free reads but does not use for a
\* head; MCMm fingerprints states by these words only (VIEW).
ReadableWords ==
  LET s    == St
      fb   == {b \in ToSet(Blocks(s)) : ~get_alloc(s, b)}
      head(b) == \E i \in 0..LENGTH-1 : seg_list[i] = b
  IN  {HeapLo, mem_brk - wsize} \cup ToSet(Blocks(s))
      \cup {header_to_footer(s, b) : b \in {f \in fb : ~is_mini_block(s, f)}}
      \cup {PrevLink(b) : b \in {f \in fb : is_mini_block(s, f) \/ ~head(f)}}
      \cup {NextLink(b) : b \in fb}
      \cup {ptr[sl] : sl \in {x \in Slots : ptr[x] # NULL}}

StateView ==
  << [a \in ReadableWords \cap DOMAIN mem |-> mem[a]],
     seg_list, mini_list, heap_start, mem_brk, ptr, req >>

(***************************************************************************)
(* Type invariant.  Every word the allocator has written lies inside the   *)
(* heap that sbrk has handed out (a write through a wrong pointer lands    *)
(* outside it).                                                            *)
(***************************************************************************)
TypeOK ==
  /\ \A a \in DOMAIN mem : IsHeapWord(a) /\ mem[a] \in 0..SIZE_MAX
  /\ DOMAIN seg_list = 0..LENGTH-1
  /\ \A i \in 0..LENGTH-1 : seg_list[i] = NULL \/ IsHeapWord(seg_list[i])
  /\ mini_list = NULL \/ IsHeapWord(mini_list)
  /\ heap_start \in {NULL, HeapLo + wsize}
  /\ mem_brk \in HeapLo..(HeapLo + MaxHeap)
  /\ DOMAIN ptr = Slots /\ DOMAIN req = Slots
  /\ \A sl \in Slots : /\ ptr[sl] = NULL \/ IsHeapWord(ptr[sl])
                       /\ req[sl] \in 0..SIZE_MAX

(***************************************************************************)
(* Safety properties.                                                      *)
(***************************************************************************)
Heap == St

\* The debug build's own contract: mm_checkheap holds whenever an API call
\* starts or returns (dbg_requires/dbg_ensures in malloc, free, realloc,
\* calloc), i.e. in every state after mm_init.
CheckHeapHolds == heap_start # NULL => mm_checkheap(Heap)

\* spec.md invariant 5: the prev_alloc and prev_mini bits of every header
\* (the epilogue's included) describe the block to its left, and the first
\* block sees the allocated, non-mini prologue.  The bits are maintained
\* by free, split_block and coalesce_block together: write_prev_alloc(_,
\* false) writes nothing and relies on the following coalesce.
BoundaryTagsConsistent ==
  heap_start # NULL =>
    /\ get_prev_alloc(Heap, heap_start) /\ ~get_prev_mini(Heap, heap_start)
    /\ \A b \in ToSet(Blocks(Heap)) :
         LET n == find_next(Heap, b)
         IN  /\ get_prev_alloc(Heap, n) = get_alloc(Heap, b)
             /\ get_prev_mini(Heap, n) = is_mini_block(Heap, b)

\* The nodes of a list, following the link at offset off from each node;
\* a cyclic list shows up as a repeated node.
RECURSIVE ListFrom(_, _, _, _)
ListFrom(s, b, off, fuel) ==
  IF b = NULL \/ fuel = 0 THEN <<>>
  ELSE <<b>> \o ListFrom(s, Rd(s, b + off), off, fuel - 1)

SegNodes(i) == ListFrom(Heap, seg_list[i], 2 * wsize, MaxHeap \div dsize + 1)
MiniNodes   == ListFrom(Heap, mini_list, wsize, MaxHeap \div dsize + 1)

\* spec.md invariant 6: the free blocks of the heap are exactly the nodes of
\* the lists, each on one list once: 16-byte ones on the mini list (which
\* mm_checkheap never inspects), the others in the bucket of their class.
FreeListsExact ==
  heap_start # NULL =>
    LET fb == {b \in ToSet(Blocks(Heap)) : ~get_alloc(Heap, b)}
    IN  /\ IsInjective(MiniNodes)
        /\ ToSet(MiniNodes) = {b \in fb : is_mini_block(Heap, b)}
        /\ \A i \in 0..LENGTH-1 :
             /\ IsInjective(SegNodes(i))
             /\ ToSet(SegNodes(i)) =
                  {b \in fb : ~is_mini_block(Heap, b)
                              /\ find_class(get_size(Heap, b)) = i}

\* spec.md section 1 ("freed regions become available for reuse") and
\* section 7 (memory is returned only by free): the allocated blocks of the
\* heap are exactly the blocks of the pointers the client holds.  A failed
\* call, the half-finished mm_init of a refused sbrk included, and a
\* realloc that moves a block must leave no allocated block behind.
NoLeakedBlock ==
  heap_start # NULL =>
    {b \in ToSet(Blocks(Heap)) : get_alloc(Heap, b)} =
      {payload_to_header(ptr[sl]) : sl \in {x \in Slots : ptr[x] # NULL}}

\* The class table of src/README.md ("Segregated List Classes": 0 is <= 32,
\* 1 is 33-64, ..., 13 is > 32768) and of mm.c's header comment ("the first
\* bucket contains all blocks with sizes smaller or equal to 2^5"): a bound
\* belongs to the class below it.
DocBound == <<32, 64, 128, 256, 512, 1024, 2048, 3072, 4096,
              6656, 8192, 16384, 32768>>
DocClass(size) == Cardinality({i \in 1..13 : DocBound[i] < size})

\* Every block on bucket i has a size the documented table puts in class i.
\* find_class (mm.c:554) instead sends a size equal to a bound to the class
\* above it, as spec.md section 3 does.
FreeListsMatchDocumentedClasses ==
  \A i \in 0..LENGTH-1 :
    \A b \in ToSet(SegNodes(i)) : DocClass(get_size(Heap, b)) = i

\* spec.md section 3: each bucket is a doubly-linked LIFO whose head's prev
\* link is nil.  insert_free on a non-empty bucket and remove_free of a
\* head never write the new head's prev link; the code instead recognises
\* the head with is_head, so the claim is about the stored word.
HeadPrevIsNull ==
  \A i \in 0..LENGTH-1 :
    seg_list[i] # NULL => Rd(Heap, PrevLink(seg_list[i])) = NULL

\* Words whose content differs between two memories.
Changed(m1, m2) ==
  {a \in DOMAIN m1 \cup DOMAIN m2 :
     a \notin DOMAIN m1 \/ a \notin DOMAIN m2 \/ m1[a] # m2[a]}

\* No call writes a word of the bytes another live pointer was handed,
\* neither metadata (headers, footers, links) nor copied or zeroed data.
NoWriteIntoLivePayload ==
  [][\A sl \in Slots :
       ptr[sl] # NULL /\ ptr'[sl] = ptr[sl] =>
         \A a \in Changed(mem, mem') : a + wsize <= ptr[sl] \/ a >= ptr[sl] + req[sl]
    ]_vars

\* spec.md 4.7: allocate extends the heap only when find_fit finds nothing.
\* So a call that grows the break (after mm_init) and hands a slot a new
\* block of asize bytes found no free block of asize bytes or more before
\* the call, in any bucket or on the mini list.  find_fit's per-class scan,
\* its best-fit cutoff and the mini shortcut must together be complete.
NoNeedlessExtend ==
  [][heap_start # NULL /\ mem_brk' > mem_brk =>
       \A sl \in Slots :
         ptr'[sl] # NULL /\ ptr'[sl] # ptr[sl] =>
           \A b \in ToSet(Blocks(Heap)) :
             ~get_alloc(Heap, b) =>
               get_size(Heap, b) < round_up((req'[sl] + wsize) % Word, dsize)
    ]_vars

(***************************************************************************)
(* Refinement: the client-visible behaviour implements Allocator.  A live  *)
(* pointer's region is its payload as the block header sizes it; the data  *)
(* is the token word at the pointer.                                      *)
(***************************************************************************)
Capacity(p) == get_size(Heap, payload_to_header(p)) - wsize

AbsRegion ==
  [sl \in Slots |-> IF ptr[sl] = NULL THEN [lo |-> 0, len |-> 0]
                    ELSE [lo |-> ptr[sl], len |-> Capacity(ptr[sl])]]
AbsData ==
  [sl \in Slots |-> IF ptr[sl] = NULL THEN 0 ELSE Rd(Heap, ptr[sl])]

Abs == INSTANCE Allocator WITH
         Lo <- HeapLo, Hi <- HeapLo + MaxHeap,
         region <- AbsRegion, req <- req, data <- AbsData

\* Every step of the allocator is a step of Allocator (or leaves what the
\* client sees unchanged): regions are aligned, large enough, disjoint,
\* and data survives calls on other slots and realloc.
AllocatorRefinement == Abs!Spec
=============================================================================
