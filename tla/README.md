# TLA+ models of the segregated-list allocator (`src/mm.c`)

This directory holds TLA+ models of the allocator in `src/mm.c`, together with
the TLC configurations that check them. The allocator is a 64-bit
segregated-free-list malloc, with boundary tags and a separate list for
16-byte "mini" blocks. Every definition that models code is listed, with its
source lines, in `PROJECT.json` under `map`.

## 1. The system

`mm.c` is one single-threaded C file that sits on top of memlib. Memlib is not
part of `src/`; it provides `mem_sbrk`, `mem_heap_lo`/`hi`, `mem_memcpy` and
`mem_memset`. The parts below are those of spec.md §2, leaves first.

| Part | Code | State it touches | Operations |
|---|---|---|---|
| Metadata codec | `pack_all`, `extract_*`, `get_*` | header and footer words | pure, plus `write_pack`, `write_prev_alloc`, `write_epilogue` |
| Block navigator | `payload_to_header` … `find_prev` | reads heap words | pure |
| Size-class index | `find_class`, `is_head` | `seg_list` | pure |
| Free-list set | `insert_free`, `remove_free` | `seg_list[14]`, `mini_list`, link words in free blocks | push, unlink |
| Coalescer | `coalesce_block` | headers, footers, lists | four boundary cases |
| Placement engine | `find_fit`, `split_block`, `extend_heap` | all of the above, plus the break | search, split, grow |
| Public API | `mm_init`, `malloc`, `free`, `realloc`, `calloc` | all of the above | the client calls |
| Invariant checker | `mm_checkheap` and its `check_*` helpers | reads all of the above | predicate |

How the parts interact:
- A `malloc` goes through these steps in order:
  1. `find_class` and `find_fit` look for a free block.
  2. If none fits, `extend_heap` grows the heap: `mem_sbrk`, then a new epilogue, then `coalesce_block`.
  3. The block is unlinked with `remove_free`.
  4. Its header is rewritten as allocated.
  5. The right neighbour's `prev_alloc` bit is set.
  6. `split_block` cuts off the remainder, and `coalesce_block` on the remainder reinserts it.
- A `free` clears the alloc bit, "clears" the neighbour's `prev_alloc` through `write_prev_alloc(_, false)`, and coalesces. That call writes nothing; the coalesce is what corrects the neighbour.
- A `realloc` always moves the block: it does a malloc, copies with `memcpy`, then frees the old block.
- A `calloc` checks the product for overflow, then calls malloc, then `memset`.

Hard behaviours. There is no concurrency. The difficulty lies in long call
sequences, where each call leaves metadata that a later call trusts:
- the prev_alloc and prev_mini bits;
- footers that only free non-mini blocks have;
- the LIFO bucket links, and the singly-linked mini list;
- heap growth at the memory limit;
- `size_t` wrap-around in size computations.

The `hazards` list in `PROJECT.json` gives each of these at the line where it
bites.

## 2. Modules

| Module | Models | State / actions |
|---|---|---|
| `MmBlock` | codec, navigator, the three writers | helpers over a state record `s = [mem, seg, mini, start, brk]` |
| `MmFreeList` | `find_class`, `is_head`, `insert_free`, `remove_free` | helpers returning the new `s` |
| `MmPlace` | `mem_sbrk` (memlib), `coalesce_block`, `extend_heap`, `split_block`, `find_fit` | helpers returning `[st, ret]` |
| `MmCheck` | `mm_checkheap` and every `check_*` | predicates on `s` |
| `Mm` | `mm_init`, `malloc`, `free`, `realloc`, `calloc`, and the client | VARIABLES `mem, seg_list, mini_list, heap_start, mem_brk` (the allocator) and `ptr, req` (the client); actions `MmInit`, `Malloc`, `Free`, `Realloc`, `Calloc` |
| `Allocator` | what the API promises (spec.md §1, §4.7, §8) | abstract `region, req, data` per client slot |
| `FindFit` | `find_fit` alone, over bounded bucket contents | `buckets, mini_free, asize` |
| `MmScenario` | the trace driver replaying spec.md §8 scenario 3 through `Mm` | adds `pc` (next trace line) and `given` (pointer each slot was last handed) |
| `MCMm`, `MCFindFit`, `MCMmScenario` | model-checking instances | constant sets: two or three slots, with or without sbrk refusals |

### How the models represent the program

- **Memory.** `mem` maps the byte address of each 8-byte word to an integer.
  - Headers and footers are the packed words that `pack_all` produces.
  - Free-list links are addresses, stored at block+8 (prev, or the mini list's next) and block+16 (next), as in `block_t` and `mini_block_t`.
  - `NULL` is 0.
  - A word that has never been written reads as the constant `Junk`. Its value is 8: the reserved bit is set and the size is 0, so it is neither a valid header nor a link.
- **C functions.** Each C function is an operator.
  - A function with several writes is the composition of its writes, in C order. Intermediate states are passed as operator arguments, so each step reads the state the previous one left, as the C code does.
  - A function with a result returns `[st, ret]`.
  - Each API call is one atomic step of `Next`. The allocator is single-threaded and never suspends, so nothing can interleave inside a call.
- **Width.** `size_t` is scaled from 64 to `WordBits` = 16 bits. Every sum that can wrap is taken `% Word`:
  - `round_up`;
  - `size + wsize` in malloc;
  - the remainder computed in `split_block`;
  - the product in calloc.

  `mem_sbrk` takes an `intptr_t`, so an increment of `Word/2` or more is negative and fails.
- **Fault model: refused sbrk.** memlib's `mem_sbrk` fails only at its limit, but spec.md §4.7 treats "sbrk refuses extension" as the out-of-memory case. This is what a system sbrk does.
  - The constant `SbrkRefusals` is a set of numbers; each call draws one, `f`, with `\E`.
  - A call that draws `f > 0` has its `f`-th `mem_sbrk` refused. The state record carries the countdown `refuse`.
  - `f = 0` refuses nothing. The memlib runs use `{0}` only.
  - `MCRefusals` = `{0,1,2,3}` covers every `mem_sbrk` one call can make: mm_init's two and extend_heap's one.
- **Chunk size.** `chunksize` (4096 in the build) is a constant, scaled to 64 in the runs (32 in `small_chunk`). With 4096, blocks can sit at hundreds of offsets and the state space does not close. The size classes keep their real bounds, so the runs use classes 0–2.
- **The client.** A client holds its pointers in `Slots`. After a successful malloc, or a `realloc(NULL, n)`, it fills the `n` bytes it asked for:
  - the first word gets a token, `Tag(slot)`;
  - the other words become untracked client bytes, removed from `mem` so they read as `Junk`.

  `memcpy` copies the token word, and `memset` zeroes every word in its range. This follows memlib's documented behaviour, which is not in `src/`.
- **State fingerprint.** `MCMm` fingerprints states with `VIEW StateView`. The view keeps only the words some code path can read:
  - the prologue;
  - headers, and the epilogue;
  - footers and links of free blocks;
  - the token of each live block.

  Every word in the view is written before it enters the view. The words left out are stale bytes inside blocks, plus a bucket head's prev link: `insert_free` never writes it, and `remove_free` reads it but does not use it for a head. No step uses a left-out word, so two states that differ only there have the same futures. `HeadPrevIsNull` reads the head's prev link, but a violation TLC reports is a concrete trace either way.

## 3. Runs

| Run | Config | Expect | Checks |
|---|---|---|---|
| `heap_safety` | `MCMm.cfg` | pass | `TypeOK`, `NoLeakedBlock`, `CheckHeapHolds`, `BoundaryTagsConsistent`, `FreeListsExact`, `NoWriteIntoLivePayload`, `NoNeedlessExtend`, `AllocatorRefinement` |
| `small_chunk` | `MCMmSmallChunk.cfg` | pass | `TypeOK`, `NoNeedlessExtend`, `AllocatorRefinement` |
| `sbrk_refusal` | `MCMmRefusal.cfg` | pass | `NoLeakedBlock`, `CheckHeapHolds`, `AllocatorRefinement` |
| `three_slots` | `MCMm3.cfg` | pass | `CheckHeapHolds`, `FreeListsExact` |
| `head_prev_link` | `MCMmHeadPrev.cfg` | violation | `HeadPrevIsNull` |
| `huge_calloc` | `MCMmHugeCalloc.cfg` | violation | `AllocatorRefinement` |
| `find_fit_complete` | `MCFindFit.cfg` | pass | `FitSoundAndComplete` |
| `find_fit_vs_spec` | `MCFindFitSpec.cfg` | violation | `FitMatchesSpec` |
| `documented_classes` | `MCMmDocClasses.cfg` | violation | `FreeListsMatchDocumentedClasses` |
| `scenario_three` | `MCMmScenario3.cfg` | violation | `ScenarioThreeBuckets` |

What each property says:
- **`CheckHeapHolds`.** The code's own checker, `mm_checkheap`, holds after every call.
- **`BoundaryTagsConsistent`** (spec invariant 5). Every header's `prev_alloc` and `prev_mini` bits describe the block to its left.
- **`FreeListsExact`** (spec invariant 6, which `mm_checkheap` never checks for the mini list). "Its own class" means `find_class`'s classes, which match spec.md §3 ([32, 64) is class 1). `src/README.md` and the comment at mm.c:28-29 document a different table; the `documented_classes` run shows the disagreement. `FreeListsExact` follows only next links, so it says nothing about prev links (`HeadPrevIsNull` does).
  - The free blocks are exactly the list nodes.
  - No node is on a list twice.
  - Every node is on the list of its own class.
- **`NoLeakedBlock`.** The allocated blocks of the heap are exactly the blocks of the pointers the client holds. A moving realloc must free the old block; a failed call must neither free nor keep a block.
- **`NoWriteIntoLivePayload`** (an action property). No call changes a word of the bytes a still-live pointer asked for.
- **`NoNeedlessExtend`** (an action property, spec.md §4.7). A call that grows the break and hands a slot a new block found no free block of that `asize` or larger before the call. For that, three things must together be complete:
  - `find_fit`'s scan from the request's class upward;
  - its best-fit cutoff;
  - the mini-list shortcut.

  A `find_fit` that misses a fit in a higher class passes every heap invariant. It only wastes the heap and fails early at the limit.
- **`AllocatorRefinement`.** `Mm` implements `Allocator`, under a refinement mapping:
  - the region of a live pointer is its payload, sized by the block's header;
  - the data of a live pointer is the token word.

  The property therefore says:
  - returned regions are aligned, large enough and disjoint, and lie within memlib's maximum heap (`HeapLo + MaxHeap`). That bound is weaker than the current break, which the abstract spec does not know; `TypeOK` checks that every write falls below the break;
  - data survives calls on other slots;
  - realloc keeps the data;
  - calloc's data is zero;
  - a failed call changes nothing the client sees.

Each property of a passing run has a seeded-fault operator, written next to the
definition it replaces, and TLC catches each one:
- an epilogue written one word too far → `TypeOK`;
- a bucket push without the back link → `CheckHeapHolds`;
- a split that forgets `prev_mini` → `BoundaryTagsConsistent`;
- a mini push that drops the list → `FreeListsExact`;
- a `write_prev_alloc` footer update on allocated blocks → `NoWriteIntoLivePayload`;
- a realloc that frees before it copies → `AllocatorRefinement` (`heap_safety`, `sbrk_refusal`);
- a realloc that never frees the old block → `NoLeakedBlock` (`heap_safety`);
- a realloc that frees the old block although its malloc failed → `NoLeakedBlock` (`sbrk_refusal`);
- a malloc that ignores a failed `mm_init` → `CheckHeapHolds` (`sbrk_refusal` only);
- a middle-of-bucket unlink without the back link → `CheckHeapHolds` (`three_slots` only);
- a middle-of-bucket unlink done as a tail unlink → `FreeListsExact` (`three_slots` only);
- a `find_fit` that stops after the first class → `FitSoundAndComplete` (`find_fit_complete`), and `NoNeedlessExtend` (`heap_safety`, `small_chunk`);
- a malloc that always extends by `chunksize` → `TypeOK` (`small_chunk` only).

### What the runs show

- **`heap_safety` passes.** 1,251 distinct states, about 10 s.
  - Bounds: two slots; requests of 1, 24 and 48 bytes; calloc(2, 12); and calloc(3, 21846), whose product wraps in 16 bits.
  - `chunksize` is 64, and `MaxHeap` = 144 bytes, which is a prologue and epilogue plus two chunks.
  - What these bounds reach: mini blocks, with mini lists of three nodes; all four coalesce cases; splits that leave a mini remainder or none; heap extension; sbrk failure at the limit; calloc's overflow check.
- **`small_chunk` passes.** 1,767 distinct states.
  - `chunksize` is 32, so a 48-byte request (asize 64) is larger than a chunk. malloc then extends by `asize`, not `chunksize` (mm.c:1288). This is spec.md §8's "a single allocation larger than CHUNK forces extend to request asize".
  - With `chunksize` 64 that branch is never taken, because the largest asize equals the chunk.
  - A malloc that always extends by `chunksize` places a 64-byte request in a 32-byte block. The split remainder then wraps, and a write lands outside the heap.
- **`sbrk_refusal` passes.** 1,252 distinct states: the `heap_safety` states plus the one a half-finished `mm_init` leaves.
  - In that state, mm_init's first `mem_sbrk` succeeded and extend_heap's was refused (mm.c:1241). `heap_start` points at the epilogue and there are no blocks.
  - The next malloc skips `mm_init` and extends from that epilogue, which reaches the same heaps as a successful `mm_init`.
  - A refused call changes nothing the client sees, and leaks nothing.
  - What it shows: a partial failure is harmless in the code as written. If malloc ignored `mm_init`'s result, the heap would break; `heap_safety` cannot see that, because memlib never refuses the first chunk there.
  - A seeded fault that publishes `heap_start` only after the first chunk exists also passes: `mm_init` then simply re-runs one prologue higher, and `mm_checkheap` cannot tell the difference.
- **`three_slots` passes.** 18,795 distinct states, about a minute.
  - Bounds: three pointers; requests of 1 and 24 bytes; calloc(2, 12).
  - Buckets reach three blocks, so `remove_free` runs its middle case (mm.c:721–725). With two pointers a bucket holds at most two blocks, and both seeded faults in that case go unnoticed there.
- **`huge_calloc` is a code bug** (mm.c:1281).
  - calloc(1, SIZE_MAX) passes the product check.
  - malloc's `size + 8` then wraps to a 16-byte block, which malloc returns.
  - memset then writes SIZE_MAX bytes from that block.
  - spec.md §8 scenario 4 requires nil.
- **`head_prev_link` is a divergence** (mm.c:645 and 711). The new head of a bucket keeps a stale prev word; spec.md §3 says it is nil. The code never reads the word (it uses `is_head`), which is why `CheckHeapHolds` still passes.
- **`find_fit_vs_spec` is a divergence** (mm.c:938). The code stops at the first fitting block that is not smaller than the best so far; the spec stops only at a larger one. For bucket `<<48, 48, 32>>` and asize 32, the code takes the 48-byte block.
- **`documented_classes` is a divergence in the repository's docs** (mm.c:561).
  - `src/README.md`'s class table (class 0 ≤ 32, class 1 33–64, …) and the header comment at mm.c:28-29 put a block whose size equals a bound in the class below it.
  - `find_class` tests `asize < bound`, so it puts that block in the class above. The violation comes right after `mm_init`: the first 64-byte chunk is in bucket 2, where the docs say class 1.
  - spec.md §3 agrees with the code. The lists are consistent, because insert, remove and `is_head` all use `find_class`; only the documentation is wrong.
- **`scenario_three` is a divergence in the spec's scenario** (mm.c:784).
  - The run replays spec.md §8 scenario 3 with the build's `chunksize` of 4096: `allocate(24)` three times, then `free(a)`, then `free(c)`.
  - The scenario says a and c are now both in `seg[1]`. In the code, c's right neighbour is the free rest of the first chunk, so `free(c)` takes coalesce case three. The 4,032-byte merged block goes to bucket 8.
  - The code follows the spec's own coalescing rule (§4.5); the scenario's expectation is what is wrong.
  - The script is deterministic, so the run has only the states of one trace. That is why it can only be a violation run; it is also why the real chunk size fits.
- **`find_fit_complete` passes.**
  - Bounds: buckets 1 and 2 with up to three blocks each, sizes {32, 48} and {64, 96}; every asize from 16 to 128; with or without a mini block.
  - What it shows: `find_fit` never misses a fitting block in the buckets it searches, and never returns a block that is too small.

### Fairness and liveness

There is no liveness property. Every API call is one terminating step, and the
code has no waiting, retry or background work, so nothing is "eventually" owed.
spec.md §4.7 says "No retries": after a refused sbrk, nothing in the code tries
again, so no fairness assumption about sbrk would be justified either.
The one loop that could fail to terminate is the mini-list predecessor search
in `remove_free`. On a malformed list it would fail safety first:
`FreeListsExact` already excludes that list.

## 4. Plan and what is left

Done in this order:
1. `MmBlock`;
2. `MmFreeList`;
3. `MmPlace`;
4. `MmCheck`;
5. `Mm`;
6. the `Allocator` refinement;
7. the `FindFit` check against a reference definition.

Left open:
- Huge malloc requests (sizes `SIZE_MAX - 7` … `SIZE_MAX`), where `asize` rounds to 0 and `split_block` writes a size-0 header. The root cause is the same wrap at mm.c:1281 that `huge_calloc` already shows, so there is no separate run.

Not modelled:
- `print_heap`, the `dbg_*` macros and the unused `get_payload_size`: output only.
- The trace driver's file parsing and timing. Its replay of a fixed call sequence is modelled for scenario 3 only.
- An instance with the build's `chunksize` (4096) and free call sequences. With requests of 1, 100 and 5000 bytes, two slots and a 12 KiB heap, TLC passes 180,000 distinct states in four minutes and keeps growing: block boundaries drift through the chunk. The scaled runs keep the same control paths, with `small_chunk` for the larger-than-a-chunk branch.
- Addresses above 2^16: the width is scaled.
