------------------------------ MODULE MmBlock ------------------------------
(***************************************************************************)
(* Metadata codec and block navigator of mm.c (src/mm.c, "short helper    *)
(* functions").                                                            *)
(*                                                                         *)
(* The heap is a word-addressed memory: s.mem maps the byte address of an  *)
(* 8-byte word to the integer stored there.  Headers and footers are the   *)
(* packed words of pack_all, free-list links are addresses, NULL is 0.     *)
(* Every helper takes the allocator state s, a record                      *)
(*   [mem, seg, mini, start, brk]                                          *)
(* (heap memory, seg_list, mini_list, heap_start, memlib's break), and a   *)
(* helper that writes returns the new state, so a C function that performs *)
(* several writes is the composition of the writes in the C order.        *)
(*                                                                         *)
(* size_t arithmetic is done modulo 2^WordBits where it can wrap.          *)
(***************************************************************************)
EXTENDS Integers, TLC, Bitwise

CONSTANTS
  WordBits,  \* width of size_t / word_t (64 in the build, scaled for TLC)
  Junk,      \* what a read of a never-written word of sbrk'd memory yields
  chunksize  \* bytes of the first extension and minimum later one (4096
             \* in the build, scaled for TLC like the word width)

ASSUME WordBits \in 12..24
ASSUME Junk \in Nat
ASSUME chunksize \in Nat /\ chunksize >= 32 /\ chunksize % 16 = 0

Word     == 2^WordBits
SIZE_MAX == Word - 1
NULL     == 0

wsize          == 8
dsize          == 2 * wsize
min_block_size == dsize

alloc_mask      == 1
prev_alloc_mask == 2
prev_mini_mask  == 4

\* size_t helpers (mm.c max, round_up); the addition may wrap.
max(x, y) == IF x > y THEN x ELSE y
round_up(size, n) == n * (((size + (n - 1)) % Word) \div n)

(***************************************************************************)
(* Memory access.  Words of sbrk'd memory that were never written hold     *)
(* Junk.                                                                   *)
(***************************************************************************)
Rd(s, a) == IF a \in DOMAIN s.mem THEN s.mem[a] ELSE Junk
Wr(s, a, v) ==
  IF a \in DOMAIN s.mem THEN [s EXCEPT !.mem[a] = v]
  ELSE [s EXCEPT !.mem = (a :> v) @@ @]

(***************************************************************************)
(* Codec: the size occupies the bits above bit 3; bit 0 is alloc, bit 1    *)
(* prev_alloc, bit 2 prev_mini.                                            *)
(***************************************************************************)
Bit(b, m) == IF b THEN m ELSE 0

\* word | f for a flag set f < 8: only the low three bits can change.
OrTable == [p \in (0..7) \X (0..7) |-> p[1] | p[2]]
OrFlags(word, f) == word - (word % 8) + OrTable[<<word % 8, f>>]

pack_all(size, alloc, prev_alloc, prev_mini) ==
  OrFlags(size, Bit(alloc, alloc_mask) + Bit(prev_alloc, prev_alloc_mask)
                + Bit(prev_mini, prev_mini_mask))

extract_size(word)  == word - (word % 16)          \* word & ~0xF
extract_alloc(word) == word % 2 = 1                \* word & alloc_mask

get_size(s, block)       == extract_size(Rd(s, block))
get_alloc(s, block)      == extract_alloc(Rd(s, block))
get_prev_alloc(s, block) == (Rd(s, block) \div 2) % 2 = 1
get_prev_mini(s, block)  == (Rd(s, block) \div 4) % 2 = 1
is_mini_block(s, block)  == get_size(s, block) = min_block_size

(***************************************************************************)
(* Navigator.  A block pointer is the address of its header; the payload   *)
(* starts one word later.                                                  *)
(***************************************************************************)
payload_to_header(bp)   == bp - wsize
header_to_payload(block) == block + wsize
header_to_footer(s, block) == block + wsize + get_size(s, block) - dsize
footer_to_header(s, footer) == footer + wsize - extract_size(Rd(s, footer))
find_next(s, block) == block + get_size(s, block)
find_prev_footer(block) == block - wsize

\* The previous block: at a fixed offset when it is a mini block, else
\* located through its footer; NULL when that footer is the prologue.
find_prev(s, block) ==
  IF ~get_prev_mini(s, block)
  THEN LET footerp == find_prev_footer(block)
       IN  IF extract_size(Rd(s, footerp)) = 0 THEN NULL
           ELSE footer_to_header(s, footerp)
  ELSE block - min_block_size

(***************************************************************************)
(* Writers.                                                                *)
(***************************************************************************)
\* The footer of a block, located from the header just written.
write_footer(s, block, w) == Wr(s, header_to_footer(s, block), w)

\* Header always; footer only for a free block that is not a mini block.
write_pack(s, block, size, alloc, prev_alloc, prev_mini) ==
  LET w == pack_all(size, alloc, prev_alloc, prev_mini)
  IN  IF ~alloc /\ size # min_block_size
      THEN write_footer(Wr(s, block, w), block, w)
      ELSE Wr(s, block, w)

\* Seeded fault (NoWriteIntoLivePayload): the footer update done for any
\* non-mini block, allocated ones included.
write_prev_alloc_footer_any(s, block, prev_alloc) ==
  LET f == header_to_footer(s, block)
  IN  IF ~is_mini_block(s, block) /\ prev_alloc
      THEN Wr(s, f, OrFlags(Rd(s, f), prev_alloc_mask))
      ELSE s

\* The footer half of write_prev_alloc, on the state after the header
\* update: it too only ever sets the bit.
write_prev_alloc_footer(s, block, prev_alloc) ==
  LET f == header_to_footer(s, block)
  IN  IF ~get_alloc(s, block) /\ ~is_mini_block(s, block) /\ prev_alloc
      THEN Wr(s, f, OrFlags(Rd(s, f), prev_alloc_mask))
      ELSE s

\* Only ever sets the bit: called with FALSE it changes nothing.
write_prev_alloc(s, block, prev_alloc) ==
  write_prev_alloc_footer(
    IF prev_alloc THEN Wr(s, block, OrFlags(Rd(s, block), prev_alloc_mask))
    ELSE s,
    block, prev_alloc)

\* Seeded fault (TypeOK): the epilogue written one word too far.
write_epilogue_past_end(s, block, prev_alloc, prev_mini) ==
  Wr(s, block + wsize, pack_all(0, TRUE, prev_alloc, prev_mini))

write_epilogue(s, block, prev_alloc, prev_mini) ==
  Wr(s, block, pack_all(0, TRUE, prev_alloc, prev_mini))
=============================================================================
