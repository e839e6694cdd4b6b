----------------------------- MODULE MmScenario -----------------------------
(***************************************************************************)
(* spec.md section 8, end-to-end scenario 3, run through the Mm model of   *)
(* the code with the build's chunksize:                                    *)
(*                                                                         *)
(*   Initialize. a=allocate(24); b=allocate(24); c=allocate(24).           *)
(*   free(a); free(c).  check_heap -> true and a and c are in seg[1].      *)
(*   free(b).  All three coalesced into a single free block; seg[1] is     *)
(*   empty; the large block is in the appropriate higher bucket.           *)
(*                                                                         *)
(* The driver follows Script, one call per step; slots 1, 2, 3 stand for   *)
(* a, b, c.  given records the pointer each slot was last handed, so the   *)
(* blocks can still be named after they are freed.                         *)
(***************************************************************************)
EXTENDS Mm

VARIABLES
  pc,     \* index of the next call of Script
  given   \* slot -> payload pointer malloc last returned to it

Script ==
  << [op |-> "init"],
     [op |-> "malloc", sl |-> 1, n |-> 24],
     [op |-> "malloc", sl |-> 2, n |-> 24],
     [op |-> "malloc", sl |-> 3, n |-> 24],
     [op |-> "free", sl |-> 1],
     [op |-> "free", sl |-> 3],
     [op |-> "free", sl |-> 2] >>

\* The i-th call of Script as a step of Mm, with sbrk never refused.
Call_i(i) ==
  LET c == Script[i]
  IN  CASE c.op = "init"   -> MmInit(0)
        [] c.op = "malloc" -> Malloc(c.sl, c.n, 0)
        [] c.op = "free"   -> Free(c.sl)

ScenarioInit ==
  /\ Init
  /\ pc = 1
  /\ given = [sl \in Slots |-> NULL]

ScenarioNext ==
  /\ pc <= Len(Script)
  /\ Call_i(pc)
  /\ pc' = pc + 1
  /\ given' = [sl \in Slots |-> IF ptr'[sl] # NULL THEN ptr'[sl] ELSE given[sl]]

ScenarioSpec == ScenarioInit /\ [][ScenarioNext]_<<vars, pc, given>>

\* The blocks of a and c, by the pointers they were handed.
BlockOf(sl) == payload_to_header(given[sl])

\* Scenario 3's checkpoint after free(a); free(c): the heap checks and both
\* freed 32-byte blocks sit in bucket 1 ([32, 64)).  In the code, c's right
\* neighbour is the free rest of the first chunk, so free(c) coalesces
\* (coalesce_block case three) and the merged block goes to a higher bucket.
ScenarioThreeBuckets ==
  pc = 7 =>
    /\ mm_checkheap(Heap)
    /\ {BlockOf(1), BlockOf(3)} \subseteq ToSet(SegNodes(1))
=============================================================================
