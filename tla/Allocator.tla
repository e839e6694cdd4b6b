----------------------------- MODULE Allocator -----------------------------
(***************************************************************************)
(* What the allocator promises its client (spec.md sections 1, 4.7, 8):    *)
(* a successful malloc, calloc or realloc of n bytes hands the slot a      *)
(* 16-aligned region of at least n bytes inside the heap, disjoint from    *)
(* every other live region; the other slots' regions and data are never    *)
(* touched; realloc keeps the data; calloc's data is zero; free ends the   *)
(* region.  A call that returns NULL changes nothing the client sees.      *)
(*                                                                         *)
(* data[sl] is the token the client keeps at the start of its region.      *)
(***************************************************************************)
EXTENDS Integers

CONSTANTS
  Slots, Requests, CallocArgs,
  Lo, Hi,      \* the heap's address range
  Tag(_)       \* the token the client writes into a fresh region

VARIABLES region, req, data

vars == <<region, req, data>>

None == [lo |-> 0, len |-> 0]
Regions == [lo : Lo..Hi, len : 0..(Hi - Lo)]

Aligned(r) == r.lo % 16 = 0 /\ Lo <= r.lo /\ r.lo + r.len <= Hi
Disjoint(r, q) == r.lo + r.len <= q.lo \/ q.lo + q.len <= r.lo

\* The slot's region is replaced by a fresh one of at least n bytes that
\* overlaps no other live region, holding data d.
Place(sl, n, d) ==
  LET r == region'[sl]
  IN  /\ r \in Regions
      /\ Aligned(r) /\ r.len >= n
      /\ \A o \in Slots \ {sl} : region[o] # None => Disjoint(r, region[o])
      /\ region' = [region EXCEPT ![sl] = r]
      /\ req' = [req EXCEPT ![sl] = n]
      /\ data' = [data EXCEPT ![sl] = d]

Init ==
  /\ region = [sl \in Slots |-> None]
  /\ req = [sl \in Slots |-> 0]
  /\ data = [sl \in Slots |-> 0]

Malloc(sl) ==
  /\ region[sl] = None
  /\ \E n \in Requests \ {0} : Place(sl, n, Tag(sl))

Calloc(sl) ==
  /\ region[sl] = None
  /\ \E a \in CallocArgs : a[1] * a[2] > 0 /\ Place(sl, a[1] * a[2], 0)

\* realloc of a live region to n > 0 bytes.
Move(sl) ==
  /\ region[sl] # None
  /\ \E n \in Requests \ {0} : Place(sl, n, data[sl])

\* free, or realloc to 0 bytes.
Release(sl) ==
  /\ region[sl] # None
  /\ region' = [region EXCEPT ![sl] = None]
  /\ req' = [req EXCEPT ![sl] = 0]
  /\ data' = [data EXCEPT ![sl] = 0]

Next == \E sl \in Slots : Malloc(sl) \/ Calloc(sl) \/ Move(sl) \/ Release(sl)

Spec == Init /\ [][Next]_vars
=============================================================================
