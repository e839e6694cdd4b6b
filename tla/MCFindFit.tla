------------------------------ MODULE MCFindFit ------------------------------
(***************************************************************************)
(* find_fit over buckets 1 and 2 (block sizes 32..63 and 64..127) of up to *)
(* three blocks each, and every request size from a mini block to one no  *)
(* block of these buckets can hold.                                        *)
(***************************************************************************)
EXTENDS FindFit

MCBucketSizes == (1 :> {32, 48}) @@ (2 :> {64, 96})
MCASizes == {16, 32, 48, 64, 80, 96, 128}
=============================================================================
