------------------------ MODULE MCBTreeIndexedStorage ------------------------
(***************************************************************************)
(* Small instances of BTreeIndexedStorage for TLC.  Three keys and two     *)
(* values; storage may grow to four slots, enough for a delete to push the *)
(* ratio over the default threshold 0.3 (1 tombstone in 3 slots), for a    *)
(* compaction to run with goroutines still queued behind it, and for keys  *)
(* to be re-added afterwards.                                              *)
(***************************************************************************)
EXTENDS BTreeIndexedStorage

CONSTANTS v1, v2

MCKeys == {1, 2, 3}
MCVals == {v1, v2}
\* Nil is one of the values callers may pass to Add.
MCValsWithNil == {v1, Nil}
==============================================================================
