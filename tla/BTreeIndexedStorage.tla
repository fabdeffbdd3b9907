------------------------- MODULE BTreeIndexedStorage -------------------------
(***************************************************************************)
(* BTreeIndexedStorage (src/unnamed/part_000): an append-only slice of     *)
(* values `storage` and a b-tree `tree` of entries {k, pos} pointing into  *)
(* it.  Delete clears the slot to nil, counts a tombstone and, when the    *)
(* tombstone ratio exceeds the threshold, starts `go CompactIncremental()`.*)
(* CompactIncremental rebuilds storage and tree from an ascending scan of  *)
(* the tree that stops after batchSize entries.                            *)
(*                                                                         *)
(* Every public method holds s.mu for its whole body, so each one is a     *)
(* single atomic step here.  The b-tree is the function `index` from keys  *)
(* to positions (NoEntry when the key is not in the tree); positions are   *)
(* 0-based as in the code, so slot p is storage[p + 1].  Keys are [8]byte  *)
(* compared with bytes.Compare; they are modelled as naturals, whose order *)
(* is the same total order.  The goroutines started by Delete and not yet  *)
(* past s.mu.Lock() are counted by `pending`.                              *)
(***************************************************************************)
EXTENDS Integers, Sequences, FiniteSets

CONSTANTS
    Keys,          \* keys, ordered by <
    Vals,          \* the values callers pass to Add
    Nil,           \* the nil []byte: a cleared slot, or a nil value given to Add
    NoEntry,       \* index[k] = NoEntry: the tree holds no entry for k
    ThresholdNum,  \* threshold = ThresholdNum / ThresholdDen
    ThresholdDen,
    BatchSize,     \* batchSize; <= 0 means the scan is not cut short
    MaxSlots,      \* bound: len(storage) never exceeds MaxSlots
    MaxPending     \* bound: at most MaxPending compaction goroutines waiting

ASSUME KeysAssumption == Keys \subseteq Nat /\ IsFiniteSet(Keys)
ASSUME NoEntryAssumption == NoEntry \notin Nat \cup Vals \cup {Nil}
ASSUME ThresholdAssumption == ThresholdNum \in Nat /\ ThresholdDen \in Nat \ {0}
ASSUME BoundsAssumption ==
    /\ BatchSize \in Int
    /\ MaxSlots \in Nat
    /\ MaxPending \in Nat

VARIABLES index, storage, tombstones, pending,
          lastCall   \* history: the method that ran last, and its key

vars == <<index, storage, tombstones, pending, lastCall>>

Slot == Vals \cup {Nil}

\* A call of method op on key k (NoEntry for CompactIncremental).
Call(op, k) == [op |-> op, key |-> k]

\* The keys the b-tree holds.
Present == {k \in Keys : index[k] # NoEntry}

\* The number of elements of S below k: the 0-based position of k in an
\* ascending traversal of S.
Rank(S, k) == Cardinality({j \in S : j < k})

\* The element of S that an ascending traversal of S visits at position r.
KeyOfRank(S, r) == CHOOSE k \in S : Rank(S, k) = r

\* float64(t)/float64(n) > s.threshold, with the threshold as a fraction.
OverThreshold(t, n) == t * ThresholdDen > ThresholdNum * n

Init ==
    /\ index = [k \in Keys |-> NoEntry]
    /\ storage = << >>
    /\ tombstones = 0
    /\ pending = 0
    /\ lastCall = Call("None", NoEntry)

\* Get(index): the value at the entry's position, and whether there is one.
Get(k) ==
    IF index[k] = NoEntry THEN [found |-> FALSE, val |-> Nil]
                          ELSE [found |-> TRUE, val |-> storage[index[k] + 1]]

\* Len(): tree.Len().
Length == Cardinality(Present)

\* A plausible bug in Add (ReplaceOrInsert without the Get check, an
\* upsert): the refinement must catch it.
AddUpsert(k, v) ==
    /\ Len(storage) < MaxSlots
    /\ index' = [index EXCEPT ![k] = Len(storage)]
    /\ storage' = Append(storage, v)
    /\ lastCall' = Call("Add", k)
    /\ UNCHANGED <<tombstones, pending>>

\* Add(index, value): returns early when the key is in the tree; otherwise
\* appends value and inserts {k, len(storage)}.
Add(k, v) ==
    /\ \/ /\ index[k] # NoEntry
          /\ UNCHANGED <<index, storage>>
       \/ /\ index[k] = NoEntry
          /\ Len(storage) < MaxSlots
          /\ index' = [index EXCEPT ![k] = Len(storage)]
          /\ storage' = Append(storage, v)
    /\ lastCall' = Call("Add", k)
    /\ UNCHANGED <<tombstones, pending>>

\* A plausible bug in Delete (the slot is not set to nil, so the value is
\* kept alive): SlotAccounting must catch it.
DeleteKeepsValue(k) ==
    LET spawn == OverThreshold(tombstones + 1, Len(storage))
    IN  /\ index[k] # NoEntry
        /\ spawn => pending < MaxPending
        /\ index' = [index EXCEPT ![k] = NoEntry]
        /\ UNCHANGED storage
        /\ tombstones' = tombstones + 1
        /\ pending' = IF spawn THEN pending + 1 ELSE pending
        /\ lastCall' = Call("Delete", k)

\* A plausible bug in Delete (atomic.AddInt64(&s.tombstones, -1), a sign
\* error): TypeOK must catch it.
DeleteDecrements(k) ==
    /\ index[k] # NoEntry
    /\ index' = [index EXCEPT ![k] = NoEntry]
    /\ storage' = [storage EXCEPT ![index[k] + 1] = Nil]
    /\ tombstones' = tombstones - 1
    /\ UNCHANGED pending
    /\ lastCall' = Call("Delete", k)

\* A plausible bug in Delete (the ratio is tested before the increment):
\* ScheduledWhenOver must catch it.
DeleteStaleRatio(k) ==
    LET spawn == OverThreshold(tombstones, Len(storage))
    IN  /\ index[k] # NoEntry
        /\ spawn => pending < MaxPending
        /\ index' = [index EXCEPT ![k] = NoEntry]
        /\ storage' = [storage EXCEPT ![index[k] + 1] = Nil]
        /\ tombstones' = tombstones + 1
        /\ pending' = IF spawn THEN pending + 1 ELSE pending
        /\ lastCall' = Call("Delete", k)

\* A plausible bug in Delete (no `go s.CompactIncremental()`): the
\* liveness property must catch it.
DeleteNoSpawn(k) ==
    /\ index[k] # NoEntry
    /\ index' = [index EXCEPT ![k] = NoEntry]
    /\ storage' = [storage EXCEPT ![index[k] + 1] = Nil]
    /\ tombstones' = tombstones + 1
    /\ UNCHANGED pending
    /\ lastCall' = Call("Delete", k)

\* Delete(index): removes the entry, clears its slot, counts the tombstone,
\* and starts a compaction goroutine when the new ratio exceeds threshold.
\* Deleting an absent key changes nothing.
Delete(k) ==
    LET spawn == OverThreshold(tombstones + 1, Len(storage))
    IN  /\ \/ /\ index[k] = NoEntry
              /\ UNCHANGED <<index, storage, tombstones, pending>>
           \/ /\ index[k] # NoEntry
              /\ spawn => pending < MaxPending
              /\ index' = [index EXCEPT ![k] = NoEntry]
              /\ storage' = [storage EXCEPT ![index[k] + 1] = Nil]
              /\ tombstones' = tombstones + 1
              /\ pending' = IF spawn THEN pending + 1 ELSE pending
        /\ lastCall' = Call("Delete", k)

\* The entries the Ascend of CompactIncremental visits before it stops:
\* the first batchSize keys when batchSize > 0, every key otherwise.
Visited ==
    IF BatchSize <= 0 THEN Present
                      ELSE {k \in Present : Rank(Present, k) < BatchSize}

\* The visited entries whose slot is not nil; they are the new contents.
Kept == {k \in Visited : storage[index[k] + 1] # Nil}

\* The body of CompactIncremental: newStorage holds the kept values in key
\* order, newTree maps each kept key to its new position, and both branches
\* of the final if replace storage and tree and zero the tombstones.
Compact ==
    /\ index' = [k \in Keys |-> IF k \in Kept THEN Rank(Kept, k) ELSE NoEntry]
    /\ storage' = [i \in 1..Cardinality(Kept) |->
                      storage[index[KeyOfRank(Kept, i - 1)] + 1]]
    /\ tombstones' = 0
    /\ lastCall' = Call("Compact", NoEntry)

\* A caller invokes CompactIncremental() directly.
CompactIncremental ==
    /\ Compact
    /\ UNCHANGED pending

\* A goroutine started by Delete gets s.mu and runs CompactIncremental().
BackgroundCompact ==
    /\ pending > 0
    /\ Compact
    /\ pending' = pending - 1

Next ==
    \/ \E k \in Keys : \/ \E v \in Vals : Add(k, v)
                       \/ Delete(k)
    \/ CompactIncremental
    \/ BackgroundCompact

Spec == Init /\ [][Next]_vars

\* sync.Mutex hands the lock to a waiter that has waited over 1ms
\* (starvation mode), so a started goroutine is not blocked forever.
FairSpec == Spec /\ WF_vars(BackgroundCompact)

-----------------------------------------------------------------------------
(* Properties *)

TypeOK ==
    /\ index \in [Keys -> (0..(MaxSlots - 1)) \cup {NoEntry}]
    /\ storage \in Seq(Slot)
    /\ Len(storage) <= MaxSlots
    /\ tombstones \in Nat
    /\ pending \in 0..MaxPending
    /\ lastCall \in [op : {"None", "Add", "Delete", "Compact"},
                     key : Keys \cup {NoEntry}]

\* Every entry of the tree points at its own slot of storage, and the
\* tombstone counter is exactly the number of slots no entry points at,
\* each of which has been cleared to nil.  Delete, Add and both branches of
\* CompactIncremental each have to keep the counter and the positions in
\* step for the threshold test in Delete to mean what it says.
SlotAccounting ==
    /\ \A k \in Present : index[k] < Len(storage)
    /\ \A j, k \in Present : j # k => index[j] # index[k]
    /\ tombstones + Cardinality(Present) = Len(storage)
    /\ \A p \in 0..(Len(storage) - 1) :
          (\A k \in Present : index[k] # p) => storage[p + 1] = Nil

\* Whenever the tombstone ratio is above the threshold, a compaction
\* goroutine started by Delete is waiting: the store never sits above its
\* threshold with nothing scheduled to reclaim the slots.
ScheduledWhenOver ==
    OverThreshold(tombstones, Len(storage)) => pending > 0

\* Once the tombstone ratio exceeds the threshold, a compaction eventually
\* reclaims every tombstone (the goroutine started by Delete runs).
\* (The ratio test is taken from the finite set of (tombstones, len) pairs
\* over the threshold, so that TLC evaluates it on constants only.)
OverThresholdPairs ==
    {p \in (0..MaxSlots) \X (0..MaxSlots) : OverThreshold(p[1], p[2])}

OverThresholdReclaimed ==
    (<<tombstones, Len(storage)>> \in OverThresholdPairs) ~> (tombstones = 0)

\* At most one compaction is waiting at a time: the single-flight guard the
\* design notes ask of the delete-triggered compaction (spec section 9).
AtMostOneCompactionPending == pending <= 1

\* The store implements AppendLogKV: Get and Len answer as a map in which
\* Add never overwrites, Delete forgets, and compaction changes nothing.
kvBar == [k \in Keys |-> IF Get(k).found THEN Get(k).val ELSE NoEntry]

AbsKV == INSTANCE AppendLogKV
            WITH Missing <- NoEntry, kv <- kvBar, lastCall <- lastCall

ImplementsAppendLogKV == AbsKV!Spec
==============================================================================
