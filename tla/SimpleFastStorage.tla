-------------------------- MODULE SimpleFastStorage --------------------------
(***************************************************************************)
(* SimpleFastStorage (src/simple_fast_storage.go): a Go map `set` from     *)
(* keys to positions in the append-only slice `storage`, behind one        *)
(* RWMutex.  Add and Get each hold the mutex for their whole body, so each *)
(* is one atomic step.  Keys ([8]byte) and values ([]byte, nil included)   *)
(* are elements of constant sets; positions are 0-based as in the code,    *)
(* so slot p is storage[p + 1].                                            *)
(***************************************************************************)
EXTENDS Naturals, Sequences, FiniteSets

CONSTANTS
    Keys,     \* the byte8 indexes callers use
    Vals,     \* the values callers pass to Add (nil among them if wanted)
    NoEntry   \* set[k] = NoEntry: the map holds no entry for k

ASSUME StorageAssumption ==
    /\ IsFiniteSet(Keys)
    /\ NoEntry \notin Nat \cup Vals

VARIABLES
    set,       \* s.set
    storage,   \* s.storage
    lastCall   \* history: the method that ran last, and its key

vars == <<set, storage, lastCall>>

Call(op, k) == [op |-> op, key |-> k]

\* The keys the map holds.
Present == {k \in Keys : set[k] # NoEntry}

\* NewSimpleFastStorage: an empty map and an empty slice.
Init ==
    /\ set = [k \in Keys |-> NoEntry]
    /\ storage = << >>
    /\ lastCall = Call("None", NoEntry)

\* Get(index): the slot the map points to, under RLock.
Get(k) ==
    IF set[k] # NoEntry THEN [found |-> TRUE, val |-> storage[set[k] + 1]]
                        ELSE [found |-> FALSE, val |-> NoEntry]

\* Mutant: the position is taken after the append.
AddPositionAfterAppend(k, v) ==
    /\ IF set[k] = NoEntry
       THEN /\ storage' = Append(storage, v)
            /\ set' = [set EXCEPT ![k] = Len(storage')]
       ELSE UNCHANGED <<set, storage>>
    /\ lastCall' = Call("Add", k)

\* Mutant: Add overwrites the entry of a present key.
AddOverwrites(k, v) ==
    /\ set' = [set EXCEPT ![k] = Len(storage)]
    /\ storage' = Append(storage, v)
    /\ lastCall' = Call("Add", k)

\* Add(index, value), under Lock: only a key with no entry gets one, at
\* the end of storage.
Add(k, v) ==
    /\ IF set[k] = NoEntry
       THEN /\ set' = [set EXCEPT ![k] = Len(storage)]
            /\ storage' = Append(storage, v)
       ELSE UNCHANGED <<set, storage>>
    /\ lastCall' = Call("Add", k)

Next == \E k \in Keys, v \in Vals : Add(k, v)

Spec == Init /\ [][Next]_vars

-----------------------------------------------------------------------------
TypeOK ==
    /\ set \in [Keys -> Nat \cup {NoEntry}]
    /\ storage \in Seq(Vals)
    /\ lastCall \in [op : {"None", "Add"}, key : Keys \cup {NoEntry}]

\* Every slot of storage belongs to exactly one key: the positions of the
\* keys present are distinct, inside storage, and as many as the slots.
\* Get never reads past the slice and never returns another key's value.
SlotsOwned ==
    /\ \A k \in Present : set[k] < Len(storage)
    /\ \A j, k \in Present : j # k => set[j] # set[k]
    /\ Cardinality(Present) = Len(storage)

\* What Get answers for every key, as a map.
kvBar == [k \in Keys |-> IF Get(k).found THEN Get(k).val ELSE NoEntry]

\* The store implements AppendLogKV: Get answers as a map in which Add
\* never overwrites (first writer wins).
AbsKV == INSTANCE AppendLogKV WITH Missing <- NoEntry, kv <- kvBar

ImplementsAppendLogKV == AbsKV!Spec
=============================================================================
