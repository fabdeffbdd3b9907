------------------------------ MODULE TtlBTree ------------------------------
(***************************************************************************)
(* ByteKeyBTree, the TTL B-tree of Items (src/unnamed/part_010, the second *)
(* version, lines 397-765), used by concurrent client goroutines.  Every   *)
(* method takes b.mu once, except PurgeExpiredAt, which collects the       *)
(* expired items under RLock and deletes them by key under Lock: it is two *)
(* steps, and a client between them holds the list it collected.          *)
(*                                                                         *)
(* Byte keys are naturals ordered as bytes.Compare orders them, the empty  *)
(* key (which every method skips) is EmptyKey.  The tree is abstracted to *)
(* the expiration, in Unix seconds, of the record each key holds; values   *)
(* play no part in what the tree decides.  Callers pass fresh Items and    *)
(* the current time, so SetExpirationTime, done before the lock, writes an *)
(* object no other goroutine sees.                                         *)
(***************************************************************************)
EXTENDS Integers, Sequences, FiniteSets

CONSTANTS
    Keys,         \* the non-empty keys, as naturals
    EmptyKey,     \* the empty key
    Clients,      \* client goroutines
    TTL,          \* the ttl passed to PurgeExpiredAt, in seconds
    MaxToDelete,  \* PurgeExpiredAt's maxToDelete (<= 0: no limit)
    MaxBatch,     \* bound on the items of an UpsertManyAt or DeleteMany
    MaxTime       \* the horizon of the runs, in seconds

ASSUME TtlAssumption ==
    /\ Keys \subseteq Nat /\ EmptyKey \notin Keys
    /\ TTL \in Int /\ MaxToDelete \in Int
    /\ MaxBatch \in Nat /\ MaxTime \in Nat

Absent == -1

\* The items a call may pass: a key, possibly empty.
ItemKeys == Keys \cup {EmptyKey}

\* The slices of items a batch call may pass, duplicates included.
Batches == UNION {[1..n -> ItemKeys] : n \in 0..MaxBatch}

Ops == {"None", "UpsertAt", "UpsertManyAt", "Delete", "DeleteMany", "Reset",
        "PurgeScan", "PurgeDelete"}

VARIABLES
    tree,     \* key -> expiration of its record (Absent: no record)
    clock,    \* time.Now(), in Unix seconds
    pc,       \* "idle", or "purge_delete" between PurgeExpiredAt's phases
    pending,  \* itemsToDelete of a client inside PurgeExpiredAt
    cutoff,   \* the cutoffUnix of that call
    last      \* the call the latest step made: method, client, result
              \* (op "None" when the step was time passing)

vars == <<tree, clock, pc, pending, cutoff, last>>

Present == {k \in Keys : tree[k] # Absent}

\* Size(): tree.Len().
Size == Cardinality(Present)

\* Has and GetLastWriteUnix, under RLock.
Has(k) == k \in Keys /\ tree[k] # Absent
GetLastWriteUnix(k) == IF Has(k) THEN tree[k] ELSE 0

Call(op, c, r) == [op |-> op, client |-> c, ret |-> r]

\* NewByteKeyBTree: an empty tree.
Init ==
    /\ tree = [k \in Keys |-> Absent]
    /\ clock = 0
    /\ pc = [c \in Clients |-> "idle"]
    /\ pending = [c \in Clients |-> << >>]
    /\ cutoff = [c \in Clients |-> 0]
    /\ last = Call("None", CHOOSE c \in Clients : TRUE, 0)

\* A client calls a method that holds b.mu for its whole body.
Atomic(c, op, newTree, r) ==
    /\ pc[c] = "idle"
    /\ tree' = newTree
    /\ last' = Call(op, c, r)
    /\ UNCHANGED <<clock, pc, pending, cutoff>>

\* UpsertAt(item, now): an empty key returns false; otherwise the item's
\* expiration is set and ReplaceOrInsert stores it; true when the key was
\* new.
UpsertAt(c, k) ==
    IF k = EmptyKey THEN Atomic(c, "UpsertAt", tree, 0)
    ELSE Atomic(c, "UpsertAt", [tree EXCEPT ![k] = clock],
                IF tree[k] = Absent THEN 1 ELSE 0)

\* The loop of UpsertManyAt over items[1..i]: the tree and the count of
\* new keys.  Empty keys are skipped; a key repeated in the slice is new
\* only the first time.
UpsertLoop(items, i) ==
    LET step[j \in 0..i] ==
          IF j = 0 THEN [t |-> tree, added |-> 0]
          ELSE LET prev == step[j - 1]
                   k    == items[j]
               IN  IF k = EmptyKey THEN prev
                   ELSE [t |-> [prev.t EXCEPT ![k] = clock],
                         added |-> prev.added
                                   + (IF prev.t[k] = Absent THEN 1 ELSE 0)]
    IN  step[i]

\* UpsertManyAt(items, now) under one Lock.  An empty slice returns 0
\* before the lock.
UpsertManyAt(c, items) ==
    IF Len(items) = 0 THEN Atomic(c, "UpsertManyAt", tree, 0)
    ELSE LET r == UpsertLoop(items, Len(items)) IN
         Atomic(c, "UpsertManyAt", r.t, r.added)

\* Delete(item): true when a record was removed.
Delete(c, k) ==
    IF k = EmptyKey THEN Atomic(c, "Delete", tree, 0)
    ELSE Atomic(c, "Delete", [tree EXCEPT ![k] = Absent],
                IF tree[k] # Absent THEN 1 ELSE 0)

\* The delete loop of DeleteMany and of PurgeExpiredAt's second phase over
\* keys[1..i]: the tree and the count of records removed, by key.
DeleteLoop(keys, i) ==
    LET step[j \in 0..i] ==
          IF j = 0 THEN [t |-> tree, deleted |-> 0]
          ELSE LET prev == step[j - 1]
                   k    == keys[j]
               IN  IF k = EmptyKey THEN prev
                   ELSE [t |-> [prev.t EXCEPT ![k] = Absent],
                         deleted |-> prev.deleted
                                     + (IF prev.t[k] # Absent THEN 1 ELSE 0)]
    IN  step[i]

\* DeleteMany(items) under one Lock.
DeleteMany(c, items) ==
    LET r == DeleteLoop(items, Len(items)) IN
    Atomic(c, "DeleteMany", r.t, r.deleted)

\* Reset: tree.Clear under Lock.
Reset(c) == Atomic(c, "Reset", [k \in Keys |-> Absent], 0)

\* The Ascend of PurgeExpiredAt (and ListExpiredAt) over the keys in
\* ascending order: a record expiring at or before cut is appended, and the
\* walk stops as soon as maxToDelete > 0 items have been collected.
Stopped(acc) == MaxToDelete > 0 /\ Len(acc) >= MaxToDelete

SortedKeys == CHOOSE s \in [1..Cardinality(Keys) -> Keys] :
                  \A i, j \in DOMAIN s : i < j => s[i] < s[j]

\* Mutant: the walk stops only once more than maxToDelete are collected.
CollectExpiredPastLimit(cut) ==
    LET n == Len(SortedKeys)
        step[j \in 0..n] ==
          IF j = 0 THEN << >>
          ELSE LET acc == step[j - 1]
                   k   == SortedKeys[j]
               IN  IF (MaxToDelete > 0 /\ Len(acc) > MaxToDelete)
                      \/ tree[k] = Absent \/ tree[k] > cut
                   THEN acc ELSE Append(acc, k)
    IN  step[n]

CollectExpired(cut) ==
    LET n == Len(SortedKeys)
        step[j \in 0..n] ==
          IF j = 0 THEN << >>
          ELSE LET acc == step[j - 1]
                   k   == SortedKeys[j]
               IN  IF Stopped(acc) \/ tree[k] = Absent \/ tree[k] > cut
                   THEN acc ELSE Append(acc, k)
    IN  step[n]

\* ListExpiredAt(now, ttl, maxCount), under RLock: nil for ttl <= 0.
ListExpiredAt(now) == IF TTL <= 0 THEN << >> ELSE CollectExpired(now - TTL)

\* PurgeExpiredAt(now, ttl, maxToDelete), first phase: ttl <= 0 returns 0;
\* otherwise the expired items are collected under RLock, and an empty list
\* returns 0.
PurgeScan(c) ==
    /\ pc[c] = "idle"
    /\ LET items == IF TTL <= 0 THEN << >> ELSE CollectExpired(clock - TTL) IN
       IF items = << >>
       THEN /\ last' = Call("PurgeScan", c, 0)
            /\ UNCHANGED <<pc, pending, cutoff>>
       ELSE /\ pc' = [pc EXCEPT ![c] = "purge_delete"]
            /\ pending' = [pending EXCEPT ![c] = items]
            /\ cutoff' = [cutoff EXCEPT ![c] = clock - TTL]
            /\ last' = Call("PurgeScan", c, Len(items))
    /\ UNCHANGED <<tree, clock>>

\* Mutant: the purge returns how many items it collected.
PurgeDeleteCountsCollected(c) ==
    /\ pc[c] = "purge_delete"
    /\ LET r == DeleteLoop(pending[c], Len(pending[c])) IN
       /\ tree' = r.t
       /\ last' = Call("PurgeDelete", c, Len(pending[c]))
    /\ pc' = [pc EXCEPT ![c] = "idle"]
    /\ pending' = [pending EXCEPT ![c] = << >>]
    /\ UNCHANGED <<clock, cutoff>>

\* PurgeExpiredAt, second phase: under Lock, each collected item is deleted
\* by key, and the records actually removed are counted.
PurgeDelete(c) ==
    /\ pc[c] = "purge_delete"
    /\ LET r == DeleteLoop(pending[c], Len(pending[c])) IN
       /\ tree' = r.t
       /\ last' = Call("PurgeDelete", c, r.deleted)
    /\ pc' = [pc EXCEPT ![c] = "idle"]
    /\ pending' = [pending EXCEPT ![c] = << >>]
    /\ UNCHANGED <<clock, cutoff>>

\* Time passes.
Tick ==
    /\ clock < MaxTime
    /\ clock' = clock + 1
    /\ last' = Call("None", last.client, 0)
    /\ UNCHANGED <<tree, pc, pending, cutoff>>

Next ==
    \/ \E c \in Clients :
          \/ \E k \in ItemKeys : UpsertAt(c, k) \/ Delete(c, k)
          \/ \E items \in Batches : UpsertManyAt(c, items) \/ DeleteMany(c, items)
          \/ Reset(c) \/ PurgeScan(c) \/ PurgeDelete(c)
    \/ Tick

Spec == Init /\ [][Next]_vars

-----------------------------------------------------------------------------
TypeOK ==
    /\ tree \in [Keys -> {Absent} \cup 0..MaxTime]
    /\ clock \in 0..MaxTime
    /\ pc \in [Clients -> {"idle", "purge_delete"}]
    /\ pending \in [Clients -> Seq(Keys)]
    /\ last \in [op : Ops, client : Clients, ret : Nat]

\* What the counting methods return is the change of Size() they made:
\* UpsertAt and UpsertManyAt count the keys that were new (a key repeated
\* in one slice once), Delete, DeleteMany and PurgeExpiredAt the records
\* they removed, even when another goroutine deleted some of the collected
\* items between PurgeExpiredAt's two phases.
ReturnsMatchSize ==
    [][/\ last'.op \in {"UpsertAt", "UpsertManyAt"} => last'.ret = Size' - Size
       /\ last'.op \in {"Delete", "DeleteMany", "PurgeDelete"}
             => last'.ret = Size - Size']_vars

\* The expired records, at or before cut, and the ones PurgeExpiredAt
\* should collect: the maxToDelete smallest keys of them (all when the
\* limit is off).
ExpiredSet(cut) == {k \in Present : tree[k] <= cut}
FirstExpired(cut) ==
    IF MaxToDelete <= 0 THEN ExpiredSet(cut)
    ELSE {k \in ExpiredSet(cut) :
            Cardinality({j \in ExpiredSet(cut) : j < k}) < MaxToDelete}

\* The first phase of PurgeExpiredAt collects exactly the maxToDelete
\* smallest expired keys, each once, in ascending order: the early stop of
\* the Ascend neither cuts the list short nor lets it run over the limit.
PurgeCollectsFirstExpired ==
    [][\A c \in Clients :
          pc'[c] = "purge_delete" /\ pc[c] = "idle" =>
             /\ {pending'[c][i] : i \in DOMAIN pending'[c]}
                   = FirstExpired(cutoff'[c])
             /\ \A i, j \in DOMAIN pending'[c] :
                   i < j => pending'[c][i] < pending'[c][j]]_vars

\* The comment on PurgeExpiredAt: it deletes the keys whose last write is
\* older than now - ttl.  A record it removes still has an expiration at or
\* before the cutoff of that call.
PurgeRemovesOnlyExpired ==
    [][\A c \in Clients :
          pc[c] = "purge_delete" /\ pc'[c] = "idle" =>
             \A k \in Keys :
                tree[k] # Absent /\ tree'[k] = Absent => tree[k] <= cutoff[c]]_vars
=============================================================================
