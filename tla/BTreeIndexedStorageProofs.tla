---------------------- MODULE BTreeIndexedStorageProofs ----------------------
(***************************************************************************)
(* Proofs about BTreeIndexedStorage for every value of the constants.      *)
(* The inductive invariant is IInv == TypeOK /\ SlotAccounting: TypeOK     *)
(* alone is not inductive, because the positions CompactIncremental        *)
(* assigns stay below MaxSlots, and the values it copies are well defined, *)
(* only when every entry points inside storage and the entries are fewer   *)
(* than the slots, which is what SlotAccounting says.                      *)
(***************************************************************************)
EXTENDS BTreeIndexedStorage, FiniteSetTheorems, SequenceTheorems, TLAPS

\* The keys below k in S.
Below(S, k) == {j \in S : j < k}

\* The rank of an element of a finite set of naturals (its position in an
\* ascending traversal) lies in 0..Cardinality(S)-1, distinct elements have
\* distinct ranks, and every rank in that interval is the rank of one of
\* them: the ascending traversal of CompactIncremental assigns dense,
\* distinct new positions.
LEMMA RankBijection ==
    ASSUME NEW S \in SUBSET Nat, IsFiniteSet(S)
    PROVE  /\ \A k \in S : Rank(S, k) \in 0..(Cardinality(S) - 1)
           /\ \A j, k \in S : j # k => Rank(S, j) # Rank(S, k)
           /\ \A r \in 0..(Cardinality(S) - 1) :
                 /\ KeyOfRank(S, r) \in S
                 /\ Rank(S, KeyOfRank(S, r)) = r
<1>1. Cardinality(S) \in Nat
    BY FS_CardinalityType
<1>2. \A k \in S : /\ IsFiniteSet(Below(S, k))
                   /\ Rank(S, k) = Cardinality(Below(S, k))
                   /\ Rank(S, k) \in Nat
    BY FS_Subset, FS_CardinalityType DEF Below, Rank
<1>3. \A k \in S : Rank(S, k) \in 0..(Cardinality(S) - 1)
    <2> SUFFICES ASSUME NEW k \in S PROVE Rank(S, k) \in 0..(Cardinality(S) - 1)
        OBVIOUS
    <2>1. IsFiniteSet(S \ {k}) /\ Cardinality(S \ {k}) = Cardinality(S) - 1
        BY FS_RemoveElement
    <2>2. Below(S, k) \subseteq S \ {k}
        BY DEF Below
    <2>3. Cardinality(Below(S, k)) <= Cardinality(S) - 1
        BY <2>1, <2>2, FS_Subset
    <2>4. QED
        BY <1>1, <1>2, <2>3
<1>4. ASSUME NEW j \in S, NEW k \in S, j < k
      PROVE  Rank(S, j) < Rank(S, k)
    <2>1. Below(S, j) \subseteq Below(S, k)
        <3> SUFFICES ASSUME NEW x \in S, x < j PROVE x < k
            BY DEF Below
        <3>1. x \in Nat /\ j \in Nat /\ k \in Nat
            OBVIOUS
        <3>2. QED
            BY <3>1, <1>4
    <2>2. j \in Below(S, k) /\ j \notin Below(S, j)
        BY <1>4 DEF Below
    <2>3. Cardinality(Below(S, j)) <= Cardinality(Below(S, k))
          /\ (Cardinality(Below(S, k)) = Cardinality(Below(S, j))
                => Below(S, k) = Below(S, j))
        BY <1>2, <2>1, FS_Subset
    <2>4. QED
        BY <1>2, <2>2, <2>3
<1>5. \A j, k \in S : j # k => Rank(S, j) # Rank(S, k)
    BY <1>4, <1>2
<1>6. \A r \in 0..(Cardinality(S) - 1) : \E k \in S : Rank(S, k) = r
    <2> DEFINE f == [k \in S |-> Rank(S, k)]
               T == 0..(Cardinality(S) - 1)
    <2>1. f \in [S -> T]
        BY <1>3
    <2>2. IsInjective(f)
        BY <1>5 DEF IsInjective
    <2>3. f \in Injection(S, T)
        BY <2>1, <2>2 DEF Injection
    <2>4. IsFiniteSet(T) /\ Cardinality(T) = Cardinality(S)
        <3>1. /\ IsFiniteSet(T)
              /\ Cardinality(T) = IF 0 > Cardinality(S) - 1 THEN 0
                                  ELSE (Cardinality(S) - 1) - 0 + 1
            BY <1>1, FS_Interval
        <3>2. QED
            BY <1>1, <3>1
    <2>5. f \in Surjection(S, T)
        BY <2>3, <2>4, FS_Injection
    <2>6. QED
        BY <2>5 DEF Surjection
<1>7. QED
    BY <1>3, <1>5, <1>6 DEF KeyOfRank

-----------------------------------------------------------------------------
IInv == TypeOK /\ SlotAccounting

\* The keys in the tree are a finite set of naturals.
LEMMA PresentFinite ==
    ASSUME TypeOK
    PROVE  /\ Present \subseteq Nat
           /\ IsFiniteSet(Present)
           /\ Cardinality(Present) \in Nat
    BY KeysAssumption, FS_Subset, FS_CardinalityType DEF Present

LEMMA InitIInv == Init => IInv
<1> SUFFICES ASSUME Init PROVE IInv
    OBVIOUS
<1>1. Present = {}
    BY NoEntryAssumption DEF Init, Present
<1>2. TypeOK
    BY BoundsAssumption, NoEntryAssumption DEF Init, TypeOK, Call
<1>3. SlotAccounting
    BY <1>1, FS_EmptySet DEF Init, SlotAccounting
<1>4. QED
    BY <1>2, <1>3 DEF IInv

\* The call record each method leaves is well typed.
LEMMA CallType ==
    ASSUME NEW op \in {"None", "Add", "Delete", "Compact"},
           NEW k \in Keys \cup {NoEntry}
    PROVE  Call(op, k) \in [op : {"None", "Add", "Delete", "Compact"},
                            key : Keys \cup {NoEntry}]
    BY DEF Call

\* Add keeps the invariant: the new entry takes the slot just appended, past
\* every position in use, and the tombstone count is unchanged.
LEMMA AddIInv ==
    ASSUME IInv, NEW k \in Keys, NEW v \in Vals, Add(k, v)
    PROVE  IInv'
<1> USE DEF IInv
<1>1. /\ Present \subseteq Nat /\ IsFiniteSet(Present)
      /\ Cardinality(Present) \in Nat
    BY PresentFinite
<1>2. lastCall' \in [op : {"None", "Add", "Delete", "Compact"},
                     key : Keys \cup {NoEntry}]
    BY CallType DEF Add
<1>3. CASE index[k] # NoEntry /\ UNCHANGED <<index, storage>>
    <2>1. UNCHANGED <<index, storage, tombstones, pending>>
        BY <1>3 DEF Add
    <2>2. Present' = Present
        BY <2>1 DEF Present
    <2>3. TypeOK'
        BY <1>2, <2>1 DEF TypeOK
    <2>4. SlotAccounting'
        BY <2>1, <2>2 DEF SlotAccounting
    <2>5. QED
        BY <2>3, <2>4
<1>4. CASE /\ index[k] = NoEntry
           /\ Len(storage) < MaxSlots
           /\ index' = [index EXCEPT ![k] = Len(storage)]
           /\ storage' = Append(storage, v)
    <2> DEFINE n == Len(storage)
    <2>1. UNCHANGED <<tombstones, pending>>
        BY DEF Add
    <2>2. n \in Nat /\ storage \in Seq(Slot)
        BY DEF TypeOK
    <2>3. /\ storage' \in Seq(Slot)
          /\ Len(storage') = n + 1
          /\ \A p \in 1..n : storage'[p] = storage[p]
          /\ storage'[n + 1] = v
        BY <1>4, <2>2 DEF Slot
    <2>4. Present' = Present \cup {k}
        BY <1>4, <2>2, NoEntryAssumption DEF Present, TypeOK
    <2>5. k \notin Present
        BY <1>4 DEF Present
    <2>6. Cardinality(Present') = Cardinality(Present) + 1
        BY <1>1, <2>4, <2>5, FS_AddElement
    <2>7. TypeOK'
        BY <1>2, <1>4, <2>1, <2>2, <2>3, BoundsAssumption DEF TypeOK
    <2>8. \A j \in Present : index[j] < n /\ index[j] \in Nat
        BY DEF SlotAccounting, TypeOK, Present
    <2>9. \A j \in Present : index'[j] = index[j]
        BY <1>4, <2>5 DEF TypeOK
    <2>10. SlotAccounting'
        <3>1. \A j \in Present' : index'[j] < Len(storage')
            BY <1>4, <2>3, <2>4, <2>8, <2>9 DEF TypeOK
        <3>2. \A i, j \in Present' : i # j => index'[i] # index'[j]
            BY <1>4, <2>4, <2>8, <2>9 DEF SlotAccounting, TypeOK
        <3>3. tombstones' + Cardinality(Present') = Len(storage')
            BY <2>1, <2>3, <2>6, <1>1 DEF SlotAccounting, TypeOK
        <3>4. \A p \in 0..(Len(storage') - 1) :
                 (\A j \in Present' : index'[j] # p) => storage'[p + 1] = Nil
            <4> SUFFICES ASSUME NEW p \in 0..(Len(storage') - 1),
                                \A j \in Present' : index'[j] # p
                         PROVE  storage'[p + 1] = Nil
                OBVIOUS
            <4>1. p # n
                BY <1>4, <2>4, <2>2 DEF TypeOK
            <4>2. p \in 0..(n - 1)
                BY <4>1, <2>3, <2>2
            <4>3. \A j \in Present : index[j] # p
                BY <2>4, <2>9
            <4>4. storage[p + 1] = Nil
                BY <4>2, <4>3 DEF SlotAccounting
            <4>5. QED
                BY <4>2, <4>4, <2>3
        <3>5. QED
            BY <3>1, <3>2, <3>3, <3>4 DEF SlotAccounting
    <2>11. QED
        BY <2>7, <2>10
<1>5. QED
    BY <1>3, <1>4 DEF Add

\* Delete keeps the invariant: the freed slot is cleared and counted as a
\* tombstone, and no other entry moves.
LEMMA DeleteIInv ==
    ASSUME IInv, NEW k \in Keys, Delete(k)
    PROVE  IInv'
<1> USE DEF IInv
<1> DEFINE spawn == OverThreshold(tombstones + 1, Len(storage))
<1>1. /\ Present \subseteq Nat /\ IsFiniteSet(Present)
      /\ Cardinality(Present) \in Nat
    BY PresentFinite
<1>2. lastCall' \in [op : {"None", "Add", "Delete", "Compact"},
                     key : Keys \cup {NoEntry}]
    BY CallType DEF Delete
<1>3. CASE index[k] = NoEntry /\ UNCHANGED <<index, storage, tombstones, pending>>
    <2>1. Present' = Present
        BY <1>3 DEF Present
    <2>2. TypeOK'
        BY <1>2, <1>3 DEF TypeOK
    <2>3. SlotAccounting'
        BY <1>3, <2>1 DEF SlotAccounting
    <2>4. QED
        BY <2>2, <2>3
<1>4. CASE /\ index[k] # NoEntry
           /\ spawn => pending < MaxPending
           /\ index' = [index EXCEPT ![k] = NoEntry]
           /\ storage' = [storage EXCEPT ![index[k] + 1] = Nil]
           /\ tombstones' = tombstones + 1
           /\ pending' = IF spawn THEN pending + 1 ELSE pending
    <2> DEFINE n == Len(storage)
               pos == index[k]
    <2>1. k \in Present
        BY <1>4 DEF Present
    <2>2. n \in Nat /\ storage \in Seq(Slot) /\ pos \in 0..(n - 1)
        BY <1>4, <2>1 DEF TypeOK, SlotAccounting
    <2>3. /\ storage' \in Seq(Slot)
          /\ Len(storage') = n
          /\ storage'[pos + 1] = Nil
          /\ \A p \in 1..n : p # pos + 1 => storage'[p] = storage[p]
        BY <1>4, <2>2 DEF Slot
    <2>4. Present' = Present \ {k}
        BY <1>4 DEF Present, TypeOK
    <2>5. Cardinality(Present') = Cardinality(Present) - 1
        BY <1>1, <2>1, <2>4, FS_RemoveElement
    <2>6. \A j \in Present' : index'[j] = index[j]
        BY <1>4, <2>4 DEF TypeOK
    <2>7. pending' \in 0..MaxPending
        BY <1>4, BoundsAssumption DEF TypeOK
    <2>8. TypeOK'
        BY <1>2, <1>4, <2>3, <2>7, NoEntryAssumption DEF TypeOK
    <2>9. SlotAccounting'
        <3>1. \A j \in Present' : index'[j] < Len(storage')
            BY <2>3, <2>4, <2>6 DEF SlotAccounting
        <3>2. \A i, j \in Present' : i # j => index'[i] # index'[j]
            BY <2>4, <2>6 DEF SlotAccounting
        <3>3. tombstones' + Cardinality(Present') = Len(storage')
            BY <1>4, <2>3, <2>5, <1>1 DEF SlotAccounting, TypeOK
        <3>4. \A p \in 0..(Len(storage') - 1) :
                 (\A j \in Present' : index'[j] # p) => storage'[p + 1] = Nil
            <4> SUFFICES ASSUME NEW p \in 0..(Len(storage') - 1),
                                \A j \in Present' : index'[j] # p
                         PROVE  storage'[p + 1] = Nil
                OBVIOUS
            <4>1. CASE p = pos
                BY <4>1, <2>3
            <4>2. CASE p # pos
                <5>1. \A j \in Present : index[j] # p
                    BY <4>2, <2>4, <2>6
                <5>2. storage[p + 1] = Nil
                    BY <5>1, <2>3 DEF SlotAccounting
                <5>3. QED
                    BY <4>2, <5>2, <2>2, <2>3
            <4>3. QED
                BY <4>1, <4>2
        <3>5. QED
            BY <3>1, <3>2, <3>3, <3>4 DEF SlotAccounting
    <2>10. QED
        BY <2>8, <2>9
<1>5. QED
    BY <1>3, <1>4 DEF Delete

\* The body of CompactIncremental keeps the invariant: the kept entries get
\* the dense positions 0..m-1 in key order (RankBijection), storage holds
\* exactly their values, and there are no tombstones left.
LEMMA CompactIInv ==
    ASSUME IInv, Compact, pending' \in 0..MaxPending
    PROVE  IInv'
<1> USE DEF IInv
<1> DEFINE m == Cardinality(Kept)
<1>1. /\ Present \subseteq Nat /\ IsFiniteSet(Present)
      /\ Cardinality(Present) \in Nat
    BY PresentFinite
<1>2. Kept \subseteq Present
    BY DEF Kept, Visited
<1>3. /\ Kept \subseteq Nat /\ IsFiniteSet(Kept) /\ m \in Nat
      /\ m <= Cardinality(Present)
    BY <1>1, <1>2, FS_Subset, FS_CardinalityType
<1>4. Len(storage) \in Nat /\ Len(storage) <= MaxSlots
      /\ Cardinality(Present) <= Len(storage)
    BY <1>1 DEF TypeOK, SlotAccounting
<1>45. m <= MaxSlots
    BY <1>1, <1>3, <1>4, BoundsAssumption
<1>5. /\ \A k \in Kept : Rank(Kept, k) \in 0..(m - 1)
      /\ \A j, k \in Kept : j # k => Rank(Kept, j) # Rank(Kept, k)
      /\ \A r \in 0..(m - 1) : /\ KeyOfRank(Kept, r) \in Kept
                              /\ Rank(Kept, KeyOfRank(Kept, r)) = r
    BY <1>3, RankBijection
<1>6. /\ \A k \in Kept : index'[k] = Rank(Kept, k)
      /\ \A k \in Keys \ Kept : index'[k] = NoEntry
      /\ index' = [k \in Keys |-> IF k \in Kept THEN Rank(Kept, k) ELSE NoEntry]
    BY <1>2 DEF Compact, Present
<1>7. Present' = Kept
    BY <1>2, <1>5, <1>6, NoEntryAssumption DEF Present
<1>8. \A i \in 1..m : storage[index[KeyOfRank(Kept, i - 1)] + 1] \in Slot
    <2> SUFFICES ASSUME NEW i \in 1..m
                 PROVE  storage[index[KeyOfRank(Kept, i - 1)] + 1] \in Slot
        OBVIOUS
    <2> DEFINE c == KeyOfRank(Kept, i - 1)
    <2>0. i - 1 \in 0..(m - 1)
        BY <1>3
    <2>1. c \in Present
        BY <2>0, <1>2, <1>5
    <2>2. index[c] \in Nat /\ index[c] < Len(storage)
        BY <2>1 DEF TypeOK, SlotAccounting, Present
    <2>3. QED
        BY <2>2, <1>4 DEF TypeOK
<1>9. /\ storage' \in Seq(Slot)
      /\ Len(storage') = m
      /\ \A i \in 1..m : storage'[i] = storage[index[KeyOfRank(Kept, i - 1)] + 1]
    BY <1>3, <1>8 DEF Compact
<1>10. TypeOK'
    <2>1. index' \in [Keys -> (0..(MaxSlots - 1)) \cup {NoEntry}]
        <3>1. \A k \in Kept : Rank(Kept, k) \in 0..(MaxSlots - 1)
            <4> SUFFICES ASSUME NEW k \in Kept
                         PROVE  Rank(Kept, k) \in 0..(MaxSlots - 1)
                OBVIOUS
            <4>1. Rank(Kept, k) \in 0..(m - 1)
                BY <1>5
            <4>2. QED
                BY <4>1, <1>45, <1>3, BoundsAssumption
        <3>2. QED
            BY <3>1, <1>6
    <2>2. lastCall' \in [op : {"None", "Add", "Delete", "Compact"},
                         key : Keys \cup {NoEntry}]
        BY CallType DEF Compact
    <2>3. QED
        <3>1. tombstones' = 0
            BY DEF Compact
        <3>2. Len(storage') <= MaxSlots
            BY <1>45, <1>9
        <3>3. QED
            BY <1>9, <2>1, <2>2, <3>1, <3>2 DEF TypeOK
<1>11. SlotAccounting'
    <2>1. \A j \in Present' : index'[j] < Len(storage')
        <3> SUFFICES ASSUME NEW j \in Kept PROVE index'[j] < m
            BY <1>7, <1>9
        <3>1. index'[j] = Rank(Kept, j) /\ Rank(Kept, j) \in 0..(m - 1)
            BY <1>5, <1>6
        <3>2. QED
            BY <3>1, <1>3
    <2>2. \A i, j \in Present' : i # j => index'[i] # index'[j]
        BY <1>5, <1>6, <1>7
    <2>3. tombstones' + Cardinality(Present') = Len(storage')
        BY <1>3, <1>7, <1>9 DEF Compact
    <2>4. \A p \in 0..(Len(storage') - 1) :
             (\A j \in Present' : index'[j] # p) => storage'[p + 1] = Nil
        <3> SUFFICES ASSUME NEW p \in 0..(Len(storage') - 1)
                     PROVE  \E j \in Present' : index'[j] = p
            OBVIOUS
        <3>1. p \in 0..(m - 1)
            BY <1>9
        <3>2. KeyOfRank(Kept, p) \in Present' /\ index'[KeyOfRank(Kept, p)] = p
            BY <3>1, <1>5, <1>6, <1>7
        <3>3. QED
            BY <3>2
    <2>5. QED
        BY <2>1, <2>2, <2>3, <2>4 DEF SlotAccounting
<1>12. QED
    BY <1>10, <1>11

\* Every step of the store keeps IInv.
LEMMA NextIInv == IInv /\ [Next]_vars => IInv'
<1> SUFFICES ASSUME IInv, [Next]_vars PROVE IInv'
    OBVIOUS
<1>1. ASSUME NEW k \in Keys, NEW v \in Vals, Add(k, v) PROVE IInv'
    BY <1>1, AddIInv
<1>2. ASSUME NEW k \in Keys, Delete(k) PROVE IInv'
    BY <1>2, DeleteIInv
<1>3. CASE CompactIncremental
    BY <1>3, CompactIInv DEF CompactIncremental, IInv, TypeOK
<1>4. CASE BackgroundCompact
    <2>0. pending \in 0..MaxPending /\ pending > 0 /\ pending' = pending - 1
        BY <1>4 DEF BackgroundCompact, IInv, TypeOK
    <2>1. pending' \in 0..MaxPending
        BY <2>0, BoundsAssumption
    <2>2. QED
        BY <1>4, <2>1, CompactIInv DEF BackgroundCompact
<1>5. CASE UNCHANGED vars
    BY <1>5 DEF vars, IInv, TypeOK, SlotAccounting, Present
<1>6. QED
    BY <1>1, <1>2, <1>3, <1>4, <1>5 DEF Next

\* Every reachable state of the store is well typed: positions stay inside
\* 0..MaxSlots-1, the tombstone counter is a natural, and the calls that
\* CompactIncremental makes on storage are all defined.
THEOREM TypeCorrect == Spec => []TypeOK
<1>1. Spec => []IInv
    BY InitIInv, NextIInv, PTL DEF Spec
<1>2. QED
    BY <1>1, PTL DEF IInv

\* In every reachable state each entry of the tree owns its own slot, the
\* tombstone counter equals the number of slots no entry owns, and those
\* slots are nil, whatever the threshold, the batch size and the keys.
THEOREM SlotAccountingHolds == Spec => []SlotAccounting
<1>1. Spec => []IInv
    BY InitIInv, NextIInv, PTL DEF Spec
<1>2. QED
    BY <1>1, PTL DEF IInv

-----------------------------------------------------------------------------
\* A tombstone ratio above the threshold has a compaction goroutine waiting.
LEMMA NextScheduled ==
    IInv /\ ScheduledWhenOver /\ [Next]_vars => ScheduledWhenOver'
<1> SUFFICES ASSUME IInv, ScheduledWhenOver, [Next]_vars
             PROVE  ScheduledWhenOver'
    OBVIOUS
<1>9. TypeOK /\ TypeOK'
    BY NextIInv DEF IInv
<1> USE ThresholdAssumption DEF ScheduledWhenOver, OverThreshold
<1>0. Len(storage) \in Nat /\ tombstones \in Nat /\ pending \in Nat
    BY <1>9 DEF TypeOK
<1>1. ASSUME NEW k \in Keys, NEW v \in Vals, Add(k, v) PROVE ScheduledWhenOver'
    <2>1. UNCHANGED <<tombstones, pending>>
        BY <1>1 DEF Add
    <2>2. Len(storage') \in {Len(storage), Len(storage) + 1}
        BY <1>1, <1>0 DEF Add, TypeOK
    <2>3. ThresholdNum * Len(storage) <= ThresholdNum * Len(storage')
        BY <2>2, <1>0
    <2>4. QED
        BY <2>1, <2>3, <1>0
<1>2. ASSUME NEW k \in Keys, Delete(k) PROVE ScheduledWhenOver'
    <2>1. Len(storage') = Len(storage)
        <3>1. CASE index[k] = NoEntry
            BY <1>2, <3>1 DEF Delete
        <3>2. CASE index[k] # NoEntry
            <4>1. storage' = [storage EXCEPT ![index[k] + 1] = Nil]
                BY <1>2, <3>2 DEF Delete
            <4>2. storage \in Seq(Slot)
                BY <1>9 DEF TypeOK
            <4>3. QED
                BY <4>1, <4>2
        <3>3. QED
            BY <3>1, <3>2
    <2>2. QED
        BY <1>2, <2>1, <1>0 DEF Delete
<1>3. ASSUME Compact PROVE ~OverThreshold(tombstones', Len(storage'))
    <2>0. storage' \in Seq(Slot)
        BY <1>9 DEF TypeOK
    <2>1. tombstones' = 0
        BY <1>3 DEF Compact
    <2>2. Len(storage') \in Nat
        BY <2>0, LenProperties
    <2>3. QED
        BY <2>1, <2>2, ThresholdAssumption
<1>4. QED
    BY <1>1, <1>2, <1>3 DEF Next, CompactIncremental, BackgroundCompact, vars

\* Whenever the tombstone ratio exceeds the threshold, a compaction
\* goroutine started by Delete is waiting, for every threshold and size.
THEOREM ScheduledWhenOverHolds == Spec => []ScheduledWhenOver
<1>1. Init => ScheduledWhenOver
    BY ThresholdAssumption DEF Init, ScheduledWhenOver, OverThreshold
<1>2. QED
    BY <1>1, InitIInv, NextIInv, NextScheduled, PTL DEF Spec

-----------------------------------------------------------------------------
(* Refinement of AppendLogKV.  CompactIncremental installs only the entries *)
(* its scan visited and whose slot is not nil, so the store implements the *)
(* map only when the scan visits every live key (KeysFitBatch: batchSize   *)
(* is off, or at least the number of keys) and no live slot is nil         *)
(* (NoNilValues: callers never Add a nil value).  The btree_batch_truncation *)
(* run shows the first condition is needed, the nil configuration the      *)
(* second.  Under them the inductive invariant adds LiveNonNil to IInv.    *)

NoNilValues == Nil \notin Vals

KeysFitBatch == BatchSize <= 0 \/ Cardinality(Keys) <= BatchSize

\* Every live entry points at a slot holding a value, not nil.
LiveNonNil == \A k \in Present : storage[index[k] + 1] \in Vals

RInv == IInv /\ LiveNonNil

\* What CompactIncremental does to each key: a kept key moves to its rank
\* among the kept keys and keeps its value; every other key leaves the tree.
LEMMA CompactMoves ==
    ASSUME IInv, Compact
    PROVE  /\ \A k \in Kept : /\ index'[k] = Rank(Kept, k)
                              /\ index'[k] # NoEntry
                              /\ storage'[index'[k] + 1] = storage[index[k] + 1]
           /\ \A k \in Keys \ Kept : index'[k] = NoEntry
<1> DEFINE m == Cardinality(Kept)
<1>1. Kept \subseteq Present
    BY DEF Kept, Visited
<1>2. Kept \subseteq Nat /\ IsFiniteSet(Kept) /\ m \in Nat
    BY <1>1, PresentFinite, FS_Subset, FS_CardinalityType DEF IInv
<1>3. /\ \A k \in Kept : Rank(Kept, k) \in 0..(m - 1)
      /\ \A j, k \in Kept : j # k => Rank(Kept, j) # Rank(Kept, k)
      /\ \A r \in 0..(m - 1) : /\ KeyOfRank(Kept, r) \in Kept
                              /\ Rank(Kept, KeyOfRank(Kept, r)) = r
    BY <1>2, RankBijection
<1>4. index' = [k \in Keys |-> IF k \in Kept THEN Rank(Kept, k) ELSE NoEntry]
    BY DEF Compact
<1>5. ASSUME NEW k \in Kept
      PROVE  /\ index'[k] = Rank(Kept, k)
             /\ index'[k] # NoEntry
             /\ storage'[index'[k] + 1] = storage[index[k] + 1]
    <2> DEFINE r == Rank(Kept, k)
    <2>1. k \in Keys /\ index'[k] = r /\ r \in 0..(m - 1)
        BY <1>1, <1>3, <1>4 DEF Present
    <2>2. index'[k] # NoEntry
        BY <2>1, NoEntryAssumption
    <2>3. KeyOfRank(Kept, r) = k
        BY <1>3, <2>1
    <2>4. storage'[r + 1] = storage[index[KeyOfRank(Kept, r)] + 1]
        <3>1. r + 1 \in 1..m /\ (r + 1) - 1 = r
            BY <2>1, <1>2
        <3>2. QED
            BY <3>1 DEF Compact
    <2>5. QED
        BY <2>1, <2>2, <2>3, <2>4
<1>6. QED
    BY <1>4, <1>5

\* When the scan visits every live key, it visits all of them.
LEMMA VisitedAll ==
    ASSUME KeysFitBatch, IInv
    PROVE  Visited = Present
<1>1. CASE BatchSize <= 0
    BY <1>1 DEF Visited
<1>2. CASE ~(BatchSize <= 0)
    <2>1. /\ Present \subseteq Nat /\ IsFiniteSet(Present)
          /\ Cardinality(Present) \in Nat
        BY PresentFinite DEF IInv
    <2>2. Cardinality(Present) <= Cardinality(Keys)
        BY KeysAssumption, FS_Subset DEF Present
    <2>3. Cardinality(Keys) <= BatchSize /\ BatchSize \in Int
        BY <1>2, BoundsAssumption DEF KeysFitBatch
    <2>4. \A k \in Present : Rank(Present, k) < BatchSize
        <3> SUFFICES ASSUME NEW k \in Present
                     PROVE  Rank(Present, k) < BatchSize
            OBVIOUS
        <3>1. Rank(Present, k) \in 0..(Cardinality(Present) - 1)
            BY <2>1, RankBijection
        <3>2. Cardinality(Keys) \in Nat
            BY KeysAssumption, FS_CardinalityType
        <3>3. QED
            BY <2>1, <2>2, <2>3, <3>1, <3>2
    <2>5. QED
        BY <1>2, <2>4 DEF Visited
<1>3. QED
    BY <1>1, <1>2

\* ... and then it keeps every live key.
LEMMA KeptAll ==
    ASSUME KeysFitBatch, NoNilValues, RInv
    PROVE  Kept = Present
<1>1. Visited = Present
    BY VisitedAll DEF RInv
<1>2. \A k \in Present : storage[index[k] + 1] # Nil
    BY DEF RInv, LiveNonNil, NoNilValues
<1>3. QED
    BY <1>1, <1>2 DEF Kept



\* Get of a key in the tree reads the slot its entry points at; of any
\* other key, nothing.
LEMMA KvBarFacts ==
    ASSUME NEW k \in Keys
    PROVE  /\ index[k] # NoEntry => kvBar[k] = storage[index[k] + 1]
           /\ index[k] = NoEntry => kvBar[k] = NoEntry
           /\ index'[k] # NoEntry => kvBar'[k] = storage'[index'[k] + 1]
           /\ index'[k] = NoEntry => kvBar'[k] = NoEntry
    BY DEF kvBar, Get

LEMMA InitLive == Init => LiveNonNil
<1> SUFFICES ASSUME Init PROVE LiveNonNil
    OBVIOUS
<1>1. Present = {}
    BY NoEntryAssumption DEF Init, Present
<1>2. QED
    BY <1>1 DEF LiveNonNil

\* Every step keeps the live slots non-nil: Add fills the new slot with a
\* value, Delete only clears the slot of the key it removes, and compaction
\* moves each kept value along with its key.
LEMMA NextLive == RInv /\ [Next]_vars => LiveNonNil'
<1> SUFFICES ASSUME RInv, [Next]_vars PROVE LiveNonNil'
    OBVIOUS
<1> USE DEF RInv
<1>0. /\ storage \in Seq(Slot) /\ Len(storage) \in Nat
      /\ \A j \in Present : index[j] \in 0..(Len(storage) - 1)
    BY DEF IInv, TypeOK, SlotAccounting, Present
<1>1. ASSUME NEW k \in Keys, NEW v \in Vals, Add(k, v) PROVE LiveNonNil'
    <2>1. CASE index[k] # NoEntry /\ UNCHANGED <<index, storage>>
        BY <2>1 DEF LiveNonNil, Present
    <2>2. CASE /\ index[k] = NoEntry
               /\ index' = [index EXCEPT ![k] = Len(storage)]
               /\ storage' = Append(storage, v)
        <3>1. ASSUME NEW j \in Keys, index'[j] # NoEntry
              PROVE  storage'[index'[j] + 1] \in Vals
            <4>1. CASE j = k
                BY <2>2, <4>1, <1>0 DEF IInv, TypeOK
            <4>2. CASE j # k
                <5>1. j \in Present /\ index'[j] = index[j]
                    BY <2>2, <3>1, <4>2 DEF Present, IInv, TypeOK
                <5>2. storage'[index[j] + 1] = storage[index[j] + 1]
                    BY <2>2, <5>1, <1>0
                <5>3. QED
                    BY <5>1, <5>2 DEF LiveNonNil
            <4>3. QED
                BY <4>1, <4>2
        <3>2. QED
            BY <3>1 DEF LiveNonNil, Present
    <2>3. QED
        BY <1>1, <2>1, <2>2 DEF Add
<1>2. ASSUME NEW k \in Keys, Delete(k) PROVE LiveNonNil'
    <2>1. CASE index[k] = NoEntry /\ UNCHANGED <<index, storage, tombstones, pending>>
        BY <2>1 DEF LiveNonNil, Present
    <2>2. CASE /\ index[k] # NoEntry
               /\ index' = [index EXCEPT ![k] = NoEntry]
               /\ storage' = [storage EXCEPT ![index[k] + 1] = Nil]
        <3>1. ASSUME NEW j \in Keys, index'[j] # NoEntry
              PROVE  storage'[index'[j] + 1] \in Vals
            <4>1. j # k /\ index'[j] = index[j]
                BY <2>2, <3>1 DEF IInv, TypeOK
            <4>2. j \in Present /\ k \in Present
                BY <2>2, <3>1, <4>1 DEF Present
            <4>3. index[j] # index[k]
                BY <4>1, <4>2 DEF IInv, SlotAccounting
            <4>4. storage'[index[j] + 1] = storage[index[j] + 1]
                BY <2>2, <4>2, <4>3, <1>0
            <4>5. QED
                BY <4>1, <4>2, <4>4 DEF LiveNonNil
        <3>2. QED
            BY <3>1 DEF LiveNonNil, Present
    <2>3. QED
        BY <1>2, <2>1, <2>2 DEF Delete
<1>3. ASSUME Compact PROVE LiveNonNil'
    <2>1. ASSUME NEW j \in Keys, index'[j] # NoEntry
          PROVE  storage'[index'[j] + 1] \in Vals
        <3>1. j \in Kept
            BY <1>3, <2>1, CompactMoves
        <3>2. j \in Present
            BY <3>1 DEF Kept, Visited
        <3>3. QED
            BY <1>3, <3>1, <3>2, CompactMoves DEF LiveNonNil
    <2>2. QED
        BY <2>1 DEF LiveNonNil, Present
<1>4. CASE UNCHANGED vars
    BY <1>4 DEF vars, LiveNonNil, Present
<1>5. QED
    BY <1>1, <1>2, <1>3, <1>4 DEF Next, CompactIncremental, BackgroundCompact

LEMMA NextRInv == RInv /\ [Next]_vars => RInv'
    BY NextIInv, NextLive DEF RInv


LEMMA InitRefines == Init => AbsKV!Init
    BY DEF Init, AbsKV!Init, kvBar, Get, Call, AbsKV!Call

\* Add of an absent key is the abstract Add that stores the value: the key
\* now reads the slot just appended, every other key a slot before it.
LEMMA AddNewRefines ==
    ASSUME RInv, NEW k \in Keys, NEW v \in Vals, index[k] = NoEntry,
           index' = [index EXCEPT ![k] = Len(storage)],
           storage' = Append(storage, v),
           lastCall' = Call("Add", k)
    PROVE  AbsKV!Add(k, v)
<1>0. /\ storage \in Seq(Slot) /\ Len(storage) \in Nat
      /\ index \in [Keys -> (0..(MaxSlots - 1)) \cup {NoEntry}]
      /\ \A j \in Present : index[j] < Len(storage)
    BY DEF RInv, IInv, TypeOK, SlotAccounting
<1>1. kvBar[k] = NoEntry
    BY KvBarFacts
<1>2. kvBar'[k] = v
    <2>1. index'[k] = Len(storage)
        BY <1>0
    <2>2. index'[k] # NoEntry
        BY <1>0, <2>1, NoEntryAssumption
    <2>3. storage'[Len(storage) + 1] = v
        BY <1>0
    <2>4. kvBar'[k] = storage'[index'[k] + 1]
        BY <2>2, KvBarFacts
    <2>5. QED
        BY <2>1, <2>3, <2>4
<1>3. ASSUME NEW j \in Keys, j # k PROVE kvBar'[j] = kvBar[j]
    <2>1. index'[j] = index[j]
        BY <1>0, <1>3
    <2>2. CASE index[j] = NoEntry
        BY <2>1, <2>2, KvBarFacts
    <2>3. CASE index[j] # NoEntry
        <3>1. index[j] \in Nat /\ index[j] < Len(storage)
            BY <1>0, <2>3 DEF Present
        <3>2. storage'[index[j] + 1] = storage[index[j] + 1]
            BY <1>0, <3>1
        <3>3. index'[j] # NoEntry
            BY <2>1, <2>3
        <3>4. kvBar'[j] = storage'[index'[j] + 1]
            BY <3>3, KvBarFacts, Zenon
        <3>5. kvBar[j] = storage[index[j] + 1]
            BY <2>3, KvBarFacts, Zenon
        <3>6. QED
            BY <2>1, <3>2, <3>4, <3>5, Zenon
    <2>4. QED
        BY <2>2, <2>3
<1>4. kvBar' = [kvBar EXCEPT ![k] = v]
    <2>1. DOMAIN kvBar = Keys /\ DOMAIN kvBar' = Keys
        BY DEF kvBar
    <2>2. QED
        BY <1>2, <1>3, <2>1, Zenon DEF kvBar
<1>5. QED
    BY <1>1, <1>4 DEF AbsKV!Add, Call, AbsKV!Call

\* Delete of a key in the tree is the abstract Delete: its slot is cleared
\* and every other live key points at a different slot.
LEMMA DeletePresentRefines ==
    ASSUME RInv, NEW k \in Keys, index[k] # NoEntry,
           index' = [index EXCEPT ![k] = NoEntry],
           storage' = [storage EXCEPT ![index[k] + 1] = Nil],
           lastCall' = Call("Delete", k)
    PROVE  AbsKV!Delete(k)
<1>0. /\ storage \in Seq(Slot) /\ Len(storage) \in Nat
      /\ index \in [Keys -> (0..(MaxSlots - 1)) \cup {NoEntry}]
      /\ \A j \in Present : index[j] < Len(storage)
      /\ \A i, j \in Present : i # j => index[i] # index[j]
    BY DEF RInv, IInv, TypeOK, SlotAccounting
<1>1. kvBar'[k] = NoEntry
    BY <1>0, KvBarFacts
<1>2. ASSUME NEW j \in Keys, j # k PROVE kvBar'[j] = kvBar[j]
    <2>1. index'[j] = index[j]
        BY <1>0, <1>2
    <2>2. CASE index[j] = NoEntry
        BY <2>1, <2>2, KvBarFacts
    <2>3. CASE index[j] # NoEntry
        <3>1. j \in Present /\ k \in Present
            BY <2>3 DEF Present
        <3>2. index[j] # index[k] /\ index[j] \in Nat /\ index[k] \in Nat
              /\ index[j] < Len(storage) /\ index[k] < Len(storage)
            BY <1>0, <1>2, <3>1, NoEntryAssumption DEF Present
        <3>3. storage'[index[j] + 1] = storage[index[j] + 1]
            BY <1>0, <3>2
        <3>4. kvBar'[j] = storage'[index'[j] + 1] /\ kvBar[j] = storage[index[j] + 1]
            BY <2>1, <2>3 DEF kvBar, Get
        <3>5. QED
            BY <2>1, <3>3, <3>4
    <2>4. QED
        BY <2>2, <2>3
<1>3. kvBar' = [kvBar EXCEPT ![k] = NoEntry]
    <2>1. DOMAIN kvBar = Keys /\ DOMAIN kvBar' = Keys
        BY DEF kvBar
    <2>2. QED
        BY <1>1, <1>2, <2>1, Zenon DEF kvBar
<1>4. QED
    BY <1>3 DEF AbsKV!Delete, Call, AbsKV!Call

\* A compaction whose scan keeps every live key changes no answer of Get.
LEMMA CompactRefines ==
    ASSUME KeysFitBatch, NoNilValues, RInv, Compact
    PROVE  AbsKV!Compact
<1>1. Kept = Present
    BY KeptAll
<1>2. ASSUME NEW k \in Keys PROVE kvBar'[k] = kvBar[k]
    <2>1. CASE k \in Present
        <3>1. k \in Kept /\ index[k] # NoEntry
            BY <1>1, <2>1 DEF Present
        <3>2. index'[k] # NoEntry /\ storage'[index'[k] + 1] = storage[index[k] + 1]
            BY <3>1, CompactMoves DEF RInv
        <3>3. QED
            BY <3>1, <3>2, KvBarFacts
    <2>2. CASE k \notin Present
        <3>1. k \in Keys \ Kept /\ index[k] = NoEntry
            BY <1>1, <2>2 DEF Present
        <3>2. index'[k] = NoEntry
            BY <3>1, CompactMoves DEF RInv
        <3>3. QED
            BY <3>1, <3>2, KvBarFacts
    <2>3. QED
        BY <2>1, <2>2
<1>3. kvBar' = kvBar
    BY <1>2 DEF kvBar
<1>4. QED
    BY <1>3 DEF Compact, AbsKV!Compact, Call, AbsKV!Call

\* Every step of the store is a step of the same method of AppendLogKV, or
\* leaves the map and the call record as they were.
LEMMA NextRefines ==
    ASSUME KeysFitBatch, NoNilValues
    PROVE  RInv /\ [Next]_vars => [AbsKV!Next]_AbsKV!vars
<1> SUFFICES ASSUME RInv, [Next]_vars PROVE [AbsKV!Next]_AbsKV!vars
    OBVIOUS
<1>1. ASSUME NEW k \in Keys, NEW v \in Vals, Add(k, v)
      PROVE  AbsKV!Next
    <2>1. CASE index[k] = NoEntry
        BY <1>1, <2>1, AddNewRefines DEF Add, AbsKV!Next
    <2>2. CASE index[k] # NoEntry
        <3>1. UNCHANGED <<index, storage>> /\ lastCall' = Call("Add", k)
            BY <1>1, <2>2 DEF Add
        <3>2. kvBar[k] \in Vals
            BY <2>2, KvBarFacts DEF RInv, LiveNonNil, Present
        <3>3. kvBar[k] # NoEntry
            BY <3>2, NoEntryAssumption
        <3>4. kvBar' = kvBar
            BY <3>1 DEF kvBar, Get
        <3>5. AbsKV!Add(k, v)
            BY <3>1, <3>3, <3>4 DEF AbsKV!Add, Call, AbsKV!Call
        <3>6. QED
            BY <3>5 DEF AbsKV!Next
    <2>3. QED
        BY <2>1, <2>2
<1>2. ASSUME NEW k \in Keys, Delete(k)
      PROVE  AbsKV!Next
    <2>1. CASE index[k] = NoEntry
        <3>1. UNCHANGED <<index, storage>> /\ lastCall' = Call("Delete", k)
            BY <1>2, <2>1 DEF Delete
        <3>2. kvBar' = kvBar /\ kvBar[k] = NoEntry
            BY <2>1, <3>1, KvBarFacts DEF kvBar, Get
        <3>3. kvBar' = [kvBar EXCEPT ![k] = NoEntry]
            BY <3>2 DEF kvBar
        <3>4. AbsKV!Delete(k)
            BY <3>1, <3>3 DEF AbsKV!Delete, Call, AbsKV!Call
        <3>5. QED
            BY <3>4 DEF AbsKV!Next
    <2>2. CASE index[k] # NoEntry
        BY <1>2, <2>2, DeletePresentRefines DEF Delete, AbsKV!Next
    <2>3. QED
        BY <2>1, <2>2
<1>3. ASSUME Compact PROVE AbsKV!Next
    BY <1>3, CompactRefines DEF AbsKV!Next
<1>4. CASE UNCHANGED vars
    BY <1>4 DEF vars, AbsKV!vars, kvBar, Get
<1>5. QED
    BY <1>1, <1>2, <1>3, <1>4 DEF Next, CompactIncremental, BackgroundCompact

\* When batchSize is off or covers every key and callers never Add a nil
\* value, every behaviour of the store, seen through Get, is a behaviour of
\* the insert-if-absent map AppendLogKV: CompactIncremental, run by a caller
\* or by the goroutine Delete starts, never changes what Get answers.
THEOREM RefinesAppendLogKV ==
    ASSUME KeysFitBatch, NoNilValues
    PROVE  Spec => ImplementsAppendLogKV
<1>1. Init => RInv
    BY InitIInv, InitLive DEF RInv
<1>2. Spec => []RInv
    BY <1>1, NextRInv, PTL DEF Spec
<1>3. RInv /\ [Next]_vars => [AbsKV!Next]_AbsKV!vars
    BY NextRefines
<1>4. QED
    BY <1>2, <1>3, InitRefines, PTL DEF Spec, ImplementsAppendLogKV, AbsKV!Spec

==============================================================================
