---------------------- MODULE SimpleFastStorageProofs ----------------------
(***************************************************************************)
(* Proofs about SimpleFastStorage for every set of keys and values.  The   *)
(* inductive invariant is IInv == TypeOK /\ SlotsOwned: that Add leaves    *)
(* every other key's answer alone needs the old positions to lie inside    *)
(* storage, so that the append does not change what they index.  From it,  *)
(* every step of the store is a step of AppendLogKV under the mapping      *)
(* kvBar (what Get answers for each key).                                  *)
(***************************************************************************)
EXTENDS SimpleFastStorage, FiniteSetTheorems, SequenceTheorems, TLAPS

IInv == TypeOK /\ SlotsOwned

\* The keys present are a finite set.
LEMMA PresentFinite ==
    IsFiniteSet(Present) /\ Cardinality(Present) \in Nat
    BY StorageAssumption, FS_Subset, FS_CardinalityType DEF Present

LEMMA InitIInv == Init => IInv
<1> SUFFICES ASSUME Init PROVE IInv
    OBVIOUS
<1>1. Present = {}
    BY DEF Init, Present
<1>2. TypeOK
    BY StorageAssumption DEF Init, TypeOK, Call
<1>3. SlotsOwned
    BY <1>1, FS_EmptySet DEF Init, SlotsOwned
<1>4. QED
    BY <1>2, <1>3 DEF IInv

\* Add of an absent key keeps the invariant: the key takes the slot just
\* appended, past every position in use.
LEMMA AddNewIInv ==
    ASSUME IInv, NEW k \in Keys, NEW v \in Vals, set[k] = NoEntry,
           set' = [set EXCEPT ![k] = Len(storage)],
           storage' = Append(storage, v),
           lastCall' = Call("Add", k)
    PROVE  IInv'
<1> USE DEF IInv, TypeOK
<1>1. Present' = Present \cup {k} /\ k \notin Present
    BY StorageAssumption DEF Present
<1>2. TypeOK'
    BY DEF Call
<1>3. \A j \in Present' : set'[j] < Len(storage')
    BY <1>1 DEF SlotsOwned, Present
<1>4. \A i, j \in Present' : i # j => set'[i] # set'[j]
    BY <1>1 DEF SlotsOwned, Present
<1>5. Cardinality(Present') = Len(storage')
    <2>1. Cardinality(Present \cup {k}) = Cardinality(Present) + 1
        BY <1>1, PresentFinite, FS_AddElement
    <2>2. Len(storage') = Len(storage) + 1
        OBVIOUS
    <2>3. QED
        BY <1>1, <2>1, <2>2 DEF SlotsOwned
<1>6. QED
    BY <1>2, <1>3, <1>4, <1>5 DEF SlotsOwned

LEMMA NextIInv == IInv /\ [Next]_vars => IInv'
<1> SUFFICES ASSUME IInv, [Next]_vars PROVE IInv'
    OBVIOUS
<1>1. ASSUME NEW k \in Keys, NEW v \in Vals, Add(k, v) PROVE IInv'
    <2>1. CASE set[k] = NoEntry
        BY <1>1, <2>1, AddNewIInv DEF Add
    <2>2. CASE set[k] # NoEntry
        <3>1. UNCHANGED <<set, storage>> /\ lastCall' = Call("Add", k)
            BY <1>1, <2>2 DEF Add
        <3>2. Present' = Present
            BY <3>1 DEF Present
        <3>3. QED
            BY <3>1, <3>2 DEF IInv, TypeOK, SlotsOwned, Call
    <2>3. QED
        BY <2>1, <2>2
<1>2. CASE UNCHANGED vars
    BY <1>2 DEF vars, IInv, TypeOK, SlotsOwned, Present
<1>3. QED
    BY <1>1, <1>2 DEF Next

\* Add and Get never let a key point outside storage or at a slot of
\* another key, and the slots are exactly the keys present, for every
\* set of keys.
THEOREM SlotsOwnedHolds == Spec => []SlotsOwned
<1>1. Spec => []IInv
    BY InitIInv, NextIInv, PTL DEF Spec
<1>2. QED
    BY <1>1, PTL DEF IInv

-----------------------------------------------------------------------------
\* Get of a key present reads the slot its position names.
LEMMA GetPresent ==
    ASSUME IInv, NEW k \in Present
    PROVE  /\ set[k] + 1 \in 1..Len(storage)
           /\ kvBar[k] = storage[set[k] + 1]
           /\ kvBar[k] \in Vals
    BY DEF IInv, TypeOK, SlotsOwned, Present, kvBar, Get

LEMMA InitRefines == Init => AbsKV!Init
    BY DEF Init, AbsKV!Init, kvBar, Get, Call, AbsKV!Call

\* Add of an absent key is the abstract Add that stores the value; every
\* other key keeps its answer because its slot lies before the new one.
LEMMA AddNewRefines ==
    ASSUME IInv, NEW k \in Keys, NEW v \in Vals, set[k] = NoEntry,
           set' = [set EXCEPT ![k] = Len(storage)],
           storage' = Append(storage, v),
           lastCall' = Call("Add", k)
    PROVE  AbsKV!Add(k, v)
<1> USE DEF IInv, TypeOK
<1>1. kvBar[k] = NoEntry
    BY DEF kvBar, Get
<1>2. kvBar'[k] = v
    <2>1. set'[k] = Len(storage) /\ Len(storage) \in Nat
        OBVIOUS
    <2>2. set'[k] # NoEntry
        BY <2>1, StorageAssumption
    <2>3. storage'[Len(storage) + 1] = v
        OBVIOUS
    <2>4. QED
        BY <2>1, <2>2, <2>3 DEF kvBar, Get
<1>3. ASSUME NEW j \in Keys, j # k PROVE kvBar'[j] = kvBar[j]
    <2>1. CASE set[j] = NoEntry
        BY <1>3, <2>1 DEF kvBar, Get
    <2>2. CASE set[j] # NoEntry
        <3>1. j \in Present /\ set[j] < Len(storage)
            BY <2>2 DEF Present, SlotsOwned
        <3>2. set'[j] = set[j] /\ set[j] \in Nat
            BY <1>3, <2>2
        <3>3. storage'[set[j] + 1] = storage[set[j] + 1]
            BY <3>1, <3>2
        <3>4. QED
            BY <3>2, <3>3, <2>2 DEF kvBar, Get
    <2>3. QED
        BY <2>1, <2>2
<1>4. kvBar' = [kvBar EXCEPT ![k] = v]
    BY <1>2, <1>3 DEF kvBar
<1>5. QED
    BY <1>1, <1>4 DEF AbsKV!Add, Call, AbsKV!Call

LEMMA NextRefines == IInv /\ [Next]_vars => [AbsKV!Next]_AbsKV!vars
<1> SUFFICES ASSUME IInv, [Next]_vars PROVE [AbsKV!Next]_AbsKV!vars
    OBVIOUS
<1>1. ASSUME NEW k \in Keys, NEW v \in Vals, Add(k, v)
      PROVE  [AbsKV!Next]_AbsKV!vars
    <2>1. AbsKV!Add(k, v)
        <3>1. CASE set[k] = NoEntry
            BY <1>1, <3>1, AddNewRefines DEF Add
        <3>2. CASE set[k] # NoEntry
            <4>1. UNCHANGED <<set, storage>> /\ lastCall' = Call("Add", k)
                BY <1>1, <3>2 DEF Add
            <4>2. kvBar[k] # NoEntry
                BY <3>2, GetPresent, StorageAssumption DEF Present
            <4>3. kvBar' = kvBar
                BY <4>1 DEF kvBar, Get
            <4>4. QED
                BY <4>1, <4>2, <4>3 DEF AbsKV!Add, Call, AbsKV!Call
        <3>3. QED
            BY <3>1, <3>2
    <2>2. QED
        BY <2>1 DEF AbsKV!Next
<1>2. CASE UNCHANGED vars
    BY <1>2 DEF vars, AbsKV!vars, kvBar, Get
<1>3. QED
    BY <1>1, <1>2 DEF Next

\* Every behaviour of SimpleFastStorage is one of AppendLogKV: what Get
\* answers is a map in which Add stores only the first value of a key.
THEOREM RefinesAppendLogKV == Spec => ImplementsAppendLogKV
<1>1. Spec => []IInv
    BY InitIInv, NextIInv, PTL DEF Spec
<1>2. QED
    BY <1>1, InitRefines, NextRefines, PTL
       DEF Spec, ImplementsAppendLogKV, AbsKV!Spec
=============================================================================
