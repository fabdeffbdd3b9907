------------------------- MODULE BitmapStorageProofs -------------------------
(***************************************************************************)
(* Proof that every behaviour of the bitmap store keeps TypeOK, for every  *)
(* set of clients, ids and warm data.  Its one non-trivial part is that    *)
(* the replicator's entry and the bytes a goroutine carries between        *)
(* Replicate's two critical sections are NoDump or the bytes of a          *)
(* non-empty bitmap: GetBytesFromBitmap's nil check is what keeps an empty *)
(* copy out of the replicator.  TypeOK is inductive as it stands.          *)
(***************************************************************************)
EXTENDS BitmapStorage, TLAPS

\* The bytes GetBytesFromBitmap hands over are a Dump.
LEMMA CopyIsDump ==
    ASSUME NEW s \in SUBSET Elems, s # {}, NEW v \in Nat
    PROVE  [set |-> s, ver |-> v] \in Dumps
<1>1. s \in (SUBSET Elems) \ {{}}
    OBVIOUS
<1>2. [set |-> s, ver |-> v] \in [set : (SUBSET Elems) \ {{}}, ver : Nat]
    BY <1>1
<1>3. QED
    BY <1>2 DEF Dumps

\* A Dump has a set of ids; the set of NoDump is empty.
LEMMA DumpSet ==
    ASSUME NEW d \in Dumps
    PROVE  d.set \subseteq Elems /\ (d.set = {} <=> d = NoDump)
<1>1. CASE d = NoDump
    BY <1>1 DEF NoDump
<1>2. CASE d \in [set : (SUBSET Elems) \ {{}}, ver : Nat]
    BY <1>2 DEF NoDump
<1>3. QED
    BY <1>1, <1>2 DEF Dumps

LEMMA InitTypeOK == Init => TypeOK
<1> SUFFICES ASSUME Init PROVE TypeOK
    OBVIOUS
<1>1. NoDump \in Dumps
    BY DEF Dumps
<1>2. dump \in Dumps /\ buf \in [Procs -> Dumps]
    BY <1>1 DEF Init
<1>3. bitmap \subseteq Elems /\ ver \in Nat /\ calls \in [Clients -> 0..MaxCalls]
    BY BitmapAssumption DEF Init
<1>4. pc \in [Procs -> {"idle", "warm_fill", "rep_write", "rec_clear",
                        "rec_fill", "stopped"}]
    BY DEF Init
<1>5. ctxDone \in BOOLEAN
    BY DEF Init
<1>6. QED
    BY <1>2, <1>3, <1>4, <1>5 DEF TypeOK

\* The steps of a client that is not in the middle of a call.
LEMMA ClientCallTypeOK ==
    ASSUME TypeOK, NEW c \in Clients, ClientCall(c)
    PROVE  TypeOK'
<1> USE DEF TypeOK, Procs
<1>2. ASSUME NEW keys \in (SUBSET Elems) \ {{}}, UpsertMany(c, keys) PROVE TypeOK'
    BY <1>2, BitmapAssumption DEF UpsertMany, Call, SetBitmap
<1>3. ASSUME NEW keys \in (SUBSET Elems) \ {{}}, RemoveMany(c, keys) PROVE TypeOK'
    BY <1>3, BitmapAssumption DEF RemoveMany, Call, SetBitmap
<1>4. CASE Clear(c)
    BY <1>4, BitmapAssumption DEF Clear, Call, SetBitmap
<1>5. CASE WarmCheck(c)
    BY <1>5, BitmapAssumption DEF WarmCheck, Call, IsEmpty
<1>6. CASE Replicate(c)
    <2>1. Call(c, "Replicate", GetBytesFromBitmap(c) /\ UNCHANGED <<bitmap, ver, dump>>)
        BY <1>6 DEF Replicate
    <2>2. CASE IsEmpty
        BY <2>1, <2>2, BitmapAssumption DEF Call, GetBytesFromBitmap, Return, IsEmpty
    <2>3. CASE ~IsEmpty
        <3>1. [set |-> bitmap, ver |-> ver] \in Dumps
            BY <2>3, CopyIsDump DEF IsEmpty
        <3>2. QED
            BY <2>1, <2>3, <3>1, BitmapAssumption DEF Call, GetBytesFromBitmap, Return
    <2>4. QED
        BY <2>2, <2>3
<1>7. CASE RecoverRead(c)
    <2>1. dump.set \subseteq Elems /\ (dump.set = {} <=> dump = NoDump)
        BY DumpSet
    <2>2. QED
        BY <1>7, <2>1, BitmapAssumption DEF RecoverRead, Call, Return
<1>8. CASE DropReplicationKey(c)
    BY <1>8, BitmapAssumption DEF DropReplicationKey, Call, Dumps
<1>9. QED
    BY <1>2, <1>3, <1>4, <1>5, <1>6, <1>7, <1>8 DEF ClientCall

\* The later steps of a call.
LEMMA ClientStepTypeOK ==
    ASSUME TypeOK, NEW c \in Clients, ClientStep(c)
    PROVE  TypeOK'
<1> USE DEF TypeOK, Procs
<1>1. CASE WarmFill(c)
    BY <1>1, BitmapAssumption DEF WarmFill, Return, SetBitmap
<1>2. CASE ReplicatorWrite(c)
    BY <1>2 DEF ReplicatorWrite, Return
<1>3. CASE RecoverClear(c)
    BY <1>3 DEF RecoverClear, SetBitmap
<1>4. CASE RecoverFill(c)
    <2>1. buf[c].set \subseteq Elems
        BY DumpSet
    <2>2. QED
        BY <1>4, <2>1 DEF RecoverFill, ReadFromBuffer, SetBitmap, Return
<1>5. QED
    BY <1>1, <1>2, <1>3, <1>4 DEF ClientStep

\* The background goroutine and the context's owner.
LEMMA BgTypeOK ==
    ASSUME TypeOK, BgStep \/ Cancel
    PROVE  TypeOK'
<1> USE DEF TypeOK, Procs
<1>1. CASE BgTick
    <2>1. CASE IsEmpty
        BY <1>1, <2>1 DEF BgTick, GetBytesFromBitmap, Return, IsEmpty
    <2>2. CASE ~IsEmpty
        <3>1. [set |-> bitmap, ver |-> ver] \in Dumps
            BY <2>2, CopyIsDump DEF IsEmpty
        <3>2. QED
            BY <1>1, <2>2, <3>1 DEF BgTick, GetBytesFromBitmap
    <2>3. QED
        BY <2>1, <2>2
<1>2. CASE ReplicatorWrite(Bg)
    BY <1>2 DEF ReplicatorWrite, Return
<1>3. CASE BgStop
    BY <1>3 DEF BgStop
<1>4. CASE Cancel
    BY <1>4 DEF Cancel
<1>5. QED
    BY <1>1, <1>2, <1>3, <1>4 DEF BgStep

LEMMA NextTypeOK == TypeOK /\ [Next]_vars => TypeOK'
<1> SUFFICES ASSUME TypeOK, [Next]_vars PROVE TypeOK'
    OBVIOUS
<1>1. ASSUME NEW c \in Clients, ClientCall(c) PROVE TypeOK'
    BY <1>1, ClientCallTypeOK
<1>2. ASSUME NEW c \in Clients, ClientStep(c) PROVE TypeOK'
    BY <1>2, ClientStepTypeOK
<1>3. CASE BgStep \/ Cancel
    BY <1>3, BgTypeOK
<1>4. CASE UNCHANGED vars
    BY <1>4 DEF vars, TypeOK
<1>5. QED
    BY <1>1, <1>2, <1>3, <1>4 DEF Next

\* Whatever the clients call and in whatever order the goroutines' critical
\* sections interleave, the bitmap holds only ids, every call count stays
\* within its bound, and the replicator holds nothing or the bytes of a
\* non-empty bitmap: the nil check of GetBytesFromBitmap keeps an empty
\* copy out of it.
THEOREM BitmapTypeCorrect == Spec => []TypeOK
    BY InitTypeOK, NextTypeOK, PTL DEF Spec
=============================================================================
