---------------------------- MODULE BitmapStorage ----------------------------
(***************************************************************************)
(* roaringBitmapStorage (src/roaring_bitmap.go) over the in-memory         *)
(* BitmapFakeReplicator (src/bitmap_fake_replicator.go), as the contract   *)
(* MemorySetStorage of src/contract.go exposes them.  Client goroutines    *)
(* call the methods concurrently; the goroutine started by MustWarmer      *)
(* replicates at every tick of its replication ticker until its context is *)
(* cancelled.                                                              *)
(*                                                                         *)
(* Every method takes s.mu (or the replicator's r.mu) for one critical     *)
(* section; a method made of several critical sections is several steps:   *)
(*   Warm      = isEmpty (RLock) ; callback, no lock ; UpsertMany (Lock)   *)
(*   Replicate = GetBytesFromBitmap (RLock) ; store[key] = bytes (r.mu)    *)
(*   Recover   = read store[key] (r.mu) ; Clear (Lock) ; ReadFrom (Lock)   *)
(* The bytes of a bitmap are abstracted to the set they encode and the     *)
(* version of the bitmap they were taken from: `ver` counts the writes to  *)
(* the bitmap.  roaring64's ReadFrom replaces the bitmap's contents.       *)
(* Logging, monitoring and RunOptimize (which changes the encoding, not    *)
(* the set) are left out.                                                  *)
(***************************************************************************)
EXTENDS Naturals, FiniteSets

CONSTANTS
    Clients,    \* client goroutines
    Bg,         \* the background goroutine
    Elems,      \* the uint64 ids
    WarmData,   \* what the WarmCallback returns when it succeeds
    ClientOps,  \* the methods clients call
    MaxCalls    \* bound on the calls of each client

ASSUME BitmapAssumption ==
    /\ Bg \notin Clients
    /\ WarmData \subseteq Elems
    /\ MaxCalls \in Nat

\* The methods of MemorySetStorage that change state.
Ops == {"UpsertMany", "RemoveMany", "Clear", "Warm", "Replicate", "Recover",
        "DropReplicationKey"}

Procs == Clients \cup {Bg}

NoDump == [set |-> {}, ver |-> 0]

\* Bytes of a bitmap: the set and the version it was taken at.  The
\* replicator only ever holds the bytes of a non-empty bitmap.
Dumps == {NoDump} \cup [set : (SUBSET Elems) \ {{}}, ver : Nat]

VARIABLES
    bitmap,   \* s.bitmap
    ver,      \* writes to s.bitmap so far
    dump,     \* r.store[ReplicationKey] (NoDump when absent)
    pc,       \* where each goroutine is
    buf,      \* the bytes a goroutine holds between two critical sections
    calls,    \* calls made by each client
    ctxDone   \* the context passed to MustWarmer is cancelled

vars == <<bitmap, ver, dump, pc, buf, calls, ctxDone>>

\* Contains and GetCount read under RLock and change nothing.
Contains(key) == key \in bitmap
GetCount == Cardinality(bitmap)

\* isEmpty, under RLock.
IsEmpty == bitmap = {}

\* NewBitmapStorage, then MustWarmer: an empty bitmap, no replica, and the
\* background goroutine started.
Init ==
    /\ bitmap = {}
    /\ ver = 0
    /\ dump = NoDump
    /\ pc = [p \in Procs |-> "idle"]
    /\ buf = [p \in Procs |-> NoDump]
    /\ calls = [c \in Clients |-> 0]
    /\ ctxDone = FALSE

\* A write to s.bitmap under s.mu.Lock().
SetBitmap(s) == bitmap' = s /\ ver' = ver + 1

\* Go back to the caller.
Return(p) == pc' = [pc EXCEPT ![p] = "idle"]

\* A client starts a call of op; the call's first critical section is part
\* of the step.
Call(c, op, body) ==
    /\ pc[c] = "idle"
    /\ op \in ClientOps
    /\ calls[c] < MaxCalls
    /\ calls' = [calls EXCEPT ![c] = calls[c] + 1]
    /\ body
    /\ UNCHANGED ctxDone

\* UpsertMany: AddMany under Lock.
UpsertMany(c, keys) ==
    Call(c, "UpsertMany",
         SetBitmap(bitmap \cup keys) /\ UNCHANGED <<dump, pc, buf>>)

\* RemoveMany: Remove of each key under Lock.
RemoveMany(c, keys) ==
    Call(c, "RemoveMany",
         SetBitmap(bitmap \ keys) /\ UNCHANGED <<dump, pc, buf>>)

\* Clear, under Lock.
Clear(c) ==
    Call(c, "Clear", SetBitmap({}) /\ UNCHANGED <<dump, pc, buf>>)

\* Warm, first step: isEmpty() under RLock.  A non-empty store returns nil.
WarmCheck(c) ==
    Call(c, "Warm",
         /\ pc' = [pc EXCEPT ![c] = IF IsEmpty THEN "warm_fill" ELSE "idle"]
         /\ UNCHANGED <<bitmap, ver, dump, buf>>)

\* Warm, second step: the WarmCallback, without the lock, either fails
\* (Warm returns its error) or returns WarmData, then UpsertMany(data).
WarmFill(c) ==
    /\ pc[c] = "warm_fill"
    /\ Return(c)
    /\ \/ UNCHANGED <<bitmap, ver>>
       \/ SetBitmap(bitmap \cup WarmData)
    /\ UNCHANGED <<dump, buf, calls, ctxDone>>

\* Mutant: the nil bytes of an empty bitmap are not refused.
GetBytesFromBitmapNoNilCheck(p) ==
    /\ buf' = [buf EXCEPT ![p] = [set |-> bitmap, ver |-> ver]]
    /\ pc' = [pc EXCEPT ![p] = "rep_write"]

\* GetBytesFromBitmap under RLock: nil for an empty bitmap, which the
\* replicator turns into "bitmap is empty for replicate"; otherwise the
\* bytes are kept for the replicator's critical section.
GetBytesFromBitmap(p) ==
    \/ /\ IsEmpty
       /\ Return(p)
       /\ UNCHANGED buf
    \/ /\ ~IsEmpty
       /\ buf' = [buf EXCEPT ![p] = [set |-> bitmap, ver |-> ver]]
       /\ pc' = [pc EXCEPT ![p] = "rep_write"]

\* Mutant: the replicator keeps the first copy it was given.
ReplicatorWriteIfAbsent(p) ==
    /\ pc[p] = "rep_write"
    /\ dump' = IF dump = NoDump THEN buf[p] ELSE dump
    /\ Return(p)
    /\ UNCHANGED <<bitmap, ver, buf, calls, ctxDone>>

\* BitmapFakeReplicator.Replicate, under r.mu.Lock(): store the copy.
ReplicatorWrite(p) ==
    /\ pc[p] = "rep_write"
    /\ dump' = buf[p]
    /\ Return(p)
    /\ UNCHANGED <<bitmap, ver, buf, calls, ctxDone>>

\* Replicate called by a client.
Replicate(c) ==
    Call(c, "Replicate", GetBytesFromBitmap(c) /\ UNCHANGED <<bitmap, ver, dump>>)

\* BitmapFakeReplicator.Recover, first step: read store[key] under
\* r.mu.RLock(); a missing or empty entry is an error.
RecoverRead(c) ==
    Call(c, "Recover",
         /\ \/ /\ dump.set = {}
               /\ Return(c)
               /\ UNCHANGED buf
            \/ /\ dump.set # {}
               /\ buf' = [buf EXCEPT ![c] = dump]
               /\ pc' = [pc EXCEPT ![c] = "rec_clear"]
         /\ UNCHANGED <<bitmap, ver, dump>>)

\* storage.Clear(), a critical section of its own.
RecoverClear(c) ==
    /\ pc[c] = "rec_clear"
    /\ SetBitmap({})
    /\ pc' = [pc EXCEPT ![c] = "rec_fill"]
    /\ UNCHANGED <<dump, buf, calls, ctxDone>>

\* ReadFromBuffer: bitmap.ReadFrom(buffer) under Lock, which replaces the
\* bitmap's contents by the decoded set.
ReadFromBuffer(b) == SetBitmap(b.set)

\* Recover's last step: storage.ReadFromBuffer of the copy read.
RecoverFill(c) ==
    /\ pc[c] = "rec_fill"
    /\ ReadFromBuffer(buf[c])
    /\ Return(c)
    /\ UNCHANGED <<dump, buf, calls, ctxDone>>

\* DropReplicationKey: delete(store, key) under r.mu.Lock().
DropReplicationKey(c) ==
    Call(c, "DropReplicationKey",
         dump' = NoDump /\ UNCHANGED <<bitmap, ver, pc, buf>>)

\* The background loop's select: the replication ticker fires and Replicate
\* runs, or the cancelled context ends the goroutine.
BgTick ==
    /\ pc[Bg] = "idle"
    /\ GetBytesFromBitmap(Bg)
    /\ UNCHANGED <<bitmap, ver, dump, calls, ctxDone>>

BgStop ==
    /\ pc[Bg] = "idle"
    /\ ctxDone
    /\ pc' = [pc EXCEPT ![Bg] = "stopped"]
    /\ UNCHANGED <<bitmap, ver, dump, buf, calls, ctxDone>>

\* The owner of the context cancels it.
Cancel ==
    /\ ~ctxDone
    /\ ctxDone' = TRUE
    /\ UNCHANGED <<bitmap, ver, dump, pc, buf, calls>>

\* A client starts a call.
ClientCall(c) ==
    \/ \E keys \in (SUBSET Elems) \ {{}} : UpsertMany(c, keys) \/ RemoveMany(c, keys)
    \/ Clear(c) \/ WarmCheck(c) \/ Replicate(c) \/ RecoverRead(c)
    \/ DropReplicationKey(c)

\* A client goroutine in the middle of a call takes its next step.
ClientStep(c) ==
    WarmFill(c) \/ ReplicatorWrite(c) \/ RecoverClear(c) \/ RecoverFill(c)

BgStep == BgTick \/ ReplicatorWrite(Bg) \/ BgStop

Next ==
    \/ \E c \in Clients : ClientCall(c) \/ ClientStep(c)
    \/ BgStep
    \/ Cancel

\* A goroutine that is running keeps running: Go's scheduler runs every
\* runnable goroutine and its mutexes hand over to waiters.  Clients need
\* not call at all.
Spec ==
    /\ Init /\ [][Next]_vars
    /\ \A c \in Clients : WF_vars(ClientStep(c))
    /\ WF_vars(BgStep)

-----------------------------------------------------------------------------
TypeOK ==
    /\ bitmap \subseteq Elems
    /\ ver \in Nat
    /\ dump \in Dumps
    /\ pc \in [Procs -> {"idle", "warm_fill", "rep_write", "rec_clear",
                         "rec_fill", "stopped"}]
    /\ buf \in [Procs -> Dumps]
    /\ calls \in [Clients -> 0..MaxCalls]
    /\ ctxDone \in BOOLEAN

\* Once the clients are done, the background replication brings the
\* replica up to date with any non-empty bitmap, unless its context was
\* cancelled.
ReplicaConverges == <>[](ctxDone \/ bitmap = {} \/ dump.set = bitmap)

\* The same, for every bitmap: an emptied set is replicated too, so that a
\* later Recover does not bring removed ids back.
ReplicaConvergesExactly == <>[](ctxDone \/ dump.set = bitmap)

\* A Replicate never puts back an older content: when the replicator's copy
\* changes to a different set, the new bytes were taken from the bitmap no
\* earlier than the copy they overwrite.  Bytes of the same set taken at
\* another write (a write that changed nothing) are no rollback.
ReplicaNeverRollsBack ==
    [][dump' # NoDump /\ dump # NoDump /\ dump'.set # dump.set
         => dump'.ver >= dump.ver]_vars

\* contract.go:29, "Warm fills the storage with data if it is empty": when
\* the warm data is added, the store is still empty.
WarmOnlyIntoEmpty == \A c \in Clients : pc[c] = "warm_fill" => IsEmpty
=============================================================================
