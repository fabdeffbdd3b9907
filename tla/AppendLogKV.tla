----------------------------- MODULE AppendLogKV -----------------------------
(***************************************************************************)
(* What BTreeIndexedStorage promises its callers: a map from keys to the   *)
(* value of the first Add of the key since it was last deleted.  Add does  *)
(* not overwrite (first writer wins), Delete forgets the key, and          *)
(* compaction changes nothing a caller can observe.  `lastCall` names the  *)
(* method that ran last, so that each step of the store has to match the  *)
(* abstract step of the same method.                                       *)
(***************************************************************************)
CONSTANTS Keys, Vals, Missing

VARIABLES kv, lastCall

vars == <<kv, lastCall>>

Call(op, k) == [op |-> op, key |-> k]

Init ==
    /\ kv = [k \in Keys |-> Missing]
    /\ lastCall = Call("None", Missing)

\* Add(index, value): stores value only when the key is absent.
Add(k, v) ==
    /\ kv' = IF kv[k] = Missing THEN [kv EXCEPT ![k] = v] ELSE kv
    /\ lastCall' = Call("Add", k)

\* Delete(index): the key is absent afterwards.
Delete(k) ==
    /\ kv' = [kv EXCEPT ![k] = Missing]
    /\ lastCall' = Call("Delete", k)

\* CompactIncremental(): reclaims space, the map is unchanged.
Compact ==
    /\ UNCHANGED kv
    /\ lastCall' = Call("Compact", Missing)

Next == \/ \E k \in Keys : (\E v \in Vals : Add(k, v)) \/ Delete(k)
        \/ Compact

Spec == Init /\ [][Next]_vars
==============================================================================
