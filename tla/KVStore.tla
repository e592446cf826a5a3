------------------------------- MODULE KVStore -------------------------------
(***************************************************************************)
(* What the server promises of its data, without goroutines, shards, heap  *)
(* or files: a map from keys to entries in which an entry disappears when  *)
(* it is deleted, or by a deadline that some Set gave its key and that has *)
(* passed; and an entry with an expiry always has its deadline pending.    *)
(***************************************************************************)
EXTENDS Integers

CONSTANTS Key, Value, MaxTime, MaxTTL, None

VARIABLES
    kv,         \* the entry of each key, None when absent
    deadlines,  \* the deadlines (key, instant) pending
    clock

kvVars == <<kv, deadlines, clock>>

Expiry == 0 .. MaxTime + MaxTTL

Put(k, v, x) ==
    /\ kv' = [kv EXCEPT ![k] = [val |-> v, exp |-> x]]
    /\ deadlines' = IF x > 0 THEN deadlines \cup {<<k, x>>} ELSE deadlines
    /\ UNCHANGED clock

Drop(k) ==
    /\ kv' = [kv EXCEPT ![k] = None]
    /\ UNCHANGED <<deadlines, clock>>

\* A deadline is used up, unless another Set gave the key the same one.
Lapse(k, x) ==
    /\ <<k, x>> \in deadlines
    /\ x <= clock
    /\ kv' = [kv EXCEPT ![k] = None]
    /\ deadlines' \in {deadlines, deadlines \ {<<k, x>>}}
    /\ UNCHANGED clock

Advance ==
    /\ clock' = clock + 1
    /\ UNCHANGED <<kv, deadlines>>

KVNext ==
    \/ \E k \in Key :
         \/ \E v \in Value, x \in Expiry : Put(k, v, x)
         \/ Drop(k)
         \/ \E x \in Expiry : Lapse(k, x)
    \/ Advance

KVInit ==
    /\ kv = [k \in Key |-> None]
    /\ deadlines = {}
    /\ clock = 0

KVSpec == KVInit /\ [][KVNext]_kvVars
=============================================================================
