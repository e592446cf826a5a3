---------------------------- MODULE ConcurrentMap ----------------------------
(***************************************************************************)
(* The sharded in-memory map of internal/storage/concurrent_map.go.        *)
(*                                                                         *)
(* Every operation of the map holds its shard's lock from its first read   *)
(* to its last write, so each is one step here.  The map is a passive      *)
(* structure: the operators MapSet and MapDelete are conjoined to the      *)
(* steps of the goroutines that call them.  Iterate is not one step (it    *)
(* releases each shard before it locks the next); the goroutines that      *)
(* iterate take one step per shard and read it with ShardKeys.             *)
(*                                                                         *)
(* The environment the storage types share is declared here too: the wall  *)
(* clock, which Get and Exists read, and whether the disk may fail.  The   *)
(* code compares instants in milliseconds; the model's unit is one tick.   *)
(***************************************************************************)
EXTENDS Integers, Sequences, FiniteSets, FiniteSetsExt

CONSTANTS
    Key,         \* the keys clients may name
    Value,       \* the values clients may store
    ShardCount,  \* number of shards
    ShardOf,     \* the shard of each key (a hash of the key, masked)
    KeyLen,      \* length of each key in bytes
    ValLen,      \* length of each value in bytes
    MaxTime,     \* BOUND: the last instant of the model's clock
    MaxTTL,      \* BOUND: the longest lifetime a Set asks for
    IoFaults,    \* may a file operation of the persisters fail?
    None         \* "nothing": no entry, no file, no owner, no frame

Time   == 0 .. MaxTime
Expiry == 0 .. MaxTime + MaxTTL
Shard  == 1 .. ShardCount

\* exp = 0 is "never expires"
Entry == [val : Value, exp : Expiry]
Slot  == Entry \cup {None}

ASSUME MapAssumption ==
    /\ IsFiniteSet(Key)
    /\ ShardCount \in Nat \ {0}
    /\ ShardOf \in [Key -> Shard]
    /\ KeyLen \in [Key -> Nat]
    /\ ValLen \in [Value -> Nat]
    /\ MaxTime \in Nat
    /\ MaxTTL \in Nat
    /\ IoFaults \in BOOLEAN
    /\ None \notin Entry

VARIABLES
    items,     \* the entry stored under each key, None when absent
    shardMem,  \* Shard.mem: the bytes the shard believes it holds
    now        \* the wall clock

mapVars == <<items, shardMem>>

-----------------------------------------------------------------------------
\* Get and Exists: an entry is served up to and including its expiry instant.
Served(e) == e # None /\ (e.exp > 0 => now <= e.exp)

\* Rewrite, Save, replay and Load: an entry is dropped from its expiry instant on.
Lapsed(e, t) == e.exp > 0 /\ e.exp <= t

EntrySize(k, v) == KeyLen[k] + ValLen[v]

Footprint(k, e) == IF e = None THEN 0 ELSE EntrySize(k, e.val)

\* Mutant: the replaced entry is not credited.
SetDeltaOfNewKey(k, v) == EntrySize(k, v)

\* The memDelta Set returns: the new entry's size less the replaced one's.
SetDelta(k, v) == EntrySize(k, v) - Footprint(k, items[k])

\* The memDelta Delete returns, 0 for an absent key.
DeleteDelta(k) == -Footprint(k, items[k])

MapSet(k, v, x) ==
    /\ items' = [items EXCEPT ![k] = [val |-> v, exp |-> x]]
    /\ shardMem' = [shardMem EXCEPT ![ShardOf[k]] = @ + SetDelta(k, v)]

MapDelete(k) ==
    /\ items' = [items EXCEPT ![k] = None]
    /\ shardMem' = [shardMem EXCEPT ![ShardOf[k]] = @ + DeleteDelta(k)]

\* The keys of one shard that Iterate hands to Rewrite and Save at clock t.
ShardKeys(s, t) ==
    {k \in Key : ShardOf[k] = s /\ items[k] # None /\ ~Lapsed(items[k], t)}

MemUsage == SumFunction(shardMem)

MapInit ==
    /\ items = [k \in Key |-> None]
    /\ shardMem = [s \in Shard |-> 0]

MapTypeOK ==
    /\ items \in [Key -> Slot]
    /\ shardMem \in [Shard -> Int]
    /\ now \in Time
=============================================================================
