------------------------------ MODULE MCService ------------------------------
(***************************************************************************)
(* Small instances of Service for TLC: keys, values, request mixes.        *)
(***************************************************************************)
EXTENDS Service, ShardIndex, TLC

\* "b" lives in the last shard, every other key in the first.
MCHash == [k \in Key |-> IF k = "b" THEN ShardCount - 1 ELSE 0]
MCShardOf == [k \in Key |-> Index(MCHash[k], ShardCount) + 1]

\* The key "long" is refused by validateKey, the value "huge" by validateValue.
MCKeyLen == [k \in Key |-> IF k = "long" THEN 5 ELSE 1]
MCValLen == [v \in Value |->
               IF v = "huge" THEN 9 ELSE IF v = "big" THEN 3 ELSE 1]

SetOf(keys, ttls) ==
    [op : {"set"}, key : keys, val : Value, ttl : ttls]
Plain(op, keys) == [op : {op}, key : keys]
Snapshots == [op : {"snapshot"}]

\* Everything, on every key, with and without a TTL.
WlAll == [t \in Thread |->
    SetOf(Key, 0 .. MaxTTL) \cup Plain("get", Key) \cup Plain("del", Key)]

\* Requests that race for "a", that fill the memory with "b" and "c", and that
\* are refused.
WlCore == [t \in Thread |->
    {[op |-> "set", key |-> "a", val |-> "u", ttl |-> x] : x \in 0 .. MaxTTL}
        \cup {[op |-> "set", key |-> k, val |-> "big", ttl |-> 0] : k \in {"b", "c"}}
        \cup {[op |-> "set", key |-> "a", val |-> "huge", ttl |-> 0]}
        \cup Plain("get", {"a"}) \cup Plain("del", {"a", "long"})]

\* Each goroutine writes keys no other one writes: no key is ever raced for.
Owner == CHOOSE f \in [Key -> Thread] :
            Cardinality({f[k] : k \in Key}) =
                IF Cardinality(Thread) < Cardinality(Key)
                THEN Cardinality(Thread) ELSE Cardinality(Key)
Mine(t) == {k \in Key : Owner[k] = t}

WlOwned == [t \in Thread |->
    SetOf(Mine(t), 0 .. MaxTTL) \cup Plain("del", Mine(t))]

\* ... and a key always has a TTL ("a") or never.
WlUniform == [t \in Thread |->
    SetOf(Mine(t) \cap {"a"}, {1}) \cup SetOf(Mine(t) \ {"a"}, {0})
        \cup Plain("del", Mine(t))]

\* Writes and explicit snapshots.
WlSnap == [t \in Thread |-> SetOf(Key, {0}) \cup Snapshots]

\* Sets with and without a TTL.
WlSets == [t \in Thread |-> SetOf(Key, 0 .. MaxTTL)]

Alike == Permutations(Thread)

RuleSoon == {[changes |-> 1, seconds |-> 1]}
RuleNow  == {[changes |-> 1, seconds |-> 0]}
NoRules  == {}

\* The counters are written and never read by anything but Stats: they are
\* left out of the state's fingerprint where no property reads them.
NoStats ==
    <<mapVars, now, ttlVars, aofVars, rdbVars, memUsage, snapVars, pc, tmDelta,
      [t \in Thread |-> IF frame[t] = None THEN None
                        ELSE <<frame[t].req, frame[t].exp, frame[t].delta>>],
      begun>>
=============================================================================
