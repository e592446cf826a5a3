------------------------------ MODULE ShardIndex ------------------------------
(***************************************************************************)
(* NewConcurrentMap and getShard of internal/storage/concurrent_map.go: how *)
(* many shards a configured count gives, and which of them a hash selects.  *)
(***************************************************************************)
EXTENDS Integers, Bitwise, FiniteSetsExt

\* 1 << ceil(log2(n)) for n >= 1; n = 0 has no logarithm, and panics.
PowerAtLeast(n) == Min({2^e : e \in 0 .. n} \ 0 .. n - 1)

ActualShards(n) == Min({PowerAtLeast(n), n})

\* idx & cm.shardMask, of the first four bytes of the key's hash
Index(h, n) == h & (ActualShards(n) - 1)

Powers == {2^e : e \in 0 .. 4}
Used(n) == {Index(h, n) : h \in 0 .. 63}

\* Whatever the count, the mask gives an index of the slice; with a power of
\* two (the default is 256) it gives each one, with any other it never gives
\* some of them, whose shards stay empty.
ASSUME ShardsInRange == \A n \in 1 .. 20 : Used(n) \subseteq 0 .. ActualShards(n) - 1
ASSUME PowersUseAll == \A n \in Powers : Used(n) = 0 .. n - 1
ASSUME OthersDoNot == \A n \in (1 .. 20) \ Powers : Used(n) # 0 .. ActualShards(n) - 1
=============================================================================
