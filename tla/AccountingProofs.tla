-------------------------- MODULE AccountingProofs --------------------------
(***************************************************************************)
(* The memory counter agrees with the map in every interleaving, and       *)
(* concurrent Sets pass the limit by a bounded amount, for any keys,       *)
(* shards, handlers and requests.                                          *)
(***************************************************************************)
EXTENDS ServiceProofs, SumProofs

USE DEF Time, Expiry, Shard, Worker

-----------------------------------------------------------------------------
(* The sums of MemAccounting *)

Deltas == [t \in Thread |-> Delta(t)]
Prints == [k \in Key |-> Footprint(k, items[k])]

\* A delta is computed when the map is changed and is gone once it is added.
Settled ==
    /\ \A t \in Thread : pc[t] # "account" => Delta(t) = 0
    /\ tmPc # "account" => tmDelta = 0

Balanced ==
    /\ memUsage + SumFunction(Deltas) + tmDelta = SumFunction(shardMem)
    /\ SumFunction(shardMem) = SumFunction(Prints)

\* MemAccounting says that the books balance, before a step and after it.
LEMMA AccountingIs ==
    /\ MemAccounting <=> Balanced
    /\ MemAccounting' <=> Balanced'
BY DEF MemAccounting, Balanced, Content, SumOver, MemUsage, Deltas, Prints

LEMMA DeltaIs ==
    ASSUME SvcTypeOK, NEW t \in Thread
    PROVE  Delta(t) \in Int /\ (frame[t] # None => Delta(t) = frame[t].delta)
BY DEF SvcTypeOK, Delta, Frame

\* The sums are over finite sets of integers.
LEMMA SumsTyped ==
    ASSUME TypeOK
    PROVE  /\ IsFiniteSet(Thread) /\ IsFiniteSet(Key) /\ IsFiniteSet(Shard)
           /\ Deltas \in [Thread -> Int]
           /\ Prints \in [Key -> Int]
           /\ shardMem \in [Shard -> Int]
<1>1. IsFiniteSet(Shard)
  BY MapAssumption, FS_Interval
<1>2. Deltas \in [Thread -> Int]
  BY TypeParts, DeltaIs DEF Deltas
<1>3. Prints \in [Key -> Int]
  BY TypeParts, SizeType DEF Prints, MapTypeOK
<1> QED
  BY <1>1, <1>2, <1>3, TypeParts, MapAssumption, ServiceAssumption DEF MapTypeOK

-----------------------------------------------------------------------------
(* The steps that move no byte *)

\* A handler that takes no step, or one between points where it has no delta
\* and no entry it is about to store.
Still(t) == pc'[t] = pc[t] /\ frame'[t] = frame[t]
Light(t) ==
    /\ {pc[t], pc'[t]} \cap {"store", "account"} = {}
    /\ frame'[t] = None \/ frame'[t].delta = 0
    /\ pc'[t] = "check" => Valid(frame'[t].req)

Idly == \A t \in Thread : Still(t) \/ Light(t)

\* The books, with no delta and no byte changed.
NoByte == Idly /\ UNCHANGED <<items, shardMem, memUsage, tmDelta, tmPc>>

LEMMA NoByteBalances ==
    ASSUME Settled, Balanced, NoByte
    PROVE  Settled' /\ Balanced'
<1>1. \A t \in Thread : Delta(t)' = Delta(t)
  BY DEF NoByte, Idly, Still, Light, Settled, Delta
<1>2. Deltas' = Deltas /\ Prints' = Prints
  BY <1>1 DEF Deltas, Prints, NoByte
<1>3. Settled'
  BY <1>1 DEF NoByte, Idly, Still, Light, Settled
<1> QED
  BY <1>2, <1>3 DEF Balanced, NoByte

LEMMA LightStep ==
    ASSUME SvcTypeOK, Settled, NEW t \in Thread,
           NEW l, l \notin {"check", "store", "account"}, Goto(t, l),
           pc[t] \notin {"store", "account"},
           NEW f, frame' = [frame EXCEPT ![t] = f] \/ UNCHANGED frame,
           f = None \/ f.delta = 0
    PROVE  Idly
<1>1. pc'[t] = l /\ \A u \in Thread : u # t => Still(u)
  BY DEF SvcTypeOK, Goto, Still
<1>2. frame'[t] = f \/ frame'[t] = frame[t]
  BY DEF SvcTypeOK
<1>3. frame[t] = None \/ frame[t].delta = 0
  BY DEF Settled, Delta
<1> QED
  BY <1>1, <1>2, <1>3 DEF Idly, Light

\* A move of the loop, or of a handler that leaves the frames alone.
LEMMA MoveIdly ==
    ASSUME SvcTypeOK, Settled, NEW p \in Worker, pc[p] \notin {"store", "account"},
           NEW l, l \notin {"check", "store", "account"}, Goto(p, l), UNCHANGED frame
    PROVE  Idly
<1>1. CASE p = Loop
  BY <1>1, RdbAssumption DEF Goto, SvcTypeOK, Idly, Still
<1>2. CASE p # Loop
  <2>1. p \in Thread
    BY <1>2
  <2> QED
    BY <2>1, LightStep
<1> QED
  BY <1>1, <1>2

\* Resume hands the frame on or drops it.
LEMMA ResumeIdly ==
    ASSUME SvcTypeOK, Settled, NEW p \in Worker, pc[p] \notin {"store", "account"},
           Resume(p)
    PROVE  Idly
<1>1. CASE p = Loop
  BY <1>1, MoveIdly DEF Resume
<1>2. CASE p # Loop
  <2>1. p \in Thread
    BY <1>2
  <2>2. PICK l \in {"arm", "idle"} :
            Goto(p, l) /\ (frame' = [frame EXCEPT ![p] = None] \/ UNCHANGED frame)
    BY <1>2 DEF Resume, Return
  <2> QED
    BY <2>1, <2>2, LightStep
<1> QED
  BY <1>1, <1>2

\* Snapshots change no byte.
LEMMA SnapNoByte ==
    ASSUME SvcTypeOK, Settled, NEW p \in Worker, SnapStep(p)
    PROVE  NoByte
<1>1. UNCHANGED <<items, shardMem, memUsage, tmDelta, tmPc>>
  BY DEF SnapStep, AutoClock, AutoAge, AutoRules, SnapLock, SnapSave, SnapSaved,
         SnapFailed, SnapReset, mapVars, ttlVars, svcVars
<1>2. \/ UNCHANGED <<pc, frame>>
      \/ /\ pc[p] \notin {"store", "account"}
         /\ \/ Resume(p)
            \/ UNCHANGED frame /\ \E l \in {"last", "rules", "lock", "save", "reset"} : Goto(p, l)
  <2>1. CASE AutoClock(p) \/ AutoAge(p)
    BY <2>1 DEF AutoClock, AutoAge
  <2>2. CASE AutoRules(p)
    BY <2>2 DEF AutoRules
  <2>3. CASE SnapLock(p)
    BY <2>3 DEF SnapLock
  <2>4. CASE SnapSave(p)
    BY <2>4 DEF SnapSave, svcVars
  <2>5. CASE SnapSaved(p)
    BY <2>5 DEF SnapSaved
  <2>6. CASE SnapFailed(p)
    BY <2>6 DEF SnapFailed
  <2>7. CASE SnapReset(p)
    BY <2>7 DEF SnapReset
  <2> QED
    BY <2>1, <2>2, <2>3, <2>4, <2>5, <2>6, <2>7 DEF SnapStep
<1>3. CASE UNCHANGED <<pc, frame>>
  BY <1>1, <1>3 DEF Idly, Still, NoByte
<1>4. CASE pc[p] \notin {"store", "account"} /\ Resume(p)
  BY <1>1, <1>4, ResumeIdly DEF NoByte
<1>5. CASE pc[p] \notin {"store", "account"} /\ UNCHANGED frame
           /\ \E l \in {"last", "rules", "lock", "save", "reset"} : Goto(p, l)
  BY <1>1, <1>5, MoveIdly DEF NoByte
<1> QED
  BY <1>2, <1>3, <1>4, <1>5

\* A request that is valid goes on to the check with no delta.
LEMMA RecordNoByte ==
    ASSUME SvcTypeOK, Settled, NEW t \in Thread, Record(t)
    PROVE  NoByte
<1> DEFINE r == frame[t].req
           f == [frame[t] EXCEPT !.exp = Deadline(r, now)]
<1>1. frame[t] \in Frame /\ frame[t] # None /\ pc[t] = "record"
  BY BusyFrame DEF Record
<1>2. f.delta = 0 /\ f.req = r
  BY <1>1 DEF Frame, Settled, Delta
<1>3. UNCHANGED <<items, shardMem, memUsage, tmDelta, tmPc>>
  BY DEF Record, mapVars, ttlVars
<1>4. \/ Goto(t, "idle") /\ frame' = [frame EXCEPT ![t] = None]
      \/ Goto(t, "check") /\ frame' = [frame EXCEPT ![t] = f] /\ Valid(r)
      \/ Goto(t, "read") /\ UNCHANGED frame
      \/ Goto(t, "remove") /\ UNCHANGED frame
  BY DEF Record, Return
<1> HIDE DEF f
<1>5. CASE Goto(t, "idle") /\ frame' = [frame EXCEPT ![t] = None]
  BY <1>1, <1>3, <1>5, LightStep DEF NoByte
<1>6. CASE Goto(t, "check") /\ frame' = [frame EXCEPT ![t] = f] /\ Valid(r)
  <2>1. pc'[t] = "check" /\ frame'[t] = f /\ \A u \in Thread : u # t => Still(u)
    BY <1>6 DEF SvcTypeOK, Goto, Still
  <2> QED
    BY <1>1, <1>2, <1>3, <1>6, <2>1 DEF Idly, Light, NoByte
<1>7. CASE UNCHANGED frame /\ \E l \in {"read", "remove"} : Goto(t, l)
  BY <1>1, <1>3, <1>7, MoveIdly DEF NoByte
<1> QED
  BY <1>4, <1>5, <1>6, <1>7

\* A handler's other steps, but for the check that lets a Set through and the
\* three that move bytes.
LEMMA HandlerNoByte ==
    ASSUME SvcTypeOK, Settled, NEW t \in Thread, Begin(t) \/ Handler(t),
           ~(Check(t) /\ Goto(t, "store")), ~Store(t), ~Remove(t), ~Account(t)
    PROVE  NoByte
<1>1. CASE SnapStep(t)
  BY <1>1, SnapNoByte
<1>2. CASE Record(t)
  BY <1>2, RecordNoByte
<1>3. CASE Count(t)
  <2>1. UNCHANGED <<items, shardMem, memUsage, tmDelta, tmPc>> /\ pc[t] = "count"
    BY <1>3 DEF Count, mapVars, ttlVars
  <2>2. CASE Goto(t, "auto") /\ UNCHANGED frame
    BY <2>1, <2>2, MoveIdly DEF NoByte
  <2>3. CASE Resume(t)
    BY <2>1, <2>3, ResumeIdly DEF NoByte
  <2> QED
    BY <1>3, <2>2, <2>3 DEF Count
<1>4. CASE Begin(t) \/ Check(t) \/ LogLine(t) \/ Arm(t) \/ Read(t)
  <2>1. /\ UNCHANGED <<items, shardMem, memUsage, tmDelta, tmPc>>
        /\ pc[t] \notin {"store", "account"}
    BY <1>4 DEF Begin, Check, LogLine, Arm, Read, mapVars, ttlVars
  <2>2. PICK l, f :
            /\ l \notin {"check", "store", "account"} /\ Goto(t, l)
            /\ frame' = [frame EXCEPT ![t] = f] \/ UNCHANGED frame
            /\ f = None \/ f.delta = 0
    <3>1. CASE Begin(t)
      <4>1. PICK l, r :
                /\ l \in {"lock", "record"} /\ Goto(t, l)
                /\ frame' = [frame EXCEPT ![t] = [req |-> r, copy |-> requests,
                                                  exp |-> 0, delta |-> 0]]
        BY <3>1 DEF Begin
      <4>2. [req |-> r, copy |-> requests, exp |-> 0, delta |-> 0].delta = 0
        OBVIOUS
      <4> QED
        BY <4>1, <4>2
    <3>2. CASE Check(t)
      BY <3>2 DEF Check, Return
    <3>3. CASE LogLine(t)
      BY <3>3 DEF LogLine, Return
    <3>4. CASE Arm(t)
      BY <3>4 DEF Arm, Return
    <3>5. CASE Read(t)
      BY <3>5 DEF Read, Return
    <3> QED
      BY <1>4, <3>1, <3>2, <3>3, <3>4, <3>5
  <2> QED
    BY <2>1, <2>2, LightStep DEF NoByte
<1> QED
  BY <1>1, <1>2, <1>3, <1>4 DEF Handler

\* Nor do the loop, the rewriter and the clock.
LEMMA OthersNoByte ==
    ASSUME SvcTypeOK, Settled,
           LoopTick \/ SnapStep(Loop) \/ Rewriter \/ Tick \/ UNCHANGED vars
    PROVE  NoByte
<1>1. CASE LoopTick
  <2>1. UNCHANGED <<items, shardMem, memUsage, tmDelta, tmPc>>
    BY <1>1 DEF LoopTick, mapVars, ttlVars
  <2> QED
    BY <1>1, <2>1, MoveIdly DEF LoopTick, NoByte
<1>2. CASE SnapStep(Loop)
  BY <1>2, SnapNoByte
<1>3. CASE Rewriter \/ Tick \/ UNCHANGED vars
  BY <1>3 DEF Rewriter, Tick, vars, mapVars, ttlVars, svcVars, NoByte, Idly, Still
<1> QED
  BY <1>1, <1>2, <1>3

\* A Set that fits goes on to store.
LEMMA CheckBalances ==
    ASSUME SvcTypeOK, Settled, Balanced, NEW t \in Thread, Check(t), Goto(t, "store")
    PROVE  Settled' /\ Balanced'
<1>1. /\ UNCHANGED <<items, shardMem, memUsage, tmDelta, tmPc, frame>>
      /\ pc[t] = "check" /\ pc'[t] = "store" /\ \A u \in Thread : u # t => pc'[u] = pc[u]
  BY DEF Check, Return, Goto, SvcTypeOK, mapVars, ttlVars
<1>2. Deltas' = Deltas /\ Prints' = Prints /\ \A u \in Thread : Delta(u)' = Delta(u)
  BY <1>1 DEF Deltas, Prints, Delta
<1> QED
  BY <1>1, <1>2 DEF Settled, Balanced

-----------------------------------------------------------------------------
(* The steps that do *)

LEMMA ShardSum ==
    ASSUME NEW f \in [Shard -> Int], NEW h \in [Shard -> Int], NEW s \in Shard,
           \A x \in Shard : x # s => h[x] = f[x]
    PROVE  SumFunction(h) = SumFunction(f) + h[s] - f[s]
<1>1. IsFiniteSet(Shard)
  BY MapAssumption, FS_Interval
<1> HIDE DEF Shard
<1> QED
  BY <1>1, SumChanges

\* A write to the map changes the shard and the content by the same amount.
LEMMA WriteSums ==
    ASSUME TypeOK, NEW k \in Key, NEW e \in Slot, NEW d \in Int,
           d = Footprint(k, e) - Footprint(k, items[k]),
           items' = [items EXCEPT ![k] = e],
           shardMem' = [shardMem EXCEPT ![ShardOf[k]] = @ + d]
    PROVE  /\ SumFunction(shardMem') = SumFunction(shardMem) + d
           /\ SumFunction(Prints') = SumFunction(Prints) + d
           /\ SumFunction(shardMem) \in Int
           /\ SumFunction(Prints) \in Int
<1>0. PICK s \in Shard : s = ShardOf[k]
  BY MapAssumption
<1>1. /\ shardMem \in [Shard -> Int] /\ shardMem[s] \in Int
      /\ IsFiniteSet(Shard)
  BY SumsTyped, MapAssumption
<1>2. /\ Prints \in [Key -> Int] /\ IsFiniteSet(Key)
      /\ Prints[k] = Footprint(k, items[k])
  BY SumsTyped DEF Prints
<1>3. Footprint(k, e) \in Int /\ Footprint(k, items[k]) \in Int
  BY SizeType, TypeParts DEF MapTypeOK
<1>4. /\ Prints' \in [Key -> Int] /\ Prints'[k] = Footprint(k, e)
      /\ \A j \in Key : j # k => Prints'[j] = Prints[j]
  <2>1. items \in [Key -> Slot]
    BY TypeParts DEF MapTypeOK
  <2>2. \A j \in Key : items'[j] = IF j = k THEN e ELSE items[j]
    BY <2>1
  <2>3. Prints' = [j \in Key |-> Footprint(j, items'[j])]
    BY DEF Prints, Footprint
  <2>4. \A j \in Key : Footprint(j, items'[j]) =
                           IF j = k THEN Footprint(k, e) ELSE Footprint(j, items[j])
    BY <2>2
  <2> QED
    BY <1>2, <1>3, <2>3, <2>4 DEF Prints
<1>5. SumFunction(shardMem') = SumFunction(shardMem) + (shardMem[s] + d) - shardMem[s]
  <2>1. /\ shardMem' \in [Shard -> Int] /\ shardMem'[s] = shardMem[s] + d
        /\ \A x \in Shard : x # s => shardMem'[x] = shardMem[x]
    BY <1>0, <1>1
  <2>2. SumFunction(shardMem') = SumFunction(shardMem) + shardMem'[s] - shardMem[s]
    BY <1>1, <2>1, ShardSum
  <2> QED
    BY <2>1, <2>2
<1>6. SumFunction(Prints') = SumFunction(Prints) + Footprint(k, e) - Prints[k]
  BY <1>2, <1>4, SumChanges
<1>7. SumFunction(shardMem) \in Int /\ SumFunction(Prints) \in Int
  BY <1>1, <1>2, SumsAre
<1> QED
  BY <1>1, <1>2, <1>3, <1>5, <1>6, <1>7

\* storage.Set and storage.Delete on their keys.
LEMMA SetSums ==
    ASSUME TypeOK, NEW k \in Key, NEW v \in Value, NEW x \in Expiry, MapSet(k, v, x)
    PROVE  /\ SumFunction(shardMem') = SumFunction(shardMem) + SetDelta(k, v)
           /\ SumFunction(Prints') = SumFunction(Prints) + SetDelta(k, v)
           /\ SumFunction(shardMem) \in Int /\ SumFunction(Prints) \in Int
<1> DEFINE e == [val |-> v, exp |-> x]
<1>1. e \in Slot /\ e # None
  BY MapAssumption DEF Slot, Entry
<1>2. SetDelta(k, v) = Footprint(k, e) - Footprint(k, items[k])
  BY <1>1 DEF SetDelta, Footprint
<1>3. SetDelta(k, v) \in Int
  BY SetDeltaType, TypeParts
<1>4. /\ items' = [items EXCEPT ![k] = e]
      /\ shardMem' = [shardMem EXCEPT ![ShardOf[k]] = @ + SetDelta(k, v)]
  BY DEF MapSet
<1> HIDE DEF e
<1> QED
  BY <1>1, <1>2, <1>3, <1>4, WriteSums

LEMMA DeleteSums ==
    ASSUME TypeOK, NEW k \in Key, MapDelete(k)
    PROVE  /\ SumFunction(shardMem') = SumFunction(shardMem) + DeleteDelta(k)
           /\ SumFunction(Prints') = SumFunction(Prints) + DeleteDelta(k)
           /\ SumFunction(shardMem) \in Int /\ SumFunction(Prints) \in Int
<1>1. None \in Slot /\ Footprint(k, None) = 0 /\ Footprint(k, items[k]) \in Nat
  BY SizeType, TypeParts DEF Slot, Footprint, MapTypeOK
<1>2. DeleteDelta(k) = Footprint(k, None) - Footprint(k, items[k])
  BY <1>1 DEF DeleteDelta
<1>3. DeleteDelta(k) \in Int
  BY DeleteDeltaType, TypeParts
<1>4. /\ items' = [items EXCEPT ![k] = None]
      /\ shardMem' = [shardMem EXCEPT ![ShardOf[k]] = @ + DeleteDelta(k)]
  BY DEF MapDelete
<1> QED
  BY <1>1, <1>2, <1>3, <1>4, WriteSums

\* What a handler records, or drops, of its delta.
LEMMA FrameSums ==
    ASSUME TypeOK, NEW t \in Thread, pc[t] # "idle", NEW f \in Frame,
           frame' = [frame EXCEPT ![t] = f]
    PROVE  /\ SumFunction(Deltas') = SumFunction(Deltas) + f.delta - Delta(t)
           /\ SumFunction(Deltas) \in Int /\ Delta(t) \in Int
           /\ Delta(t) = frame[t].delta /\ Delta(t)' = f.delta
           /\ \A u \in Thread : u # t => Delta(u)' = Delta(u)
<1>0. SvcTypeOK
  BY TypeParts
<1>1. frame[t] \in Frame /\ frame[t] # None /\ frame \in [Thread -> Frame \cup {None}]
  BY <1>0, BusyFrame DEF SvcTypeOK
<1>2. f.delta \in Int /\ f # None
  BY ServiceAssumption DEF Frame
<1>3. \A u \in Thread : Delta(u)' = IF u = t THEN f.delta ELSE Delta(u)
  BY <1>1, <1>2 DEF Delta
<1>4. Deltas' = [u \in Thread |-> IF u = t THEN f.delta ELSE Delta(u)]
  BY <1>3 DEF Deltas
<1>5. /\ Deltas \in [Thread -> Int] /\ IsFiniteSet(Thread)
      /\ Deltas[t] = Delta(t) /\ Delta(t) = frame[t].delta /\ Delta(t) \in Int
  BY <1>0, <1>1, SumsTyped, DeltaIs DEF Deltas
<1>6. /\ Deltas' \in [Thread -> Int] /\ Deltas'[t] = f.delta
      /\ \A u \in Thread : u # t => Deltas'[u] = Deltas[u]
  BY <1>0, <1>2, <1>4, DeltaIs DEF Deltas
<1>7. SumFunction(Deltas) \in Int
  BY <1>5, SumsAre
<1>8. SumFunction(Deltas') = SumFunction(Deltas) + f.delta - Delta(t)
  BY <1>5, <1>6, SumChanges
<1> QED
  BY <1>3, <1>5, <1>7, <1>8

\* The map is written and the delta recorded,
LEMMA StoreBalances ==
    ASSUME TypeOK, Settled, Balanced, NEW t \in Thread, Store(t) \/ Remove(t)
    PROVE  Settled' /\ Balanced'
<1>0. SvcTypeOK /\ frame[t] \in Frame /\ pc[t] \notin {"idle", "account"}
  BY TypeParts, BusyFrame DEF Store, Remove
<1>1. PICK d \in Int :
        /\ frame' = [frame EXCEPT ![t].delta = d]
        /\ SumFunction(shardMem') = SumFunction(shardMem) + d
        /\ SumFunction(Prints') = SumFunction(Prints) + d
        /\ SumFunction(shardMem) \in Int /\ SumFunction(Prints) \in Int
  <2>1. CASE Store(t)
    <3> DEFINE r == frame[t].req
    <3>1. r.key \in Key /\ r.val \in Value /\ frame[t].exp \in Expiry
      BY <1>0, <2>1 DEF Store, SvcTypeOK, ControlOK, Frame, Request
    <3>2. SetDelta(r.key, r.val) \in Int
      BY <3>1, SetDeltaType, TypeParts
    <3>3. MapSet(r.key, r.val, frame[t].exp)
          /\ frame' = [frame EXCEPT ![t].delta = SetDelta(r.key, r.val)]
      BY <2>1 DEF Store
    <3> HIDE DEF r
    <3> QED
      BY <3>1, <3>2, <3>3, SetSums
  <2>2. CASE Remove(t)
    <3> DEFINE k == frame[t].req.key
    <3>1. k \in Key
      BY <1>0, <2>2 DEF Remove, SvcTypeOK, ControlOK, Frame, Request
    <3>2. DeleteDelta(k) \in Int
      BY <3>1, DeleteDeltaType, TypeParts
    <3>3. MapDelete(k) /\ frame' = [frame EXCEPT ![t].delta = DeleteDelta(k)]
      BY <2>2 DEF Remove
    <3> HIDE DEF k
    <3> QED
      BY <3>1, <3>2, <3>3, DeleteSums
  <2> QED
    BY <2>1, <2>2
<1>2. /\ SumFunction(Deltas') = SumFunction(Deltas) + d - Delta(t)
      /\ SumFunction(Deltas) \in Int
      /\ \A u \in Thread : u # t => Delta(u)' = Delta(u)
  <2> DEFINE f == [frame[t] EXCEPT !.delta = d]
  <2>1. f \in Frame /\ f.delta = d /\ frame' = [frame EXCEPT ![t] = f]
    BY <1>0, <1>1 DEF Frame
  <2> HIDE DEF f
  <2> QED
    BY <1>0, <2>1, FrameSums
<1>3. Delta(t) = 0
  BY <1>0 DEF Settled
<1>4. UNCHANGED <<memUsage, tmDelta, tmPc>> /\ Goto(t, "account")
  BY DEF Store, Remove, ttlVars
<1>5. memUsage \in Int /\ tmDelta \in Int
  BY <1>0 DEF SvcTypeOK
<1>6. Balanced'
  BY <1>1, <1>2, <1>3, <1>4, <1>5 DEF Balanced
<1>7. Settled'
  BY <1>0, <1>2, <1>4 DEF Settled, SvcTypeOK, Goto
<1> QED
  BY <1>6, <1>7

\* and added to the counter in a later step.
LEMMA AccountBalances ==
    ASSUME TypeOK, Settled, Balanced, NEW t \in Thread, Account(t)
    PROVE  Settled' /\ Balanced'
<1>0. SvcTypeOK
  BY TypeParts
<1>1. /\ pc[t] = "account" /\ frame' = [frame EXCEPT ![t].delta = 0]
      /\ memUsage' = memUsage + frame[t].delta
      /\ UNCHANGED <<items, shardMem, tmDelta, tmPc>>
      /\ \E l \in {"append", "count"} : Goto(t, l)
  BY DEF Account, mapVars, ttlVars
<1>2. /\ SumFunction(Deltas') = SumFunction(Deltas) - Delta(t)
      /\ SumFunction(Deltas) \in Int /\ Delta(t) \in Int
      /\ Delta(t) = frame[t].delta /\ Delta(t)' = 0
      /\ \A u \in Thread : u # t => Delta(u)' = Delta(u)
  <2> DEFINE f == [frame[t] EXCEPT !.delta = 0]
  <2>1. f \in Frame /\ f.delta = 0 /\ frame' = [frame EXCEPT ![t] = f]
    BY <1>0, <1>1, BusyFrame DEF Frame
  <2> HIDE DEF f
  <2>2. /\ SumFunction(Deltas') = SumFunction(Deltas) + f.delta - Delta(t)
        /\ SumFunction(Deltas) \in Int /\ Delta(t) \in Int
        /\ Delta(t) = frame[t].delta /\ Delta(t)' = f.delta
        /\ \A u \in Thread : u # t => Delta(u)' = Delta(u)
    BY <1>1, <2>1, FrameSums
  <2> QED
    BY <2>1, <2>2
<1>4. memUsage \in Int /\ tmDelta \in Int
  BY <1>0 DEF SvcTypeOK
<1>5. Prints' = Prints
  BY <1>1 DEF Prints
<1>6. Balanced'
  BY <1>1, <1>2, <1>4, <1>5 DEF Balanced
<1>7. Settled'
  BY <1>0, <1>1, <1>2 DEF Settled, SvcTypeOK, Goto
<1> QED
  BY <1>6, <1>7

\* onExpire writes the map and the counter the same way.
LEMMA TtlBalances ==
    ASSUME TypeOK, Settled, Balanced, TtlGoroutine
    PROVE  Settled' /\ Balanced'
<1>0. SvcTypeOK /\ memUsage \in Int /\ tmDelta \in Int
  BY TypeParts DEF SvcTypeOK
<1>1. CASE TtlStep /\ UNCHANGED <<mapVars, now, aofVars, rdbVars, svcVars>>
  <2>1. UNCHANGED <<items, shardMem, memUsage, tmDelta, pc, frame>>
        /\ tmPc # "account" /\ tmPc' # "account"
    BY <1>1 DEF TtlStep, TtlSleep, TtlWake, TtlWait, TtlTimer, TtlPop, TtlExit,
                mapVars, svcVars
  <2>2. UNCHANGED <<Deltas, Prints>> /\ \A t \in Thread : UNCHANGED Delta(t)
    BY <2>1 DEF Deltas, Prints, Delta
  <2> QED
    BY <2>1, <2>2 DEF Settled, Balanced
<1>2. CASE Expire
  <2> DEFINE k == tmItem[1]
             d == DeleteDelta(k)
  <2>1. k \in Key
    BY <1>2, TypeParts DEF Expire, TtlTypeOK, Item
  <2>2. d \in Int
    BY <2>1, DeleteDeltaType, TypeParts
  <2>3. /\ MapDelete(k) /\ tmDelta' = d /\ tmDelta = 0 /\ tmPc' = "account"
        /\ UNCHANGED <<memUsage, pc, frame>>
    BY <1>2 DEF Expire, Settled
  <2>4. UNCHANGED Deltas /\ \A t \in Thread : UNCHANGED Delta(t)
    BY <2>3 DEF Deltas, Delta
  <2>5. /\ SumFunction(shardMem') = SumFunction(shardMem) + d
        /\ SumFunction(Prints') = SumFunction(Prints) + d
        /\ SumFunction(shardMem) \in Int /\ SumFunction(Prints) \in Int
    BY <2>1, <2>3, DeleteSums
  <2>6. SumFunction(Deltas) \in Int
    BY SumsTyped, SumsAre
  <2> HIDE DEF d, k
  <2>7. Balanced'
    BY <1>0, <2>2, <2>3, <2>4, <2>5, <2>6 DEF Balanced
  <2> QED
    BY <2>3, <2>4, <2>7 DEF Settled
<1>3. CASE ExpireAccount
  <2>1. /\ memUsage' = memUsage + tmDelta /\ tmDelta' = 0 /\ tmPc' = "loop"
        /\ UNCHANGED <<items, shardMem, pc, frame>>
    BY <1>3 DEF ExpireAccount, mapVars
  <2>2. UNCHANGED <<Deltas, Prints>> /\ \A t \in Thread : UNCHANGED Delta(t)
    BY <2>1 DEF Deltas, Delta, Prints
  <2>3. SumFunction(Deltas) \in Int
    BY SumsTyped, SumsAre
  <2>4. Balanced'
    BY <1>0, <2>1, <2>2, <2>3 DEF Balanced
  <2> QED
    BY <2>1, <2>2, <2>4 DEF Settled
<1> QED
  BY <1>1, <1>2, <1>3 DEF TtlGoroutine

-----------------------------------------------------------------------------
(* The counter agrees with the map *)

AInv == TypeOK /\ Settled /\ Balanced

LEMMA AInvInit == Init => AInv
<1> SUFFICES ASSUME Init PROVE AInv
  OBVIOUS
<1>1. TypeOK
  BY InitType
<1>2. /\ items = [k \in Key |-> None] /\ shardMem = [s \in Shard |-> 0]
      /\ frame = [t \in Thread |-> None] /\ tmDelta = 0 /\ memUsage = 0
  BY DEF Init, MapInit, SvcFresh
<1>3. /\ Deltas = [t \in Thread |-> 0] /\ Prints = [k \in Key |-> 0]
      /\ \A t \in Thread : Delta(t) = 0
  BY <1>2 DEF Deltas, Prints, Delta, Footprint
<1>4. ASSUME NEW S, IsFiniteSet(S), NEW f \in [S -> Int], \A x \in S : f[x] = 0
      PROVE  SumFunction(f) = 0
  <2>1. SumFunction(f) = Cardinality(S) * 0 /\ Cardinality(S) \in Nat
    BY <1>4, SumOfConstant, FS_CardinalityType
  <2> QED
    BY <2>1
<1>5. SumFunction(Deltas) = 0 /\ SumFunction(Prints) = 0 /\ SumFunction(shardMem) = 0
  <2>1. SumFunction(Deltas) = 0
    BY <1>1, <1>3, <1>4, SumsTyped
  <2>2. SumFunction(Prints) = 0
    BY <1>1, <1>3, <1>4, SumsTyped
  <2>3. SumFunction(shardMem) = 0
    BY <1>1, <1>2, <1>4, SumsTyped
  <2> QED
    BY <2>1, <2>2, <2>3
<1> QED
  BY <1>1, <1>2, <1>3, <1>5 DEF AInv, Settled, Balanced

LEMMA AInvNext == AInv /\ [Next]_vars => AInv'
<1> SUFFICES ASSUME TypeOK, Settled, Balanced, [Next]_vars
             PROVE  Settled' /\ Balanced'
  BY NextType DEF AInv
<1>0. SvcTypeOK
  BY TypeParts
<1>1. ASSUME NEW t \in Thread, Begin(t) \/ Handler(t)
      PROVE  Settled' /\ Balanced'
  <2>1. CASE Check(t) /\ Goto(t, "store")
    BY <1>0, <2>1, CheckBalances
  <2>2. CASE Store(t) \/ Remove(t)
    BY <2>2, StoreBalances
  <2>3. CASE Account(t)
    BY <2>3, AccountBalances
  <2> QED
    BY <1>0, <1>1, <2>1, <2>2, <2>3, HandlerNoByte, NoByteBalances
<1>2. CASE TtlGoroutine
  BY <1>2, TtlBalances
<1>3. CASE LoopTick \/ SnapStep(Loop) \/ Rewriter \/ Tick \/ UNCHANGED vars
  BY <1>0, <1>3, OthersNoByte, NoByteBalances
<1> QED
  BY <1>1, <1>2, <1>3 DEF Next, Run

LEMMA AInvAlways == Spec => []AInv
BY AInvInit, AInvNext, PTL DEF Spec

\* Set, Delete and onExpire change the map first and the counter later
\* (service.go:50-52, 168-169, 220-221): in every interleaving the counter and
\* the deltas under way are what the shards say they hold, and that is what
\* the entries take.
THEOREM CounterIsTrue == Spec => []MemAccounting
<1>1. AInv => MemAccounting
  BY AccountingIs DEF AInv
<1> QED
  BY <1>1, AInvAlways, PTL

-----------------------------------------------------------------------------
(* How far the limit can be passed *)

Largest == Max(EntrySizes)

\* What a Set that has passed the check may still add to the counter.
Cost(t) ==
    IF frame[t] = None THEN 0
    ELSE IF pc[t] = "store" THEN EntrySize(frame[t].req.key, frame[t].req.val)
    ELSE IF frame[t].delta > 0 THEN frame[t].delta ELSE 0

Costs == [t \in Thread |-> Cost(t)]

\* The check makes it true of the counter and the Sets that have passed it: the
\* one that checks last had room for its entry, the others have one each.
Capped ==
    /\ \A t \in Thread :
        /\ pc[t] \in {"check", "store"} => Valid(frame[t].req)
        /\ Cost(t) \in 0 .. Largest
    /\ tmDelta <= 0
    /\ memUsage + SumFunction(Costs) <=
           MaxMemory + (Cardinality(Thread) - 1) * Largest

\* There is a largest entry that can be stored.
LEMMA LargestIs ==
    ASSUME EntrySizes # {}
    PROVE  Largest \in Nat /\ \A n \in EntrySizes : n \in Nat /\ n <= Largest
<1>1. MaxKeySize \in Nat /\ MaxValueSize \in Nat
  BY ServiceAssumption
<1>2. EntrySizes \subseteq 0 .. MaxKeySize + MaxValueSize
  <2>1. ASSUME NEW k \in Key, ValidKey(k), NEW v \in Value, ValidValue(v)
        PROVE  EntrySize(k, v) \in 0 .. MaxKeySize + MaxValueSize
    <3>1. KeyLen[k] \in Nat /\ ValLen[v] \in Nat
      BY MapAssumption
    <3>2. KeyLen[k] <= MaxKeySize /\ ValLen[v] <= MaxValueSize
      BY <2>1 DEF ValidKey, ValidValue
    <3> QED
      BY <1>1, <3>1, <3>2 DEF EntrySize
  <2> QED
    BY <2>1 DEF EntrySizes
<1>3. Largest \in EntrySizes /\ \A n \in EntrySizes : n <= Largest
  <2>1. Max(EntrySizes) \in EntrySizes /\ \A i \in EntrySizes : i <= Max(EntrySizes)
    <3> DEFINE S == EntrySizes
               n == MaxKeySize + MaxValueSize
    <3>1. n \in Nat /\ S \subseteq 0 .. n /\ S # {}
      BY <1>1, <1>2
    <3> HIDE DEF S, n
    <3>2. Max(S) \in S /\ \A i \in S : i <= Max(S)
      BY <3>1, HasMax
    <3> QED
      BY <3>2 DEF S
  <2> QED
    BY <2>1 DEF Largest
<1> QED
  BY <1>1, <1>2, <1>3

\* A valid Set's entry is one of them.
LEMMA ValidSize ==
    ASSUME EntrySizes # {}, NEW r, Valid(r), r.op = "set", r.key \in Key, r.val \in Value
    PROVE  EntrySize(r.key, r.val) \in 0 .. Largest
<1>1. EntrySize(r.key, r.val) \in EntrySizes
  BY DEF Valid, EntrySizes
<1> QED
  BY <1>1, LargestIs

LEMMA CostsTyped ==
    ASSUME Capped, EntrySizes # {}
    PROVE  /\ Costs \in [Thread -> Int] /\ IsFiniteSet(Thread)
           /\ SumFunction(Costs) \in Int
           /\ \A t \in Thread : Costs[t] = Cost(t) /\ Cost(t) \in Int
<1>1. \A t \in Thread : Cost(t) \in Int
  BY LargestIs DEF Capped
<1>2. Costs \in [Thread -> Int]
  BY <1>1 DEF Costs
<1> QED
  BY <1>1, <1>2, SumsAre, ServiceAssumption DEF Costs

\* The limit that is checked, as a number.
LEMMA LimitTyped ==
    ASSUME EntrySizes # {}
    PROVE  /\ Cardinality(Thread) \in Nat /\ MaxMemory \in Nat /\ Largest \in Nat
           /\ (Cardinality(Thread) - 1) * Largest \in Int
           /\ (Cardinality(Thread) - 1) * Largest
                  = Cardinality(Thread) * Largest - Largest
<1>1. Cardinality(Thread) \in Nat /\ MaxMemory \in Nat /\ Largest \in Nat
  BY ServiceAssumption, LargestIs, FS_CardinalityType
<1> DEFINE n == Cardinality(Thread)
           m == Largest
<1>2. \A i, j \in Nat : (i - 1) * j \in Int /\ (i - 1) * j = i * j - j
  OBVIOUS
<1> QED
  BY <1>1, <1>2

\* The content, once the deltas are in, is what the limit holds for.
LEMMA CappedContent ==
    ASSUME AInv, Capped, EntrySizes # {}
    PROVE  MemoryCeiling
<1>1. Deltas \in [Thread -> Int] /\ Costs \in [Thread -> Int] /\ IsFiniteSet(Thread)
  BY SumsTyped, CostsTyped DEF AInv
<1>2. ASSUME NEW t \in Thread PROVE Deltas[t] <= Costs[t]
  <2>1. Delta(t) \in Int /\ (frame[t] # None => Delta(t) = frame[t].delta)
    BY DeltaIs, TypeParts DEF AInv
  <2>2. Cost(t) \in Int /\ Cost(t) >= 0
    BY LargestIs DEF Capped
  <2>3. CASE pc[t] = "store" \/ frame[t] = None
    BY <2>1, <2>2, <2>3 DEF AInv, Settled, Delta, Deltas, Costs
  <2>4. CASE pc[t] # "store" /\ frame[t] # None
    BY <2>1, <2>4 DEF Cost, Deltas, Costs
  <2> QED
    BY <2>3, <2>4
<1>3. SumFunction(Deltas) <= SumFunction(Costs)
  BY <1>1, <1>2, SumAtMost
<1>4. Content = memUsage + SumFunction(Deltas) + tmDelta
  BY DEF AInv, Balanced, Content, SumOver, Prints
<1>5. /\ memUsage \in Int /\ tmDelta \in Int
      /\ SumFunction(Deltas) \in Int /\ SumFunction(Costs) \in Int
  BY <1>1, SumsAre, TypeParts DEF AInv, SvcTypeOK
<1> DEFINE b == MaxMemory + (Cardinality(Thread) - 1) * Largest
<1>6. b \in Int /\ memUsage + SumFunction(Costs) <= b /\ tmDelta <= 0
  BY LimitTyped DEF Capped
<1> HIDE DEF b
<1>7. Content <= b
  BY <1>3, <1>4, <1>5, <1>6
<1> QED
  BY <1>7 DEF b, MemoryCeiling, Largest

-----------------------------------------------------------------------------
(* Every step keeps the cap *)

\* A step that costs no handler more, and adds no more to the counter than a
\* handler's cost falls by.
LEMMA CostsFall ==
    ASSUME Capped, EntrySizes # {}, memUsage \in Int, memUsage' \in Int, tmDelta' <= 0,
           \A t \in Thread :
               /\ (pc[t] \in {"check", "store"})' => Valid(frame'[t].req)
               /\ Cost(t)' \in Nat /\ Cost(t)' <= Cost(t),
           memUsage' <= memUsage
    PROVE  Capped'
<1>1. \A t \in Thread : Cost(t)' \in 0 .. Largest /\ Cost(t)' \in Int
  BY LargestIs DEF Capped
<1>2. /\ Costs' \in [Thread -> Int] /\ Costs \in [Thread -> Int] /\ IsFiniteSet(Thread)
      /\ SumFunction(Costs) \in Int /\ \A t \in Thread : Costs'[t] <= Costs[t]
  BY <1>1, CostsTyped DEF Costs
<1>3. SumFunction(Costs') \in Int /\ SumFunction(Costs') <= SumFunction(Costs)
  BY <1>2, SumAtMost, SumsAre
<1> DEFINE b == MaxMemory + (Cardinality(Thread) - 1) * Largest
<1>4. b \in Int /\ memUsage + SumFunction(Costs) <= b
  BY LimitTyped DEF Capped
<1> HIDE DEF b
<1>5. memUsage' + SumFunction(Costs') <= b
  BY <1>2, <1>3, <1>4
<1>6. Largest' = Largest
  BY DEF Largest, EntrySizes
<1> QED
  BY <1>1, <1>5, <1>6 DEF b, Capped

LEMMA NoByteCaps ==
    ASSUME TypeOK, Settled, Capped, EntrySizes # {}, NoByte
    PROVE  Capped'
<1>1. memUsage \in Int /\ memUsage' = memUsage /\ tmDelta' <= 0
  BY TypeParts DEF SvcTypeOK, NoByte, Capped
<1>2. ASSUME NEW t \in Thread
      PROVE  /\ (pc[t] \in {"check", "store"})' => Valid(frame'[t].req)
             /\ Cost(t)' \in Nat /\ Cost(t)' <= Cost(t)
  <2>1. Cost(t) \in Nat
    BY LargestIs DEF Capped
  <2>2. CASE Still(t)
    BY <2>1, <2>2 DEF Still, Cost, Capped
  <2>3. CASE Light(t)
    <3>1. Cost(t)' = 0
      BY <2>3 DEF Light, Cost
    <3>2. Cost(t)' \in Nat /\ Cost(t)' <= Cost(t)
      BY <2>1, <3>1
    <3>3. pc'[t] # "store" /\ (pc'[t] = "check" => Valid(frame'[t].req))
      BY <2>3 DEF Light
    <3> QED
      BY <3>2, <3>3
  <2> QED
    BY <2>2, <2>3 DEF NoByte, Idly
<1> QED
  BY <1>1, <1>2, CostsFall

\* A Set that passes the check has room for its entry; every other handler
\* has one entry at most on the way.
LEMMA CheckCaps ==
    ASSUME TypeOK, Settled, Capped, EntrySizes # {}, NEW t \in Thread,
           Check(t), Goto(t, "store")
    PROVE  Capped'
<1> DEFINE r == frame[t].req
           size == EntrySize(r.key, r.val)
           N == Cardinality(Thread)
           L == Largest
<1>0. SvcTypeOK
  BY TypeParts
<1>1. /\ UNCHANGED <<memUsage, tmDelta, frame>> /\ memUsage \in Int
      /\ pc[t] = "check" /\ pc'[t] = "store"
      /\ \A u \in Thread : u # t => pc'[u] = pc[u]
  BY <1>0 DEF Check, Return, Goto, SvcTypeOK
<1>2. Fits(r)
  <2>1. pc'[t] # "idle"
    BY <1>1
  <2> QED
    BY <1>0, <2>1 DEF Check, Return, Goto, SvcTypeOK
<1>3. size \in 0 .. L /\ frame[t] # None /\ Valid(r)
  <2>1. frame[t] \in Frame /\ frame[t] # None /\ r.op = "set"
    BY <1>0, <1>1, BusyFrame DEF SvcTypeOK, ControlOK
  <2>2. r.key \in Key /\ r.val \in Value
    BY <2>1 DEF Frame, Request
  <2>3. Valid(r)
    BY <1>1 DEF Capped
  <2> QED
    BY <2>1, <2>2, <2>3, ValidSize
<1>4. memUsage + size <= MaxMemory
  BY <1>2 DEF Fits
<1>5. N \in Nat /\ L \in Nat /\ MaxMemory \in Nat /\ (N - 1) * L \in Int
      /\ (N - 1) * L = N * L - L /\ IsFiniteSet(Thread)
  BY LimitTyped, ServiceAssumption
<1>6. \A u \in Thread : Cost(u)' = IF u = t THEN size ELSE Cost(u)
  BY <1>1, <1>3 DEF Cost
<1>7. \A u \in Thread : /\ Cost(u)' \in 0 .. L
                        /\ (pc[u] \in {"check", "store"})' => Valid(frame'[u].req)
  BY <1>1, <1>3, <1>6 DEF Capped
<1> HIDE DEF size, N, L
<1>8. memUsage + SumFunction(Costs') <= MaxMemory + (N - 1) * L
  <2> DEFINE all  == [u \in Thread |-> L]
             most == [u \in Thread |-> IF u = t THEN size ELSE L]
  <2>1. /\ all \in [Thread -> Int] /\ \A u \in Thread : all[u] = L
        /\ most \in [Thread -> Int] /\ most[t] = size
        /\ \A u \in Thread : u # t => most[u] = all[u]
    BY <1>3, <1>5
  <2>2. Costs' \in [Thread -> Int] /\ \A u \in Thread : Costs'[u] <= most[u]
    <3>1. \A u \in Thread : Costs'[u] = Cost(u)' /\ Cost(u)' \in 0 .. L
      BY <1>7 DEF Costs
    <3>2. \A u \in Thread : Costs'[u] <= most[u]
      BY <1>3, <1>5, <1>6, <3>1
    <3>3. Costs' = [u \in Thread |-> Cost(u)']
      BY DEF Costs
    <3>4. \A u \in Thread : Cost(u)' \in Int
      BY <1>5, <3>1
    <3> QED
      BY <3>2, <3>3, <3>4
  <2> HIDE DEF all, most
  <2>3. SumFunction(all) = N * L /\ N * L \in Int
    BY <1>5, <2>1, SumOfConstant DEF N
  <2>4. SumFunction(most) = SumFunction(all) + most[t] - all[t]
    BY <1>5, <2>1, SumChanges
  <2>5. SumFunction(Costs') <= SumFunction(most) /\ SumFunction(Costs') \in Int
    BY <1>5, <2>1, <2>2, SumAtMost, SumsAre
  <2>6. SumFunction(most) = N * L + size - L
    BY <1>3, <1>5, <2>1, <2>3, <2>4
  <2> DEFINE b == N * L
  <2> HIDE DEF b
  <2>7. b \in Int /\ SumFunction(most) = b + size - L /\ (N - 1) * L = b - L
    BY <1>5, <2>3, <2>6 DEF b
  <2> QED
    BY <1>1, <1>3, <1>4, <1>5, <2>5, <2>7
<1>9. Largest' = Largest /\ tmDelta' <= 0
  BY <1>1 DEF Largest, EntrySizes, Capped
<1> QED
  BY <1>1, <1>7, <1>8, <1>9 DEF Capped, N, L

\* Storing or removing the entry costs what its delta says, which is no more
\* than its size.
LEMMA StoreCaps ==
    ASSUME TypeOK, Settled, Capped, EntrySizes # {}, NEW t \in Thread,
           Store(t) \/ Remove(t)
    PROVE  Capped'
<1> DEFINE r == frame[t].req
<1>0. SvcTypeOK /\ memUsage \in Int
  BY TypeParts DEF SvcTypeOK
<1>1. /\ UNCHANGED <<memUsage, tmDelta>> /\ pc'[t] = "account"
      /\ \A u \in Thread : u # t => pc'[u] = pc[u]
  BY <1>0 DEF Store, Remove, Goto, SvcTypeOK
<1>2. frame[t] \in Frame /\ frame[t] # None /\ r.key \in Key
  BY <1>0, BusyFrame DEF Store, Remove, SvcTypeOK, ControlOK, Frame, Request
<1>3. items[r.key] \in Slot /\ Footprint(r.key, items[r.key]) \in Nat
  BY <1>2, SizeType, TypeParts DEF MapTypeOK
<1>4. Cost(t) \in Nat
  BY LargestIs DEF Capped
<1>5. PICK d \in Int : frame' = [frame EXCEPT ![t].delta = d] /\ d <= Cost(t)
  <2>1. CASE Store(t)
    <3>1. r.val \in Value
      BY <1>0, <1>2, <2>1 DEF Store, SvcTypeOK, ControlOK, Frame, Request
    <3>2. SetDelta(r.key, r.val) \in Int
      BY <1>2, <3>1, SetDeltaType, TypeParts
    <3>3. Cost(t) = EntrySize(r.key, r.val)
      BY <1>2, <2>1 DEF Cost, Store
    <3>4. SetDelta(r.key, r.val) <= Cost(t)
      BY <1>3, <1>4, <3>3 DEF SetDelta
    <3> QED
      BY <2>1, <3>2, <3>4 DEF Store
  <2>2. CASE Remove(t)
    <3>1. DeleteDelta(r.key) \in Int /\ DeleteDelta(r.key) <= Cost(t)
      BY <1>3, <1>4 DEF DeleteDelta
    <3> QED
      BY <2>2, <3>1 DEF Remove
  <2> QED
    BY <2>1, <2>2
<1>6. /\ frame'[t] = [frame[t] EXCEPT !.delta = d]
      /\ \A u \in Thread : u # t => frame'[u] = frame[u]
  BY <1>0, <1>5 DEF SvcTypeOK
<1>7. ASSUME NEW u \in Thread
      PROVE  /\ (pc[u] \in {"check", "store"})' => Valid(frame'[u].req)
             /\ Cost(u)' \in Nat /\ Cost(u)' <= Cost(u)
  <2>1. Cost(u) \in Nat
    BY LargestIs DEF Capped
  <2>2. CASE u = t
    <3>1. frame'[t].delta = d
      BY <1>2, <1>6 DEF Frame
    <3>2. Cost(t)' = 0 \/ (Cost(t)' = d /\ d > 0)
      BY <1>1, <3>1 DEF Cost
    <3>3. Cost(t)' \in Nat /\ Cost(t)' <= Cost(t)
      BY <1>4, <1>5, <3>2
    <3>4. pc'[u] \notin {"check", "store"}
      BY <1>1, <2>2
    <3> QED
      BY <2>2, <3>3, <3>4
  <2>3. CASE u # t
    BY <1>1, <1>6, <2>1, <2>3 DEF Cost, Capped
  <2> QED
    BY <2>2, <2>3
<1> QED
  BY <1>0, <1>1, <1>7, CostsFall DEF Capped

\* What a delta adds to the counter its handler no longer costs.
LEMMA AccountCaps ==
    ASSUME TypeOK, Settled, Capped, EntrySizes # {}, NEW t \in Thread, Account(t)
    PROVE  Capped'
<1> DEFINE d == frame[t].delta
<1>0. SvcTypeOK /\ memUsage \in Int
  BY TypeParts DEF SvcTypeOK
<1>1. /\ UNCHANGED tmDelta /\ pc[t] = "account" /\ pc'[t] \notin {"check", "store"}
      /\ memUsage' = memUsage + d
      /\ \A u \in Thread : u # t => pc'[u] = pc[u]
  BY <1>0 DEF Account, Goto, SvcTypeOK
<1>2. frame[t] \in Frame /\ frame[t] # None /\ d \in Int
  BY <1>0, <1>1, BusyFrame DEF Frame
<1>3. /\ frame'[t].delta = 0
      /\ \A u \in Thread : u # t => frame'[u] = frame[u]
  BY <1>0, <1>2 DEF Account, SvcTypeOK, Frame
<1>4. Cost(t)' = 0 /\ Cost(t) = (IF d > 0 THEN d ELSE 0)
  BY <1>1, <1>2, <1>3 DEF Cost
<1>5. ASSUME NEW u \in Thread
      PROVE  /\ (pc[u] \in {"check", "store"})' => Valid(frame'[u].req)
             /\ Cost(u)' = (IF u = t THEN 0 ELSE Cost(u))
             /\ Cost(u) \in Nat /\ Cost(u)' \in Nat /\ Cost(u)' <= Cost(u)
  <2>1. Cost(u) \in Nat
    BY LargestIs DEF Capped
  <2>2. CASE u = t
    BY <1>1, <1>4, <2>1, <2>2
  <2>3. CASE u # t
    <3>1. Cost(u)' = Cost(u)
      BY <1>1, <1>3, <2>3 DEF Cost
    <3>2. (pc[u] \in {"check", "store"})' => Valid(frame'[u].req)
      BY <1>1, <1>3, <2>3 DEF Capped
    <3> QED
      BY <2>1, <2>3, <3>1, <3>2
  <2> QED
    BY <2>2, <2>3
<1> HIDE DEF d
<1>6. CASE d <= 0
  <2>1. memUsage' \in Int /\ memUsage' <= memUsage /\ tmDelta' <= 0
    BY <1>0, <1>1, <1>2, <1>6 DEF Capped
  <2> QED
    BY <1>0, <1>5, <2>1, CostsFall
<1>7. CASE d > 0
  <2> DEFINE b == MaxMemory + (Cardinality(Thread) - 1) * Largest
  <2>1. b \in Int /\ memUsage + SumFunction(Costs) <= b
    BY LimitTyped DEF Capped
  <2>2. /\ Costs \in [Thread -> Int] /\ IsFiniteSet(Thread) /\ SumFunction(Costs) \in Int
        /\ Costs[t] = d
    BY <1>4, <1>7, CostsTyped
  <2>3. /\ Costs' \in [Thread -> Int] /\ Costs'[t] = 0
        /\ \A u \in Thread : u # t => Costs'[u] = Costs[u]
    BY <1>4, <1>5 DEF Costs
  <2>4. SumFunction(Costs') = SumFunction(Costs) + Costs'[t] - Costs[t]
    BY <2>2, <2>3, SumChanges
  <2> HIDE DEF b
  <2>5. memUsage' + SumFunction(Costs') <= b
    BY <1>0, <1>1, <1>2, <2>1, <2>2, <2>3, <2>4
  <2>6. Largest' = Largest /\ Largest \in Nat
    BY LargestIs DEF Largest, EntrySizes
  <2>7. \A u \in Thread : Cost(u)' \in 0 .. Largest
    BY <1>5, <2>6 DEF Capped
  <2> QED
    BY <1>1, <1>5, <2>5, <2>6, <2>7 DEF Capped, b
<1> QED
  BY <1>2, <1>6, <1>7

\* Expiry only makes room.
LEMMA TtlCaps ==
    ASSUME TypeOK, Settled, Capped, EntrySizes # {}, TtlGoroutine
    PROVE  Capped'
<1>1. UNCHANGED <<pc, frame>>
  BY DEF TtlGoroutine, Expire, ExpireAccount, svcVars
<1>2. memUsage \in Int /\ tmDelta \in Int /\ tmDelta <= 0
  BY TypeParts DEF SvcTypeOK, Capped
<1>3. memUsage' \in Int /\ memUsage' <= memUsage /\ tmDelta' <= 0
  <2>1. CASE TtlStep /\ UNCHANGED <<mapVars, now, aofVars, rdbVars, svcVars>>
    BY <1>2, <2>1 DEF svcVars
  <2>2. CASE Expire
    <3>1. tmItem[1] \in Key
      BY <2>2, TypeParts DEF Expire, TtlTypeOK, Item
    <3>2. Footprint(tmItem[1], items[tmItem[1]]) \in Nat
      BY <3>1, SizeType, TypeParts DEF MapTypeOK
    <3> QED
      BY <1>2, <2>2, <3>2 DEF Expire, DeleteDelta
  <2>3. CASE ExpireAccount
    BY <1>2, <2>3 DEF ExpireAccount
  <2> QED
    BY <2>1, <2>2, <2>3 DEF TtlGoroutine
<1>4. ASSUME NEW t \in Thread
      PROVE  /\ (pc[t] \in {"check", "store"})' => Valid(frame'[t].req)
             /\ Cost(t)' \in Nat /\ Cost(t)' <= Cost(t)
  BY <1>1, LargestIs DEF Capped, Cost
<1> QED
  BY <1>2, <1>3, <1>4, CostsFall

LEMMA CappedInit ==
    ASSUME Init, Thread # {}, EntrySizes # {}
    PROVE  Capped
<1> DEFINE N == Cardinality(Thread)
           L == Largest
<1>1. /\ frame = [t \in Thread |-> None] /\ pc = [p \in Worker |-> "idle"]
      /\ tmDelta = 0 /\ memUsage = 0
  BY DEF Init, SvcFresh
<1>2. N \in Nat /\ L \in Nat /\ MaxMemory \in Nat /\ IsFiniteSet(Thread)
  BY LimitTyped, ServiceAssumption
<1>3. N # 0
  BY <1>2, FS_EmptySet
<1>4. \A t \in Thread : Cost(t) = 0
  BY <1>1 DEF Cost
<1>5. Costs \in [Thread -> Int] /\ \A t \in Thread : Costs[t] = 0
  BY <1>4 DEF Costs
<1>6. SumFunction(Costs) = N * 0
  BY <1>2, <1>5, SumOfConstant
<1> HIDE DEF N, L
<1>7. (N - 1) * L >= 0 /\ (N - 1) * L \in Int
  <2>1. \A i, j \in Nat : i * j \in Nat
    OBVIOUS
  <2>2. N - 1 \in Nat
    BY <1>2, <1>3
  <2> QED
    BY <1>2, <2>1, <2>2
<1>8. memUsage + SumFunction(Costs) <= MaxMemory + (N - 1) * L
  BY <1>1, <1>2, <1>6, <1>7
<1>9. \A t \in Thread : pc[t] \notin {"check", "store"} /\ Cost(t) \in 0 .. L
  BY <1>1, <1>2, <1>4
<1> QED
  BY <1>1, <1>8, <1>9 DEF Capped, N, L

LEMMA CappedNext ==
    ASSUME TypeOK, Settled, Capped, EntrySizes # {}, [Next]_vars
    PROVE  Capped'
<1>0. SvcTypeOK
  BY TypeParts
<1>1. ASSUME NEW t \in Thread, Begin(t) \/ Handler(t)
      PROVE  Capped'
  <2>1. CASE Check(t) /\ Goto(t, "store")
    BY <2>1, CheckCaps
  <2>2. CASE Store(t) \/ Remove(t)
    BY <2>2, StoreCaps
  <2>3. CASE Account(t)
    BY <2>3, AccountCaps
  <2> QED
    BY <1>0, <1>1, <2>1, <2>2, <2>3, HandlerNoByte, NoByteCaps
<1>2. CASE TtlGoroutine
  BY <1>2, TtlCaps
<1>3. CASE LoopTick \/ SnapStep(Loop) \/ Rewriter \/ Tick \/ UNCHANGED vars
  BY <1>0, <1>3, OthersNoByte, NoByteCaps
<1> QED
  BY <1>1, <1>2, <1>3 DEF Next, Run

\* The limit is tested before the entry is stored and the counter is raised
\* after (service.go:161-169), so concurrent Sets pass it together; but by no
\* more than one largest entry for each handler other than the first.  (With
\* no handler, or no entry that may be stored, the bound has no meaning.)
THEOREM LimitPassedByOthersOnly ==
    ASSUME Thread # {}, EntrySizes # {}
    PROVE  Spec => []MemoryCeiling
<1>1. Init => AInv /\ Capped
  BY AInvInit, CappedInit
<1>2. AInv /\ Capped /\ [Next]_vars => (AInv /\ Capped)'
  BY AInvNext, CappedNext DEF AInv
<1>3. AInv /\ Capped => MemoryCeiling
  BY CappedContent
<1> QED
  BY <1>1, <1>2, <1>3, PTL DEF Spec
=============================================================================
