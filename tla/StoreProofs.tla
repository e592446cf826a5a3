----------------------------- MODULE StoreProofs -----------------------------
(***************************************************************************)
(* Service implements KVStore, for any number of goroutines and any        *)
(* requests, while the disk works: a proof by step simulation.  A handler  *)
(* or the TTL goroutine passes a deadline on without the set of pending    *)
(* deadlines changing, so only five kinds of steps are visible.            *)
(***************************************************************************)
EXTENDS ServiceProofs

USE DEF Time, Expiry, Shard, Worker, Saver

\* The manager runs, and what its goroutine has popped is due.
PoppedDue ==
    /\ ~ttlStopped
    /\ tmPc = "expire" => Due(tmItem)

Invisible == UNCHANGED <<items, Deadlines, now>>

\* The map's instants are the store's.
LEMMA SameExpiry == KV!Expiry = Expiry
  BY DEF KV!Expiry

-----------------------------------------------------------------------------
(* Deadlines change hands *)

\* A step of one handler that owes afterwards what it owed before.
LEMMA HandlerSame ==
    ASSUME SvcTypeOK, NEW t \in Thread, NEW l, Goto(t, l), NEW f,
           frame' = [frame EXCEPT ![t] = f] \/ UNCHANGED frame,
           UNCHANGED <<heap, tmPc, tmItem>>,
           \A i \in Item : Owes(t, i)' <=> Owes(t, i)
    PROVE  Deadlines' = Deadlines
<1>1. \A u \in Thread, i \in Item : Owes(u, i)' <=> Owes(u, i)
  BY OthersOwe
<1> QED
  BY <1>1 DEF Deadlines, InHeap

\* From one owing point to another.
LEMMA OwesSame ==
    ASSUME SvcTypeOK, NEW t \in Thread, NEW l \in Owing, pc[t] \in Owing,
           Goto(t, l), UNCHANGED frame, NEW i
    PROVE  Owes(t, i)' <=> Owes(t, i)
  BY DEF SvcTypeOK, Goto, Owes, Owing

\* The loop owes nothing.
LEMMA LoopSame ==
    ASSUME SvcTypeOK, NEW l, Goto(Loop, l), UNCHANGED <<frame, heap, tmPc, tmItem>>
    PROVE  Deadlines' = Deadlines
<1>1. \A u \in Thread, i \in Item : Owes(u, i)' <=> Owes(u, i)
  BY RdbAssumption DEF Goto, SvcTypeOK, Owes
<1> QED
  BY <1>1 DEF Deadlines, InHeap

LEMMA MoveSame ==
    ASSUME SvcTypeOK, NEW p \in Worker, NEW l \in Owing, pc[p] \in Owing,
           Goto(p, l), UNCHANGED <<frame, heap, tmPc, tmItem>>
    PROVE  Deadlines' = Deadlines
<1>1. CASE p = Loop
  BY <1>1, LoopSame
<1>2. CASE p # Loop
  <2>1. p \in Thread
    BY <1>2
  <2> QED
    BY <2>1, OwesSame, HandlerSame
<1> QED
  BY <1>1, <1>2

LEMMA ResumeSame ==
    ASSUME SvcTypeOK, NEW p \in Worker, pc[p] \in Owing, Resume(p),
           UNCHANGED <<heap, tmPc, tmItem>>
    PROVE  Deadlines' = Deadlines
<1>1. CASE p = Loop
  BY <1>1, LoopSame DEF Resume
<1>2. CASE p # Loop /\ frame[p].exp > 0
  BY <1>2, MoveSame DEF Resume, Owing
<1>3. CASE p # Loop /\ ~(frame[p].exp > 0)
  <2>1. p \in Thread /\ Goto(p, "idle") /\ frame' = [frame EXCEPT ![p] = None]
    BY <1>3 DEF Resume, Return
  <2>2. \A i \in Item : ~Owes(p, i) /\ ~Owes(p, i)'
    BY <1>3, <2>1 DEF Owes, SvcTypeOK
  <2> QED
    BY <2>1, <2>2, HandlerSame
<1> QED
  BY <1>1, <1>2, <1>3

LEMMA SnapInvisible ==
    ASSUME TypeOK, NEW p \in Worker, SnapStep(p)
    PROVE  Invisible
<1>0. SvcTypeOK
  BY TypeParts
<1>1. UNCHANGED <<items, now, heap, tmPc, tmItem>>
  BY DEF SnapStep, AutoClock, AutoAge, AutoRules, SnapLock, SnapSave, SnapSaved,
         SnapFailed, SnapReset, mapVars, ttlVars
<1>2. \/ UNCHANGED <<pc, frame>>
      \/ pc[p] \in Owing /\ UNCHANGED frame /\ \E l \in Owing : Goto(p, l)
      \/ pc[p] \in Owing /\ Resume(p)
  <2>1. CASE AutoClock(p) \/ AutoAge(p)
    BY <2>1 DEF AutoClock, AutoAge, Owing
  <2>2. CASE AutoRules(p)
    BY <2>2 DEF AutoRules, Owing
  <2>3. CASE SnapLock(p)
    BY <2>3 DEF SnapLock, Owing
  <2>4. CASE SnapSave(p)
    BY <2>4 DEF SnapSave, svcVars
  <2>5. CASE SnapSaved(p)
    BY <2>5 DEF SnapSaved, Owing
  <2>6. CASE SnapFailed(p)
    BY <2>6 DEF SnapFailed, Owing
  <2>7. CASE SnapReset(p)
    BY <2>7 DEF SnapReset, Owing
  <2> QED
    BY <2>1, <2>2, <2>3, <2>4, <2>5, <2>6, <2>7 DEF SnapStep
<1>3. CASE UNCHANGED <<pc, frame>>
  BY <1>1, <1>3 DEF Deadlines, InHeap, Owes, Invisible
<1> QED
  BY <1>0, <1>1, <1>2, <1>3, MoveSame, ResumeSame DEF Invisible

-----------------------------------------------------------------------------
(* The visible steps *)

\* storage.Set: the entry is put, and its deadline owed.
LEMMA StorePuts ==
    ASSUME TypeOK, NEW t \in Thread, Store(t)
    PROVE  \E k \in Key, v \in Value, x \in Expiry : KV!Put(k, v, x)
<1> DEFINE r == frame[t].req
           d == SetDelta(r.key, r.val)
           x == frame[t].exp
<1>0. SvcTypeOK
  BY TypeParts
<1>1. /\ frame[t] \in Frame /\ frame[t] # None
      /\ r.op = "set" /\ r.key \in Key /\ r.val \in Value /\ x \in Expiry
  BY <1>0, BusyFrame DEF Store, SvcTypeOK, ControlOK, Frame, Request
<1>2. /\ items' = [items EXCEPT ![r.key] = [val |-> r.val, exp |-> x]]
      /\ frame' = [frame EXCEPT ![t] = [frame[t] EXCEPT !.delta = d]]
      /\ Goto(t, "account")
      /\ UNCHANGED <<now, heap, tmPc, tmItem>>
  BY DEF Store, MapSet, ttlVars
<1>3. /\ frame'[t] # None /\ frame'[t].req = r /\ frame'[t].exp = x
      /\ pc'[t] = "account"
  <2>1. [frame[t] EXCEPT !.delta = d].req = r /\ [frame[t] EXCEPT !.delta = d].exp = x
    BY <1>1 DEF Frame
  <2>2. [frame[t] EXCEPT !.delta = d] \in Frame
    BY <1>1, TypeParts, SetDeltaType DEF Frame, Request
  <2>3. [frame[t] EXCEPT !.delta = d] # None
    BY <2>2, ServiceAssumption
  <2> HIDE DEF d
  <2> QED
    BY <1>0, <1>2, <2>1, <2>3 DEF SvcTypeOK, Goto
<1>4. \A i \in Item : Owes(t, i)' <=> i = <<r.key, x>> /\ x > 0
  <2> SUFFICES ASSUME NEW i \in Item
               PROVE  Owes(t, i)' <=> i = <<r.key, x>> /\ x > 0
    OBVIOUS
  <2>1. Owes(t, i)' <=> i = <<frame'[t].req.key, frame'[t].exp>> /\ i[2] > 0
    BY <1>1, <1>3 DEF Owes
  <2>2. i = <<r.key, x>> => i[2] = x
    OBVIOUS
  <2> QED
    BY <1>3, <2>1, <2>2
<1>5. \A i \in Item : ~Owes(t, i)
  BY DEF Store, Owes
<1>6. \A u \in Thread, i \in Item : u # t => (Owes(u, i)' <=> Owes(u, i))
  <2> HIDE DEF d
  <2> QED
    BY <1>0, <1>2, OthersOwe
<1>7. ASSUME NEW i \in Item
      PROVE  i \in Deadlines' <=> i \in Deadlines \/ (i = <<r.key, x>> /\ x > 0)
  <2>1. InHeap(i)' <=> InHeap(i)
    BY <1>2 DEF InHeap
  <2>2. (tmPc = "expire" /\ tmItem = i)' <=> (tmPc = "expire" /\ tmItem = i)
    BY <1>2
  <2>3. (\E u \in Thread : Owes(u, i))' <=>
            (\E u \in Thread : Owes(u, i)) \/ (i = <<r.key, x>> /\ x > 0)
    <3> HIDE DEF x, r
    <3> QED
      BY <1>4, <1>5, <1>6
  <2> HIDE DEF x, r
  <2> QED
    BY <2>1, <2>2, <2>3 DEF Deadlines
<1>8. Deadlines \subseteq Item /\ Deadlines' \subseteq Item /\ <<r.key, x>> \in Item
  BY <1>1 DEF Deadlines, Item
<1>9. Deadlines' = IF x > 0 THEN Deadlines \cup {<<r.key, x>>} ELSE Deadlines
  <2> HIDE DEF x, r
  <2> QED
    BY <1>7, <1>8
<1>10. KV!Put(r.key, r.val, x)
  BY <1>2, <1>9 DEF KV!Put
<1> HIDE DEF x, r
<1> QED
  BY <1>1, <1>10

\* storage.Delete.
LEMMA RemoveDrops ==
    ASSUME TypeOK, NEW t \in Thread, Remove(t)
    PROVE  \E k \in Key : KV!Drop(k)
<1> DEFINE r == frame[t].req
           d == DeleteDelta(r.key)
           f == [frame[t] EXCEPT !.delta = d]
<1>0. SvcTypeOK
  BY TypeParts
<1>1. frame[t] \in Frame /\ r.op = "del" /\ r.key \in Key
  BY <1>0, BusyFrame DEF Remove, SvcTypeOK, ControlOK, Frame, Request
<1>2. /\ items' = [items EXCEPT ![r.key] = None]
      /\ frame' = [frame EXCEPT ![t] = f]
      /\ Goto(t, "account")
      /\ UNCHANGED <<now, heap, tmPc, tmItem>>
  BY DEF Remove, MapDelete, ttlVars
<1>3. f.req = r
  BY <1>1 DEF Frame
<1>4. frame'[t].req.op = "del"
  <2> HIDE DEF f
  <2> QED
    BY <1>0, <1>1, <1>2, <1>3 DEF SvcTypeOK
<1>5. \A i \in Item : ~Owes(t, i) /\ ~Owes(t, i)'
  BY <1>4 DEF Remove, Owes
<1>6. Deadlines' = Deadlines
  <2> HIDE DEF f
  <2> QED
    BY <1>0, <1>2, <1>5, HandlerSame
<1> QED
  BY <1>1, <1>2, <1>6 DEF KV!Drop

\* onExpire: a deadline that is due takes its key with it, whatever is stored
\* there, and is used up unless the heap or a handler has it again.
LEMMA ExpireLapses ==
    ASSUME TypeOK, PoppedDue, Expire
    PROVE  \E k \in Key, x \in Expiry : KV!Lapse(k, x)
<1>0. tmItem \in Item /\ tmPc = "expire" /\ tmPc' = "account" /\ Due(tmItem)
  BY TypeParts DEF Expire, TtlTypeOK, PoppedDue
<1>1. PICK k \in Key, x \in Expiry : tmItem = <<k, x>>
  BY <1>0 DEF Item
<1>2. /\ items' = [items EXCEPT ![k] = None]
      /\ UNCHANGED <<now, heap, tmItem, frame, pc>>
  BY <1>1 DEF Expire, MapDelete
<1>3. \A u \in Thread, i \in Item : Owes(u, i)' <=> Owes(u, i)
  BY <1>2 DEF Owes
<1>4. \A i \in Item : i # tmItem => (i \in Deadlines' <=> i \in Deadlines)
  BY <1>0, <1>2, <1>3 DEF Deadlines, InHeap
<1>5. tmItem \in Deadlines
  BY <1>0 DEF Deadlines
<1>6. Deadlines \subseteq Item /\ Deadlines' \subseteq Item
  BY DEF Deadlines
<1>7. Deadlines' \in {Deadlines, Deadlines \ {tmItem}}
  BY <1>4, <1>5, <1>6
<1>8. x <= now
  BY <1>0, <1>1 DEF Due
<1> QED
  BY <1>1, <1>2, <1>5, <1>7, <1>8 DEF KV!Lapse

LEMMA TickAdvances ==
    ASSUME Tick
    PROVE  KV!Advance
BY DEF Tick, mapVars, ttlVars, svcVars, Deadlines, InHeap, Owes, KV!Advance

-----------------------------------------------------------------------------
(* The steps that do not show *)

\* ttlMgr.Add: what the handler owed is in the heap.
LEMMA ArmInvisible ==
    ASSUME TypeOK, PoppedDue, NEW t \in Thread, Arm(t)
    PROVE  Invisible
<1> DEFINE own == <<frame[t].req.key, frame[t].exp>>
<1>0. SvcTypeOK /\ TtlTypeOK
  BY TypeParts
<1>1. /\ frame[t] \in Frame /\ frame[t] # None
      /\ frame[t].exp > 0 /\ frame[t].req.op = "set" /\ own \in Item
  BY <1>0, BusyFrame DEF Arm, SvcTypeOK, ControlOK, Frame, Request, Item
<1>2. /\ heap' = [heap EXCEPT ![own] = @ + 1]
      /\ Goto(t, "idle") /\ frame' = [frame EXCEPT ![t] = None]
      /\ UNCHANGED <<items, now, tmPc, tmItem>>
  BY DEF Arm, HeapAdd, Return, mapVars, PoppedDue
<1>3. \A i \in Item : Owes(t, i) <=> i = own
  <2>1. pc[t] = "arm"
    BY DEF Arm
  <2>2. own[2] > 0
    BY <1>1
  <2> QED
    BY <1>1, <2>1, <2>2 DEF Owes
<1>4. \A i \in Item : ~Owes(t, i)'
  BY <1>0, <1>2 DEF Owes, Goto, SvcTypeOK
<1>5. \A u \in Thread, i \in Item : u # t => (Owes(u, i)' <=> Owes(u, i))
  BY <1>0, <1>2, OthersOwe
<1>6. \A i \in Item : InHeap(i)' <=> InHeap(i) \/ i = own
  <2> HIDE DEF own
  <2> QED
    BY <1>0, <1>1, <1>2 DEF TtlTypeOK, InHeap
<1>7. ASSUME NEW i \in Item
      PROVE  i \in Deadlines' <=> i \in Deadlines
  <2>1. (\E u \in Thread : Owes(u, i)) <=>
            (\E u \in Thread : Owes(u, i))' \/ i = own
    <3> HIDE DEF own
    <3> QED
      BY <1>3, <1>4, <1>5
  <2> HIDE DEF own
  <2> QED
    BY <1>2, <1>6, <2>1 DEF Deadlines
<1>8. Deadlines \subseteq Item /\ Deadlines' \subseteq Item
  BY DEF Deadlines
<1> QED
  BY <1>2, <1>7, <1>8 DEF Invisible

\* The handler's other steps, while appends do not fail.
LEMMA HandlerInvisible ==
    ASSUME TypeOK, PoppedDue, ~IoFaults, NEW t \in Thread,
           Handler(t), ~Store(t), ~Remove(t)
    PROVE  Invisible
<1>0. SvcTypeOK
  BY TypeParts
<1>1. CASE Record(t) \/ Check(t) \/ Read(t)
  <2>1. \A i \in Item : ~Owes(t, i)
    BY <1>1 DEF Record, Check, Read, Owes
  <2>2. UNCHANGED <<items, now, heap, tmPc, tmItem>>
    BY <1>1 DEF Record, Check, Read, mapVars, ttlVars
  <2>3. PICK l \in {"idle", "check", "store", "read", "remove"} :
            /\ Goto(t, l)
            /\ \E f : frame' = [frame EXCEPT ![t] = f] \/ UNCHANGED frame
    <3>1. CASE Record(t)
      BY <3>1 DEF Record, Return
    <3>2. CASE Check(t)
      BY <3>2 DEF Check, Return
    <3>3. CASE Read(t)
      BY <3>3 DEF Read, Return
    <3> QED
      BY <1>1, <3>1, <3>2, <3>3
  <2>4. \A i \in Item : ~Owes(t, i)'
    BY <1>0, <2>3 DEF Owes, Goto, SvcTypeOK
  <2> QED
    BY <1>0, <2>1, <2>2, <2>3, <2>4, HandlerSame DEF Invisible
<1>2. CASE Account(t)
  <2> DEFINE f == [frame[t] EXCEPT !.delta = 0]
  <2>1. /\ frame' = [frame EXCEPT ![t] = f]
        /\ UNCHANGED <<items, now, heap, tmPc, tmItem>>
        /\ pc[t] = "account"
    BY <1>2 DEF Account, mapVars, ttlVars
  <2>2. PICK l \in {"append", "count"} : Goto(t, l)
    BY <1>2 DEF Account
  <2>3. frame[t] \in Frame /\ frame[t] # None /\ f \in Frame /\ f # None
    BY <1>0, <1>2, BusyFrame, ServiceAssumption DEF Account, Frame
  <2>4. f.req = frame[t].req /\ f.exp = frame[t].exp
    BY <2>3 DEF Frame
  <2>5. ASSUME NEW i \in Item PROVE Owes(t, i)' <=> Owes(t, i)
    <3> HIDE DEF f
    <3>1. frame'[t] = f /\ pc'[t] = l
      BY <1>0, <2>1, <2>2 DEF SvcTypeOK, Goto
    <3> QED
      BY <2>1, <2>2, <2>3, <2>4, <3>1 DEF Owes
  <2> HIDE DEF f
  <2> QED
    BY <1>0, <2>1, <2>2, <2>5, HandlerSame DEF Invisible
<1>3. CASE LogLine(t)
  <2>1. pc[t] \in Owing /\ Goto(t, "count") /\ UNCHANGED frame
        /\ UNCHANGED <<items, now, heap, tmPc, tmItem>>
    BY <1>3 DEF LogLine, AppendFails, mapVars, ttlVars, Owing
  <2> QED
    BY <1>0, <2>1, OwesSame, HandlerSame DEF Owing, Invisible
<1>4. CASE Count(t)
  <2>1. pc[t] \in Owing /\ UNCHANGED <<items, now, heap, tmPc, tmItem>>
    BY <1>4 DEF Count, mapVars, ttlVars, Owing
  <2>2. CASE Goto(t, "auto") /\ UNCHANGED frame
    BY <1>0, <2>1, <2>2, OwesSame, HandlerSame DEF Owing, Invisible
  <2>3. CASE Resume(t)
    BY <1>0, <2>1, <2>3, ResumeSame DEF Invisible
  <2> QED
    BY <1>4, <2>2, <2>3 DEF Count
<1>5. CASE Arm(t)
  BY <1>5, ArmInvisible
<1>6. CASE SnapStep(t)
  BY <1>6, SnapInvisible
<1> QED
  BY <1>1, <1>2, <1>3, <1>4, <1>5, <1>6 DEF Handler

LEMMA BeginInvisible ==
    ASSUME TypeOK, NEW t \in Thread, Begin(t)
    PROVE  Invisible
<1>0. SvcTypeOK
  BY TypeParts
<1>1. UNCHANGED <<items, now, heap, tmPc, tmItem>> /\ pc[t] = "idle"
  BY DEF Begin, mapVars, ttlVars
<1>2. PICK l \in {"lock", "record"}, r \in Workload[t] :
        /\ Goto(t, l)
        /\ frame' = [frame EXCEPT ![t] = [req |-> r, copy |-> requests,
                                          exp |-> 0, delta |-> 0]]
  BY DEF Begin
<1>3. \A i \in Item : ~Owes(t, i)
  BY <1>1 DEF Owes
<1>4. \A i \in Item : ~Owes(t, i)'
  <2>1. frame'[t].exp = 0
    BY <1>0, <1>2 DEF SvcTypeOK
  <2> QED
    BY <2>1 DEF Owes
<1>5. Deadlines' = Deadlines
  BY <1>0, <1>1, <1>2, <1>3, <1>4, HandlerSame
<1> QED
  BY <1>1, <1>5 DEF Invisible

\* What the TTL goroutine pops it holds.
LEMMA TtlInvisible ==
    ASSUME TypeOK, TtlGoroutine, ~Expire
    PROVE  Invisible
<1>0. TtlTypeOK
  BY TypeParts
<1>1. UNCHANGED <<items, now, pc, frame>>
  BY DEF TtlGoroutine, ExpireAccount, svcVars, mapVars
<1>2. \A u \in Thread, i \in Item : Owes(u, i)' <=> Owes(u, i)
  BY <1>1 DEF Owes
<1>3. CASE TtlPop
  <2>1. PICK i \in Item : /\ HeapTop(i)
                          /\ heap' = [heap EXCEPT ![i] = @ - 1]
                          /\ tmItem' = i
    BY <1>3 DEF TtlPop
  <2>2. tmPc = "loop" /\ tmPc' = "expire"
    BY <1>3 DEF TtlPop
  <2>3. \A j \in Item : j # i => heap'[j] = heap[j]
    BY <1>0, <2>1 DEF TtlTypeOK
  <2>4. \A j \in Item : j \in Deadlines' <=> j \in Deadlines
    BY <1>2, <2>1, <2>2, <2>3 DEF Deadlines, InHeap, HeapTop
  <2>5. Deadlines \subseteq Item /\ Deadlines' \subseteq Item
    BY DEF Deadlines
  <2> QED
    BY <1>1, <2>4, <2>5 DEF Invisible
<1>4. CASE ~TtlPop
  <2>1. heap' = heap /\ tmPc # "expire" /\ tmPc' # "expire"
    BY <1>4 DEF TtlGoroutine, TtlStep, TtlSleep, TtlWake, TtlWait, TtlTimer,
                TtlExit, ExpireAccount
  <2> QED
    BY <1>1, <1>2, <2>1 DEF Deadlines, InHeap, Invisible
<1> QED
  BY <1>3, <1>4

LEMMA OthersInvisible ==
    ASSUME TypeOK, Rewriter \/ LoopTick \/ UNCHANGED vars
    PROVE  Invisible
<1>0. SvcTypeOK
  BY TypeParts
<1>1. CASE LoopTick
  <2>1. Goto(Loop, "auto") /\ UNCHANGED <<frame, items, now, heap, tmPc, tmItem>>
    BY <1>1 DEF LoopTick, mapVars, ttlVars
  <2> QED
    BY <1>0, <2>1, LoopSame DEF Invisible
<1>2. CASE Rewriter \/ UNCHANGED vars
  <2>1. UNCHANGED <<items, now, heap, tmPc, tmItem, pc, frame>>
    BY <1>2 DEF Rewriter, vars, mapVars, ttlVars, svcVars
  <2> QED
    BY <2>1 DEF Deadlines, InHeap, Owes, Invisible
<1> QED
  BY <1>1, <1>2

-----------------------------------------------------------------------------

LEMMA PoppedInit == Init => PoppedDue
  BY DEF Init, TtlInit, PoppedDue

LEMMA PoppedNext ==
    ASSUME TypeOK, PoppedDue, [Next]_vars
    PROVE  PoppedDue'
<1>1. ~ttlStopped'
  BY NeverStopped DEF PoppedDue
<1>2. ASSUME tmPc' = tmPc, tmItem' = tmItem, now' \in {now, now + 1}
      PROVE  PoppedDue'
  BY <1>1, <1>2, TypeParts DEF PoppedDue, Due, TtlTypeOK, MapTypeOK, Item
<1>3. CASE TtlGoroutine
  <2>1. CASE TtlPop
    <3>1. PICK i \in Item : Due(i) /\ tmItem' = i
      BY <2>1 DEF TtlPop
    <3>2. now' = now
      BY <1>3, <2>1 DEF TtlPop, TtlGoroutine, Expire, ExpireAccount
    <3> QED
      BY <1>1, <3>1, <3>2 DEF PoppedDue, Due
  <2>2. CASE ~TtlPop
    <3>1. tmPc' # "expire"
      BY <1>3, <2>2 DEF TtlGoroutine, TtlStep, TtlSleep, TtlWake, TtlWait,
                        TtlTimer, TtlExit, Expire, ExpireAccount
    <3> QED
      BY <1>1, <3>1 DEF PoppedDue
  <2> QED
    BY <2>1, <2>2
<1>4. ASSUME NEW p \in Worker, SnapStep(p) PROVE PoppedDue'
  <2>1. UNCHANGED <<tmPc, tmItem, now>>
    BY <1>4 DEF SnapStep, AutoClock, AutoAge, AutoRules, SnapLock, SnapSave, SnapSaved,
                SnapFailed, SnapReset, ttlVars
  <2> QED
    BY <1>2, <2>1
<1>5. ASSUME NEW t \in Thread, Handler(t) PROVE PoppedDue'
  <2>1. CASE SnapStep(t)
    BY <1>4, <2>1
  <2>2. CASE ~SnapStep(t)
    <3>1. UNCHANGED <<tmPc, tmItem, now>>
      BY <1>5, <2>2 DEF Handler, Record, Check, Store, Remove, Account,
                        LogLine, Count, Arm, Read, ttlVars
    <3> QED
      BY <1>2, <3>1
  <2> QED
    BY <2>1, <2>2
<1>6. ASSUME NEW t \in Thread, Begin(t) PROVE PoppedDue'
  BY <1>2, <1>6 DEF Begin, ttlVars
<1>7. CASE Rewriter \/ Tick \/ LoopTick \/ UNCHANGED vars
  BY <1>2, <1>7 DEF Rewriter, Tick, LoopTick, vars, ttlVars
<1> QED
  BY <1>3, <1>4, <1>5, <1>6, <1>7 DEF Next, Run

\* Every step is a step of the store, or does not show.
LEMMA Simulation ==
    ASSUME TypeOK, PoppedDue, ~IoFaults, [Next]_vars
    PROVE  [KV!KVNext]_KV!kvVars
<1>1. ASSUME Invisible PROVE UNCHANGED KV!kvVars
  BY <1>1 DEF Invisible, KV!kvVars
<1>2. ASSUME NEW t \in Thread, Handler(t)
      PROVE  [KV!KVNext]_KV!kvVars
  <2>1. CASE Store(t)
    BY <2>1, StorePuts, SameExpiry DEF KV!KVNext
  <2>2. CASE Remove(t)
    BY <2>2, RemoveDrops DEF KV!KVNext
  <2>3. CASE ~Store(t) /\ ~Remove(t)
    BY <1>1, <1>2, <2>3, HandlerInvisible
  <2> QED
    BY <2>1, <2>2, <2>3
<1>3. ASSUME NEW t \in Thread, Begin(t)
      PROVE  [KV!KVNext]_KV!kvVars
  BY <1>1, <1>3, BeginInvisible
<1>4. CASE TtlGoroutine
  <2>1. CASE Expire
    BY <2>1, ExpireLapses, SameExpiry DEF KV!KVNext
  <2>2. CASE ~Expire
    BY <1>1, <1>4, <2>2, TtlInvisible
  <2> QED
    BY <2>1, <2>2
<1>5. CASE SnapStep(Loop)
  BY <1>1, <1>5, SnapInvisible
<1>6. CASE Tick
  BY <1>6, TickAdvances DEF KV!KVNext
<1>7. CASE Rewriter \/ LoopTick \/ UNCHANGED vars
  BY <1>1, <1>7, OthersInvisible
<1> QED
  BY <1>2, <1>3, <1>4, <1>5, <1>6, <1>7 DEF Next, Run

LEMMA SimulationInit == Init => KV!KVInit
<1> SUFFICES ASSUME Init PROVE KV!KVInit
  OBVIOUS
<1>1. Deadlines = {}
  BY DEF Init, TtlInit, SvcFresh, Deadlines, InHeap, Owes
<1> QED
  BY <1>1 DEF Init, MapInit, KV!KVInit

\* service.go, ttl_heap.go: while the disk works, entries come and go only by a
\* Set, a Delete, or a deadline that some Set gave the key and that has passed.
THEOREM StoreImplemented == ~IoFaults => (Spec => ImplementsKV)
<1> SUFFICES ASSUME ~IoFaults PROVE Spec => ImplementsKV
  OBVIOUS
<1>1. TypeOK /\ PoppedDue /\ [Next]_vars => PoppedDue'
  BY PoppedNext
<1>2. TypeOK /\ PoppedDue /\ [Next]_vars => [KV!KVNext]_KV!kvVars
  BY Simulation
<1> QED
  BY <1>1, <1>2, PoppedInit, SimulationInit, TypeCorrect,
     PTL DEF Spec, ImplementsKV, KV!KVSpec
=============================================================================
