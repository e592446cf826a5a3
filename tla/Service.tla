------------------------------- MODULE Service -------------------------------
(***************************************************************************)
(* internal/core/service.go: the goroutines that serve requests, the TTL   *)
(* goroutine, the auto-snapshot loop and the AOF rewriter, all running at  *)
(* once over the sharded map, the heap of deadlines and the two files.     *)
(*                                                                         *)
(* A goroutine is at one point of its code between two steps, and a step   *)
(* ends before the next read or write of something another goroutine       *)
(* writes.  pc names the step a goroutine takes next:                      *)
(*                                                                         *)
(*   record   Store the copy of the request counters; validate; the clock  *)
(*   check    the memory limit                                             *)
(*   store    storage.Set              remove   storage.Delete             *)
(*   account  add memDelta to memUsage                                     *)
(*   append   AppendSet or AppendDel                                       *)
(*   count    add 1 to changes                                             *)
(*   auto     maybeAutoSnapshot reads the clock                            *)
(*   last     ... lastSnapshotAt                                           *)
(*   rules    ... and the change counter                                   *)
(*   lock     snapshotMu.Lock          save     inside RDBManager.Save     *)
(*   reset    changes = 0; snapshotMu.Unlock                               *)
(*   arm      ttlMgr.Add               read     storage.Get                *)
(*                                                                         *)
(* This module is one life of a server, from an empty data directory; the  *)
(* module Daemon adds shutdown, crashes and restarts.                      *)
(***************************************************************************)
EXTENDS TTLManager, AOFPersister, RDBManager

CONSTANTS
    Workload,      \* Workload[t]: the requests goroutine t may be handed
    MaxRequests,   \* BOUND: requests handed out in one behaviour
    MaxKeySize, MaxValueSize, MaxMemory,
    AofEnabled, RdbEnabled,
    SaveRules      \* the save_rules: records [changes, seconds]

Op == {"set", "get", "del", "snapshot"}

Request ==
    [op : {"set"}, key : Key, val : Value, ttl : 0 .. MaxTTL]
        \cup [op : {"get", "del"}, key : Key]
        \cup [op : {"snapshot"}]

\* A handler's request and local variables.
Frame == [req : Request, copy : [Op -> Nat], exp : Expiry, delta : Int]

ASSUME ServiceAssumption ==
    /\ IsFiniteSet(Thread)
    /\ Workload \in [Thread -> SUBSET Request]
    /\ {MaxRequests, MaxKeySize, MaxValueSize, MaxMemory} \subseteq Nat
    /\ {AofEnabled, RdbEnabled} \subseteq BOOLEAN
    /\ SaveRules \subseteq [changes : Nat, seconds : Nat]
    /\ None \notin Thread \cup {Loop} \cup Frame

VARIABLES
    memUsage,      \* Service.memUsage
    requests,      \* Service.requests: the published counters
    hits, misses,  \* Service.hits, Service.misses
    changes,       \* Service.changes
    lastSnap,      \* Service.lastSnapshotAt
    snapMu,        \* who holds snapshotMu, None when it is free
    pc,            \* the point each goroutine is at
    frame,         \* the local variables of each handler, None when idle
    age,           \* maybeAutoSnapshot's now, and then now-last
    tmDelta,       \* onExpire's memDelta
    begun          \* how many requests were handed out

statVars == <<requests, hits, misses>>
snapVars == <<changes, lastSnap, snapMu, age>>
svcVars  == <<memUsage, statVars, snapVars, pc, frame, tmDelta, begun>>
vars     == <<mapVars, now, ttlVars, aofVars, rdbVars, svcVars>>

Worker == Thread \cup {Loop}

Goto(p, l) == pc' = [pc EXCEPT ![p] = l]

Return(t) ==
    /\ Goto(t, "idle")
    /\ frame' = [frame EXCEPT ![t] = None]

-----------------------------------------------------------------------------
(* A request is handed to an idle goroutine *)

\* recordRequest reads the published counters; Snapshot records nothing.
Begin(t) ==
    /\ pc[t] = "idle"
    /\ begun < MaxRequests
    /\ \E r \in Workload[t] :
        /\ frame' = [frame EXCEPT ![t] = [req |-> r, copy |-> requests,
                                          exp |-> 0, delta |-> 0]]
        /\ Goto(t, IF r.op = "snapshot" THEN "lock" ELSE "record")
    /\ begun' = begun + 1
    /\ UNCHANGED <<mapVars, now, ttlVars, aofVars, rdbVars, memUsage,
                   statVars, snapVars, tmDelta>>

ValidKey(k)   == KeyLen[k] > 0 /\ KeyLen[k] <= MaxKeySize
ValidValue(v) == ValLen[v] <= MaxValueSize
Valid(r)      == ValidKey(r.key) /\ (r.op = "set" => ValidValue(r.val))

Deadline(r, t) == IF r.ttl > 0 THEN t + r.ttl ELSE 0

\* The counters are published; a bad key or value is refused; a Set with a
\* TTL turns it into an instant.
Record(t) ==
    LET r == frame[t].req IN
    /\ pc[t] = "record"
    /\ requests' = [frame[t].copy EXCEPT ![r.op] = @ + 1]
    /\ \/ ~Valid(r) /\ Return(t)
       \/ /\ Valid(r) /\ r.op = "set"
          /\ frame' = [frame EXCEPT ![t].exp = Deadline(r, now)]
          /\ Goto(t, "check")
       \/ /\ Valid(r) /\ r.op # "set"
          /\ Goto(t, IF r.op = "get" THEN "read" ELSE "remove")
          /\ UNCHANGED frame
    /\ UNCHANGED <<mapVars, now, ttlVars, aofVars, rdbVars, memUsage, hits,
                   misses, snapVars, tmDelta, begun>>

-----------------------------------------------------------------------------
(* Set, Delete, Get *)

\* Mutant: the new entry is not counted in.
FitsBefore(r) == memUsage <= MaxMemory

Fits(r) == memUsage + EntrySize(r.key, r.val) <= MaxMemory

\* ErrMemoryFull: the whole new entry is charged, whatever it replaces.
Check(t) ==
    /\ pc[t] = "check"
    /\ IF Fits(frame[t].req) THEN Goto(t, "store") /\ UNCHANGED frame
                             ELSE Return(t)
    /\ UNCHANGED <<mapVars, now, ttlVars, aofVars, rdbVars, memUsage,
                   statVars, snapVars, tmDelta, begun>>

Store(t) ==
    LET r == frame[t].req IN
    /\ pc[t] = "store"
    /\ MapSet(r.key, r.val, frame[t].exp)
    /\ frame' = [frame EXCEPT ![t].delta = SetDelta(r.key, r.val)]
    /\ Goto(t, "account")
    /\ UNCHANGED <<now, ttlVars, aofVars, rdbVars, memUsage, statVars,
                   snapVars, tmDelta, begun>>

Remove(t) ==
    LET r == frame[t].req IN
    /\ pc[t] = "remove"
    /\ MapDelete(r.key)
    /\ frame' = [frame EXCEPT ![t].delta = DeleteDelta(r.key)]
    /\ Goto(t, "account")
    /\ UNCHANGED <<now, ttlVars, aofVars, rdbVars, memUsage, statVars,
                   snapVars, tmDelta, begun>>

\* Mutant: what leaves the memory usage as it was is not logged.
AccountOnly(t) ==
    /\ pc[t] = "account"
    /\ memUsage' = memUsage + frame[t].delta
    /\ frame' = [frame EXCEPT ![t].delta = 0]
    /\ Goto(t, IF AofEnabled /\ frame[t].delta # 0 THEN "append" ELSE "count")
    /\ UNCHANGED <<mapVars, now, ttlVars, aofVars, rdbVars, statVars,
                   snapVars, tmDelta, begun>>

Account(t) ==
    /\ pc[t] = "account"
    /\ memUsage' = memUsage + frame[t].delta
    /\ frame' = [frame EXCEPT ![t].delta = 0]
    /\ Goto(t, IF AofEnabled THEN "append" ELSE "count")
    /\ UNCHANGED <<mapVars, now, ttlVars, aofVars, rdbVars, statVars,
                   snapVars, tmDelta, begun>>

LineOf(t) ==
    LET r == frame[t].req IN
    IF r.op = "set" THEN SetLine(r.key, r.val, frame[t].exp)
                    ELSE DelLine(r.key)

\* The map has been changed already: an append that fails returns its error
\* from there, and neither counts the change nor arms the deadline.
LogLine(t) ==
    /\ pc[t] = "append"
    /\ \/ AppendLine(LineOf(t)) /\ Goto(t, "count") /\ UNCHANGED frame
       \/ AppendFails(LineOf(t)) /\ Return(t)
    /\ UNCHANGED <<mapVars, now, ttlVars, rdbVars, memUsage, statVars,
                   snapVars, tmDelta, begun>>

AutoSave == RdbEnabled /\ SaveRules # {}

\* Where a goroutine goes on after maybeAutoSnapshot, or after Snapshot.
Resume(p) ==
    IF p = Loop THEN Goto(p, "idle") /\ UNCHANGED frame
    ELSE IF frame[p].exp > 0 THEN Goto(p, "arm") /\ UNCHANGED frame
    ELSE Return(p)

Count(t) ==
    /\ pc[t] = "count"
    /\ changes' = changes + 1
    /\ IF AutoSave THEN Goto(t, "auto") /\ UNCHANGED frame ELSE Resume(t)
    /\ UNCHANGED <<mapVars, now, ttlVars, aofVars, rdbVars, memUsage,
                   statVars, lastSnap, snapMu, age, tmDelta, begun>>

Arm(t) ==
    /\ pc[t] = "arm"
    /\ heap' = HeapAdd(frame[t].req.key, frame[t].exp)
    /\ Return(t)
    /\ UNCHANGED <<mapVars, now, ttlStopped, tmPc, tmItem, aofVars, rdbVars,
                   memUsage, statVars, snapVars, tmDelta, begun>>

Read(t) ==
    /\ pc[t] = "read"
    /\ IF Served(items[frame[t].req.key])
       THEN hits' = hits + 1 /\ UNCHANGED misses
       ELSE misses' = misses + 1 /\ UNCHANGED hits
    /\ Return(t)
    /\ UNCHANGED <<mapVars, now, ttlVars, aofVars, rdbVars, memUsage,
                   requests, snapVars, tmDelta, begun>>

-----------------------------------------------------------------------------
(* maybeAutoSnapshot and Snapshot, for a handler or the loop *)

\* The clock is read first, and lastSnapshotAt may be stored before it is
\* read: the age may be negative.
AutoClock(p) ==
    /\ pc[p] = "auto"
    /\ age' = [age EXCEPT ![p] = now]
    /\ Goto(p, "last")
    /\ UNCHANGED <<mapVars, now, ttlVars, aofVars, rdbVars, memUsage,
                   statVars, changes, lastSnap, snapMu, frame, tmDelta, begun>>

\* Mutant: the subtraction is the wrong way round.
AutoAgeNegated(p) ==
    /\ pc[p] = "last"
    /\ age' = [age EXCEPT ![p] = lastSnap - @]
    /\ Goto(p, "rules")
    /\ UNCHANGED <<mapVars, now, ttlVars, aofVars, rdbVars, memUsage,
                   statVars, changes, lastSnap, snapMu, frame, tmDelta, begun>>

AutoAge(p) ==
    /\ pc[p] = "last"
    /\ age' = [age EXCEPT ![p] = @ - lastSnap]
    /\ Goto(p, "rules")
    /\ UNCHANGED <<mapVars, now, ttlVars, aofVars, rdbVars, memUsage,
                   statVars, changes, lastSnap, snapMu, frame, tmDelta, begun>>

RuleMet(c, a) == \E r \in SaveRules : c >= r.changes /\ a >= r.seconds

AutoRules(p) ==
    /\ pc[p] = "rules"
    /\ age' = [age EXCEPT ![p] = 0]
    /\ IF RuleMet(changes, age[p]) THEN Goto(p, "lock") /\ UNCHANGED frame
                                   ELSE Resume(p)
    /\ UNCHANGED <<mapVars, now, ttlVars, aofVars, rdbVars, memUsage,
                   statVars, changes, lastSnap, snapMu, tmDelta, begun>>

\* Mutant: snapshotMu is not waited for.
SnapLockFree(p) ==
    /\ pc[p] = "lock"
    /\ snapMu' = p
    /\ SaverAt(p, "open")
    /\ Goto(p, "save")
    /\ UNCHANGED <<mapVars, now, ttlVars, aofVars, rdb, rdbTmp, memUsage,
                   statVars, changes, lastSnap, age, frame, tmDelta, begun>>

SnapLock(p) ==
    /\ pc[p] = "lock"
    /\ snapMu = None
    /\ snapMu' = p
    /\ SaverAt(p, "open")
    /\ Goto(p, "save")
    /\ UNCHANGED <<mapVars, now, ttlVars, aofVars, rdb, rdbTmp, memUsage,
                   statVars, changes, lastSnap, age, frame, tmDelta, begun>>

SnapSave(p) ==
    /\ pc[p] = "save"
    /\ SaveStep(p)
    /\ UNCHANGED <<mapVars, now, ttlVars, aofVars, svcVars>>

\* Save returned: on success the time is stored, on failure only the mutex
\* is released.
SnapSaved(p) ==
    /\ pc[p] = "save"
    /\ saver[p].pc = "ok"
    /\ SaverAt(p, "off")
    /\ lastSnap' = now
    /\ Goto(p, "reset")
    /\ UNCHANGED <<mapVars, now, ttlVars, aofVars, rdb, rdbTmp, memUsage,
                   statVars, changes, snapMu, age, frame, tmDelta, begun>>

SnapFailed(p) ==
    /\ pc[p] = "save"
    /\ saver[p].pc = "failed"
    /\ SaverAt(p, "off")
    /\ snapMu' = None
    /\ Resume(p)
    /\ UNCHANGED <<mapVars, now, ttlVars, aofVars, rdb, rdbTmp, memUsage,
                   statVars, changes, lastSnap, age, tmDelta, begun>>

\* Mutant: snapshotMu is not released.
SnapResetHolds(p) ==
    /\ pc[p] = "reset"
    /\ changes' = 0
    /\ Resume(p)
    /\ UNCHANGED <<mapVars, now, ttlVars, aofVars, rdbVars, memUsage,
                   statVars, lastSnap, snapMu, age, tmDelta, begun>>

SnapReset(p) ==
    /\ pc[p] = "reset"
    /\ changes' = 0
    /\ snapMu' = None
    /\ Resume(p)
    /\ UNCHANGED <<mapVars, now, ttlVars, aofVars, rdbVars, memUsage,
                   statVars, lastSnap, age, tmDelta, begun>>

SnapStep(p) ==
    \/ AutoClock(p) \/ AutoAge(p) \/ AutoRules(p) \/ SnapLock(p)
    \/ SnapSave(p) \/ SnapSaved(p) \/ SnapFailed(p) \/ SnapReset(p)

\* The ticker of startAutoSnapshotLoop.
LoopTick ==
    /\ AutoSave
    /\ pc[Loop] = "idle"
    /\ Goto(Loop, "auto")
    /\ UNCHANGED <<mapVars, now, ttlVars, aofVars, rdbVars, memUsage,
                   statVars, snapVars, frame, tmDelta, begun>>

-----------------------------------------------------------------------------
(* The onExpire callback of NewService, which the TTL goroutine runs *)

\* Whatever is stored under the popped item's key is deleted.
Expire ==
    /\ tmPc = "expire"
    /\ MapDelete(tmItem[1])
    /\ tmDelta' = DeleteDelta(tmItem[1])
    /\ tmPc' = "account"
    /\ UNCHANGED <<now, heap, ttlStopped, tmItem, aofVars, rdbVars, memUsage,
                   statVars, snapVars, pc, frame, begun>>

ExpireAccount ==
    /\ tmPc = "account"
    /\ memUsage' = memUsage + tmDelta
    /\ tmDelta' = 0
    /\ tmPc' = "loop"
    /\ tmItem' = None
    /\ UNCHANGED <<mapVars, now, heap, ttlStopped, aofVars, rdbVars,
                   statVars, snapVars, pc, frame, begun>>

TtlGoroutine ==
    \/ /\ TtlStep
       /\ UNCHANGED <<mapVars, now, aofVars, rdbVars, svcVars>>
    \/ Expire
    \/ ExpireAccount

Rewriter ==
    /\ RwStep
    /\ UNCHANGED <<mapVars, now, ttlVars, rdbVars, svcVars>>

Tick ==
    /\ now < MaxTime
    /\ now' = now + 1
    /\ UNCHANGED <<mapVars, ttlVars, aofVars, rdbVars, svcVars>>

Handler(t) ==
    \/ Record(t) \/ Check(t) \/ Store(t) \/ Remove(t) \/ Account(t)
    \/ LogLine(t) \/ Count(t) \/ Arm(t) \/ Read(t) \/ SnapStep(t)

Run ==
    \/ \E t \in Thread : Handler(t)
    \/ SnapStep(Loop)
    \/ TtlGoroutine
    \/ Rewriter
    \/ Tick

Next ==
    \/ \E t \in Thread : Begin(t)
    \/ LoopTick
    \/ Run

\* The service's own variables when NewService returns at clock t.
SvcFresh(t) ==
    /\ requests = [o \in Op |-> 0]
    /\ hits = 0 /\ misses = 0
    /\ changes = 0 /\ lastSnap = t /\ snapMu = None
    /\ pc = [p \in Worker |-> "idle"]
    /\ frame = [u \in Thread |-> None]
    /\ age = [p \in Worker |-> 0]
    /\ tmDelta = 0

Init ==
    /\ now = 0
    /\ MapInit /\ TtlInit /\ RdbInit /\ AofFresh
    /\ aof = IF AofEnabled THEN EmptyFile ELSE None  \* OpenForAppend
    /\ aofOpen = AofEnabled
    /\ aofTmp = None
    /\ SvcFresh(now)
    /\ memUsage = 0
    /\ begun = 0

Spec == Init /\ [][Next]_vars

\* What kind of request can be at each point.
ControlOK ==
    \A t \in Thread :
        /\ pc[t] = "idle" <=> frame[t] = None
        /\ pc[t] \in {"check", "store"} => frame[t].req.op = "set"
        /\ pc[t] = "remove" => frame[t].req.op = "del"
        /\ pc[t] = "read" => frame[t].req.op = "get"
        /\ pc[t] \in {"account", "append", "count"} =>
               frame[t].req.op \in {"set", "del"}
        /\ pc[t] = "record" => frame[t].req.op # "snapshot"
        /\ pc[t] = "arm" => frame[t].exp > 0
        /\ frame[t] # None /\ frame[t].exp > 0 => frame[t].req.op = "set"

TypeOK ==
    /\ MapTypeOK /\ TtlTypeOK /\ AofTypeOK /\ RdbTypeOK
    /\ memUsage \in Int
    /\ requests \in [Op -> Nat]
    /\ hits \in Nat /\ misses \in Nat
    /\ changes \in Nat /\ lastSnap \in Time
    /\ snapMu \in Worker \cup {None}
    /\ pc \in [Worker -> {"idle", "record", "check", "store", "remove",
                          "account", "append", "count", "auto", "last", "rules",
                          "lock", "save", "reset", "arm", "read"}]
    /\ frame \in [Thread -> Frame \cup {None}]
    /\ age \in [Worker -> Int]
    /\ tmDelta \in Int
    /\ begun \in Nat
    /\ ControlOK

-----------------------------------------------------------------------------
(* Memory accounting *)

SumOver(S, f(_)) == SumFunction([x \in S |-> f(x)])

Delta(t) == IF frame[t] = None THEN 0 ELSE frame[t].delta

Content == SumOver(Key, LAMBDA k : Footprint(k, items[k]))

\* Set, Delete and onExpire change the map first and memUsage later, from a
\* delta computed under the shard's lock (service.go:50-52, 168-169, 220-221):
\* whatever the interleaving, memUsage and the deltas still to be added are
\* what the shards say they hold, and that is what they do hold.
MemAccounting ==
    /\ memUsage + SumOver(Thread, Delta) + tmDelta = MemUsage
    /\ MemUsage = Content

EntrySizes ==
    {EntrySize(k, v) :
        k \in {j \in Key : ValidKey(j)}, v \in {u \in Value : ValidValue(u)}}

\* The limit is tested against memUsage before the entry is stored
\* (service.go:161-169), so concurrent Sets can pass it together; but by no
\* more than one entry for each goroutine other than the first.
MemoryCeiling ==
    Content <= MaxMemory + (Cardinality(Thread) - 1) * Max(EntrySizes)

-----------------------------------------------------------------------------
(* Deadlines *)

\* t has stored its entry, with a deadline it has not handed over yet.
Owes(t, i) ==
    /\ frame[t] # None
    /\ frame[t].req.op = "set"
    /\ i = <<frame[t].req.key, frame[t].exp>>
    /\ i[2] > 0
    /\ pc[t] \in {"account", "append", "count", "auto", "last", "rules", "lock",
                  "save", "reset", "arm"}

Deadlines ==
    {i \in Item : \/ InHeap(i)
                  \/ tmPc = "expire" /\ tmItem = i
                  \/ \E t \in Thread : Owes(t, i)}

\* spec.md:11, for the part the service is responsible for: an entry with an
\* expiry has a deadline.
AllArmed ==
    \A k \in Key : items[k] # None /\ items[k].exp > 0 =>
                       <<k, items[k].exp>> \in Deadlines

\* Set stores the entry long before it adds its deadline to the heap
\* (service.go:168-182), and the TTL goroutine pops items meanwhile: no entry
\* with an expiry is ever left without a deadline that will reach it, as long
\* as the disk does not fail between the two (service.go:172-174).
Armed == ~IoFaults /\ ~ttlStopped => AllArmed

\* design.md:57-60: when a heap item is popped, the entry is deleted only if
\* its expiry is the item's; so nothing but a Delete of the key removes an
\* entry before its own expiry.
NoEarlyExpiry ==
    [][\A k \in Key :
        items[k] # None /\ items'[k] = None =>
            \/ Lapsed(items[k], now)
            \/ \E t \in Thread : pc[t] = "remove" /\ frame[t].req.key = k
                                 /\ pc'[t] # "remove"]_vars

-----------------------------------------------------------------------------
(* What a restart would find *)

\* A goroutine has changed this key in memory and not in the file yet.
InFlight(k) ==
    \E t \in Thread : /\ pc[t] \in {"account", "append"}
                      /\ frame[t].req.key = k

NeverTimed(k, lines) ==
    \A i \in DOMAIN lines :
        lines[i].op = "SET" /\ lines[i].key = k => lines[i].exp = 0

\* A replay of these lines brings back every entry that can still be served,
\* and, of a key that never had a TTL, nothing that was deleted.
Restores(lines) ==
    LET back == Recovered(lines, now)
    IN  \A k \in Key : ~InFlight(k) =>
            /\ items[k] # None /\ ~Lapsed(items[k], now) => back[k] = items[k]
            /\ items[k] = None /\ NeverTimed(k, lines) => back[k] = None

\* spec.md:14, service.go:171-175: a restart finds, in the AOF, every key as
\* the last finished write left it.
Durable == AofEnabled /\ aof # None => Restores(aof.lines)

\* The lines appendLine has buffered since rewrite() copied the buffer.
Unflushed == SubSeq(incrBuf, Len(rw.buf) + 1, Len(incrBuf))

\* persistence.go:116-152: entries are scanned shard by shard while handlers
\* go on writing; the scan, the copied buffer and what was buffered after the
\* copy together are everything the store holds.
NewFileCovers ==
    rw.pc \in {"swap", "renaming"} => Restores(aofTmp.lines \o Unflushed)

-----------------------------------------------------------------------------
(* Snapshots and counters *)

\* rdb.go:30-69 has no lock of its own: snapshotMu (service.go:302-303) is
\* what keeps a second Save from truncating the temporary file between the
\* write and the rename of the first.
RdbFileWhole == rdb # Blank

\* Why: one goroutine at a time is in Save, the one that holds snapshotMu
\* (service.go:301-312), it writes to the temporary file and nowhere else, and
\* what it renames has been encoded completely (rdb.go:53-66).
SnapshotExclusive ==
    /\ \A p \in Worker : pc[p] \in {"save", "reset"} <=> snapMu = p
    /\ \A p \in Saver :
        /\ saver[p].pc # "off" => p \in Worker /\ pc[p] = "save"
        /\ saver[p].fd = IF saver[p].pc \in {"scan", "write"} THEN "tmp"
                                                             ELSE "none"
        /\ saver[p].pc \in {"remove", "rename"} => rdbTmp # Blank
    /\ RdbFileWhole

-----------------------------------------------------------------------------
(* Progress: the Go scheduler runs every goroutine that can run, its mutexes *)
(* hand over to a waiter that has waited long enough, timers and the ticker  *)
(* fire, and the clock goes on.                                              *)

Fairness ==
    /\ WF_vars(Tick) /\ WF_vars(TtlGoroutine) /\ WF_vars(Rewriter)
    /\ WF_vars(LoopTick) /\ WF_vars(SnapStep(Loop)) /\ SF_vars(SnapLock(Loop))
    /\ \A t \in Thread : /\ WF_vars(Handler(t))
                         /\ SF_vars(SnapLock(t)) /\ SF_vars(LogLine(t))

FairSpec == Spec /\ Fairness

Overdue(k) == items[k] # None /\ Lapsed(items[k], now)

\* BOUND: the goroutine waits for an instant the model's clock never reaches.
OutOfTime == tmPc = "wait" /\ tmItem[2] > MaxTime

\* The goroutine sleeps on a timer that nothing wakes, not even the Add of an
\* earlier deadline (ttl_heap.go:60-72, 108-120), and pops one item at a time:
\* an entry past its expiry leaves the map all the same.
ExpiryHappens == \A k \in Key : Overdue(k) ~> ~Overdue(k) \/ OutOfTime

\* A handler that waits for snapshotMu, for p.mu during a swap, or for its own
\* snapshot gets through: every request returns.
RequestsReturn == \A t \in Thread : pc[t] # "idle" ~> pc[t] = "idle"

\* service.go:314-350: a save rule that is met is acted on, by the goroutine
\* that met it or by the loop.
RulesHonoured ==
    RdbEnabled /\ RuleMet(changes, now - lastSnap)
        ~> ~RuleMet(changes, now - lastSnap)

-----------------------------------------------------------------------------
(* The service implements the abstract store *)

KV == INSTANCE KVStore WITH kv <- items, deadlines <- Deadlines, clock <- now

\* Every step of every goroutine is a Put, a Drop, a Lapse of a pending
\* deadline, a tick, or invisible (for a disk that does not fail).
ImplementsKV == KV!KVSpec
=============================================================================
