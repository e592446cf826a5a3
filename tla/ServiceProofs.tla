---------------------------- MODULE ServiceProofs ----------------------------
(***************************************************************************)
(* Theorems about Service, for every set of keys, values and goroutines,   *)
(* every workload and every bound: the type invariant, that no entry with  *)
(* an expiry is without a deadline, and that snapshots take turns.         *)
(***************************************************************************)
EXTENDS Service, FiniteSetTheorems, TLAPS

USE DEF Time, Expiry, Shard

-----------------------------------------------------------------------------
(* The map *)

\* A slot accounts for a natural number of bytes.
LEMMA SizeType ==
    ASSUME NEW k \in Key, NEW e \in Slot
    PROVE  Footprint(k, e) \in Nat
  BY MapAssumption DEF Footprint, EntrySize, Slot, Entry

\* The memDelta of a Set is an integer.
LEMMA SetDeltaType ==
    ASSUME MapTypeOK, NEW k \in Key, NEW v \in Value
    PROVE  SetDelta(k, v) \in Int
<1>1. Footprint(k, items[k]) \in Nat
  BY SizeType DEF MapTypeOK
<1>2. EntrySize(k, v) \in Nat
  BY MapAssumption DEF EntrySize
<1> QED
  BY <1>1, <1>2 DEF SetDelta

\* The memDelta of a Delete is an integer.
LEMMA DeleteDeltaType ==
    ASSUME MapTypeOK, NEW k \in Key
    PROVE  DeleteDelta(k) \in Int
<1>1. Footprint(k, items[k]) \in Nat
  BY SizeType DEF MapTypeOK
<1> QED
  BY <1>1 DEF DeleteDelta

\* Set keeps the type of the map.
LEMMA MapSetType ==
    ASSUME MapTypeOK, NEW k \in Key, NEW v \in Value, NEW x \in Expiry,
           MapSet(k, v, x), UNCHANGED now
    PROVE  MapTypeOK'
<1>1. [val |-> v, exp |-> x] \in Slot
  BY DEF Slot, Entry
<1>2. items' \in [Key -> Slot]
  BY <1>1 DEF MapTypeOK, MapSet
<1>3. shardMem' \in [Shard -> Int]
  <2>1. SetDelta(k, v) \in Int
    BY SetDeltaType
  <2>2. ShardOf[k] \in Shard
    BY MapAssumption
  <2> QED
    BY <2>1, <2>2 DEF MapTypeOK, MapSet
<1> QED
  BY <1>2, <1>3 DEF MapTypeOK

\* Delete keeps the type of the map.
LEMMA MapDeleteType ==
    ASSUME MapTypeOK, NEW k \in Key, MapDelete(k), UNCHANGED now
    PROVE  MapTypeOK'
<1>1. items' \in [Key -> Slot]
  BY DEF MapTypeOK, MapDelete, Slot
<1>2. shardMem' \in [Shard -> Int]
  <2>1. DeleteDelta(k) \in Int
    BY DeleteDeltaType
  <2>2. ShardOf[k] \in Shard
    BY MapAssumption
  <2> QED
    BY <2>1, <2>2 DEF MapTypeOK, MapDelete
<1> QED
  BY <1>1, <1>2 DEF MapTypeOK

\* A step that leaves the map alone, whatever the clock does, keeps its type.
LEMMA MapUnchangedType ==
    ASSUME MapTypeOK, UNCHANGED <<items, shardMem>>, now' \in Time
    PROVE  MapTypeOK'
  BY DEF MapTypeOK

-----------------------------------------------------------------------------
(* The heap and its goroutine *)

\* A step that leaves the heap and its goroutine alone keeps their type.
LEMMA TtlUnchangedType ==
    ASSUME TtlTypeOK, UNCHANGED ttlVars
    PROVE  TtlTypeOK'
  BY DEF TtlTypeOK, ttlVars

\* Add gives a bag of items again.
LEMMA HeapAddType ==
    ASSUME TtlTypeOK, NEW k \in Key, NEW x \in Expiry
    PROVE  HeapAdd(k, x) \in [Item -> Nat]
  BY DEF TtlTypeOK, HeapAdd, Item

\* Every step of the TTL goroutine keeps the type; TtlPop never takes an item
\* out of the bag that is not in it.
LEMMA TtlStepType ==
    ASSUME TtlTypeOK, TtlStep
    PROVE  TtlTypeOK'
<1>1. CASE TtlSleep
  BY <1>1 DEF TtlSleep, TtlTypeOK
<1>2. CASE TtlWake
  BY <1>2 DEF TtlWake, TtlTypeOK
<1>3. CASE TtlWait
  BY <1>3 DEF TtlWait, TtlTypeOK
<1>4. CASE TtlTimer
  BY <1>4 DEF TtlTimer, TtlTypeOK
<1>5. CASE TtlPop
  <2>1. PICK i \in Item : /\ HeapTop(i)
                          /\ heap' = [heap EXCEPT ![i] = @ - 1]
                          /\ tmItem' = i
    BY <1>5 DEF TtlPop
  <2>2. heap[i] > 0 /\ heap[i] \in Nat
    BY <2>1 DEF HeapTop, InHeap, TtlTypeOK
  <2>3. heap' \in [Item -> Nat]
    BY <2>1, <2>2 DEF TtlTypeOK
  <2> QED
    BY <1>5, <2>1, <2>3 DEF TtlPop, TtlTypeOK
<1>6. CASE TtlExit
  BY <1>6 DEF TtlExit, TtlTypeOK
<1> QED
  BY <1>1, <1>2, <1>3, <1>4, <1>5, <1>6 DEF TtlStep

-----------------------------------------------------------------------------
(* The append-only file and its rewriter *)

\* A step that leaves the file and the rewriter alone keeps their type.
LEMMA AofUnchangedType ==
    ASSUME AofTypeOK, UNCHANGED aofVars
    PROVE  AofTypeOK'
  BY DEF AofTypeOK, aofVars

\* Spoiling the last line of a file gives lines again.
LEMMA FusedType ==
    ASSUME NEW lines \in Seq(Line)
    PROVE  Fused(lines) \in Seq(Line)
<1>1. Broken \in Line
  BY DEF Broken, Line
<1>2. lines \in [1 .. Len(lines) -> Line] /\ Len(lines) \in Nat
  OBVIOUS
<1>3. Fused(lines) \in [1 .. Len(lines) -> Line]
  BY <1>1, <1>2 DEF Fused
<1> QED
  BY <1>2, <1>3

\* A file with one more line is a file.
LEMMA ExtendType ==
    ASSUME NEW f \in File, NEW ln \in Line
    PROVE  Extend(f, ln) \in File
<1>1. CASE f.cut
  <2>1. Fused(f.lines) \in Seq(Line)
    BY FusedType DEF File
  <2> QED
    BY <1>1, <2>1 DEF Extend, File
<1>2. CASE ~f.cut
  <2>1. Append(f.lines, ln) \in Seq(Line)
    BY DEF File
  <2> QED
    BY <1>2, <2>1 DEF Extend, File
<1> QED
  BY <1>1, <1>2

\* What an append opens is a file, existing or new.
LEMMA OpenedType ==
    ASSUME NEW f \in File \cup {None}
    PROVE  Opened(f) \in File
<1>1. <<>> \in Seq(Line)
  OBVIOUS
<1> QED
  BY <1>1 DEF Opened, EmptyFile, File

\* The rewriter at rest has the type of a rewriter.
LEMMA RwIdleType ==
    /\ RwIdle \in [pc : {"off", "open", "scan", "copy", "flush", "swap",
                         "renaming"},
                   shard : Shard, at : Time, buf : Seq(Line)]
    /\ RwIdle.pc = "off"
<1>1. <<>> \in Seq(Line)
  OBVIOUS
<1> QED
  BY <1>1, MapAssumption DEF RwIdle

\* An append that succeeds keeps the type: the handle is open on a file.
LEMMA AppendLineType ==
    ASSUME AofTypeOK, NEW ln \in Line, AppendLine(ln)
    PROVE  AofTypeOK'
<1>1. aof' \in File
  BY OpenedType, ExtendType DEF AppendLine, AofTypeOK
<1>2. aof' # None
  BY <1>1, AofAssumption
<1>3. incrBuf' \in Seq(Line)
  <2>1. <<>> \in Seq(Line) /\ Append(incrBuf, ln) \in Seq(Line)
    BY DEF AofTypeOK
  <2>2. incrBuf' \in {<<>>, Append(incrBuf, ln), incrBuf}
    BY DEF AppendLine
  <2> QED
    BY <2>1, <2>2 DEF AofTypeOK
<1>4. CASE UNCHANGED <<rewriting, rw>>
  BY <1>1, <1>2, <1>3, <1>4 DEF AppendLine, AofTypeOK
<1>5. CASE rewriting' = TRUE /\ rw' = [RwIdle EXCEPT !.pc = "open"]
  <2>1. rw' \in [pc : {"off", "open", "scan", "copy", "flush", "swap",
                         "renaming"},
                   shard : Shard, at : Time, buf : Seq(Line)]
        /\ rw'.pc = "open"
    BY <1>5, RwIdleType
  <2> QED
    BY <1>1, <1>2, <1>3, <1>5, <2>1 DEF AppendLine, AofTypeOK
<1> QED
  BY <1>4, <1>5 DEF AppendLine

\* So does an append that fails, whatever part of the line it wrote.
LEMMA AppendFailsType ==
    ASSUME AofTypeOK, NEW ln \in Line, AppendFails(ln)
    PROVE  AofTypeOK'
<1>1. CASE UNCHANGED <<aof, aofOpen>>
  BY <1>1 DEF AppendFails, AofTypeOK
<1>2. CASE /\ aof' \in {Opened(aof),
                         [Extend(Opened(aof), Broken) EXCEPT !.cut = TRUE]}
           /\ aofOpen' = TRUE
  <2>1. Broken \in Line
    BY DEF Broken, Line
  <2>2. Extend(Opened(aof), Broken) \in File
    BY <2>1, OpenedType, ExtendType DEF AofTypeOK
  <2>3. aof' \in File
    BY <1>2, <2>2, OpenedType DEF File, AofTypeOK
  <2> QED
    BY <1>2, <2>3, AofAssumption DEF AppendFails, AofTypeOK
<1> QED
  BY <1>1, <1>2 DEF AppendFails

\* The keys of one shard are finitely many, so any order of them is a sequence.
LEMMA ShardKeysType ==
    ASSUME MapTypeOK, NEW s \in Shard, NEW t \in Time
    PROVE  /\ ShardKeys(s, t) \subseteq Key
           /\ Cardinality(ShardKeys(s, t)) \in Nat
           /\ \A k \in ShardKeys(s, t) : items[k] \in Entry
<1>1. ShardKeys(s, t) \subseteq Key
  BY DEF ShardKeys
<1>2. IsFiniteSet(ShardKeys(s, t))
  BY <1>1, FS_Subset, MapAssumption
<1>3. Cardinality(ShardKeys(s, t)) \in Nat
  BY <1>2, FS_CardinalityType
<1>4. \A k \in ShardKeys(s, t) : items[k] \in Entry
  BY DEF ShardKeys, MapTypeOK, Slot
<1> QED
  BY <1>1, <1>3, <1>4

\* A shard scanned into the temporary file leaves a file there.
LEMMA RwScanType ==
    ASSUME AofTypeOK, MapTypeOK, RwScan
    PROVE  AofTypeOK'
<1> DEFINE keys == ShardKeys(rw.shard, rw.at)
<1>1. rw.shard \in Shard /\ rw.at \in Time /\ aofTmp \in File
  BY DEF AofTypeOK, RwScan
<1>2. PICK order \in Injection(1 .. Cardinality(keys), keys) :
        aofTmp' = [aofTmp EXCEPT !.lines =
                     @ \o [i \in DOMAIN order |-> EntryLine(order[i])]]
  BY DEF RwScan
<1>3. order \in [1 .. Cardinality(keys) -> keys]
  BY DEF Injection, IsInjective
<1>4. Cardinality(keys) \in Nat /\ \A k \in keys : EntryLine(k) \in Line
  <2>1. \A k \in keys : items[k] \in Entry /\ k \in Key
    BY <1>1, ShardKeysType
  <2> QED
    BY <1>1, <2>1, ShardKeysType DEF EntryLine, SetLine, Line, Entry
<1>5. [i \in DOMAIN order |-> EntryLine(order[i])] \in Seq(Line)
  <2> HIDE DEF keys
  <2>1. [i \in DOMAIN order |-> EntryLine(order[i])]
            \in [1 .. Cardinality(keys) -> Line]
    BY <1>3, <1>4
  <2> QED
    BY <1>4, <2>1
<1>6. aofTmp' \in File
  <2>1. aofTmp.lines \o [i \in DOMAIN order |-> EntryLine(order[i])]
            \in Seq(Line)
    BY <1>1, <1>5 DEF File
  <2> QED
    BY <1>1, <1>2, <2>1 DEF File
<1>7. /\ rw' \in [pc : {"off", "open", "scan", "copy", "flush", "swap",
                        "renaming"},
                  shard : Shard, at : Time, buf : Seq(Line)]
      /\ rw'.pc \in {"scan", "copy"}
  <2>1. CASE rw.shard = ShardCount
    BY <2>1 DEF RwScan, AofTypeOK
  <2>2. CASE rw.shard # ShardCount
    <3>1. rw.shard + 1 \in Shard
      BY <1>1, <2>2, MapAssumption
    <3>2. rw' = [rw EXCEPT !.shard = @ + 1] /\ rw.pc = "scan"
      BY <2>2 DEF RwScan
    <3> QED
      BY <3>1, <3>2 DEF AofTypeOK
  <2> QED
    BY <2>1, <2>2
<1> QED
  BY <1>6, <1>7, AofAssumption DEF RwScan, AofTypeOK

\* The set of the rewriter's states.
RwState == [pc : {"off", "open", "scan", "copy", "flush", "swap", "renaming"},
            shard : Shard, at : Time, buf : Seq(Line)]

\* Every step of the rewriter keeps the type: its temporary file exists from
\* the scan to the rename, and no handle is open on a removed file.
LEMMA RwStepType ==
    ASSUME AofTypeOK, MapTypeOK, RwStep
    PROVE  AofTypeOK'
<1> USE AofAssumption
<1>1. RwIdle \in RwState /\ RwIdle.pc = "off" /\ <<>> \in Seq(Line)
  BY RwIdleType DEF RwState
<1>2. CASE RwOpen
  <2>1. EmptyFile \in File
    BY <1>1 DEF EmptyFile, File
  <2>2. rw' \in RwState
    BY <1>2 DEF RwOpen, AofTypeOK, MapTypeOK, RwState
  <2> QED
    BY <1>2, <2>1, <2>2 DEF RwOpen, AofTypeOK, RwState
<1>3. CASE RwScan
  BY <1>3, RwScanType
<1>4. CASE RwCopy
  BY <1>4 DEF RwCopy, AofTypeOK
<1>5. CASE RwFlush
  <2> DEFINE all == aofTmp.lines \o rw.buf
  <2>1. all \in Seq(Line) /\ Len(all) \in Nat
    BY <1>5 DEF RwFlush, AofTypeOK, File
  <2>2. aofTmp' = [lines |-> all, cut |-> FALSE, synced |-> Len(all)]
    BY <1>5 DEF RwFlush
  <2>3. aofTmp' \in File
    <3> HIDE DEF all
    <3> QED
      BY <2>1, <2>2 DEF File
  <2>4. rw' = [rw EXCEPT !.pc = "swap"]
    BY <1>5 DEF RwFlush
  <2> QED
    BY <1>5, <2>3, <2>4 DEF RwFlush, AofTypeOK
<1>6. CASE RwRemove
  BY <1>6 DEF RwRemove, AofTypeOK
<1>7. CASE RwRename
  BY <1>1, <1>7 DEF RwRename, RwFail, AofTypeOK, RwState
<1>8. CASE RwRenameFails
  BY <1>1, <1>8 DEF RwRenameFails, AofTypeOK, RwState
<1>9. ASSUME NEW l \in {"open", "scan", "flush"}, RwFault(l)
      PROVE  AofTypeOK'
  BY <1>1, <1>9 DEF RwFault, RwFail, AofTypeOK, RwState
<1> QED
  BY <1>2, <1>3, <1>4, <1>5, <1>6, <1>7, <1>8, <1>9 DEF RwStep

-----------------------------------------------------------------------------
(* The snapshot file and its savers *)

\* A step that leaves the snapshot files and the savers alone keeps their type.
LEMMA RdbUnchangedType ==
    ASSUME RdbTypeOK, UNCHANGED rdbVars
    PROVE  RdbTypeOK'
  BY DEF RdbTypeOK, rdbVars

SaverState ==
    [pc : {"off", "open", "scan", "write", "remove", "rename", "ok", "failed"},
     shard : Shard, at : Time, fd : {"none", "tmp", "rdb", "gone"}, data : Snap]

\* A saver that is not in Save has the type of a saver.
LEMMA SaverOffType == SaverOff \in SaverState
<1>1. NoEntries \in Snap
  BY DEF NoEntries, Snap, Slot
<1> QED
  BY <1>1, MapAssumption DEF SaverOff, SaverState

\* A saver moved to a new point has the type of a saver.
LEMMA SaverAtType ==
    ASSUME RdbTypeOK, NEW p \in Saver,
           NEW l \in {"off", "open", "scan", "write", "remove", "rename",
                      "ok", "failed"},
           SaverAt(p, l)
    PROVE  saver' \in [Saver -> SaverState]
  BY SaverOffType DEF SaverAt, RdbTypeOK, SaverState

\* Every step of Save keeps the type of the files and of the savers.
LEMMA SaveStepType ==
    ASSUME RdbTypeOK, MapTypeOK, NEW p \in Saver, SaveStep(p)
    PROVE  RdbTypeOK'
<1> USE DEF SaverState
<1>1. saver[p] \in SaverState
  BY DEF RdbTypeOK
<1>2. CASE RdbOpen(p)
  <2>1. saver' \in [Saver -> SaverState]
    BY <1>1, <1>2 DEF RdbOpen, RdbTypeOK, MapTypeOK
  <2> QED
    BY <1>2, <2>1 DEF RdbOpen, RdbTypeOK
<1>3. CASE RdbScan(p)
  <2> DEFINE me == saver[p]
             last == me.shard = ShardCount
             live == ShardKeys(me.shard, me.at)
             data == [k \in Key |-> IF k \in live THEN items[k] ELSE me.data[k]]
             next == [me EXCEPT !.pc = IF last THEN "write" ELSE "scan",
                                !.shard = IF last THEN @ ELSE @ + 1,
                                !.data = data]
  <2>1. data \in Snap
    BY <1>1 DEF Snap, MapTypeOK
  <2>2. saver' = [saver EXCEPT ![p] = next]
    BY <1>3 DEF RdbScan
  <2>3. next \in SaverState
    <3> HIDE DEF data
    <3>1. (IF last THEN me.shard ELSE me.shard + 1) \in Shard
      BY <1>1, MapAssumption
    <3> QED
      BY <1>1, <2>1, <3>1
  <2>4. saver' \in [Saver -> SaverState]
    <3> HIDE DEF next
    <3> QED
      BY <2>2, <2>3 DEF RdbTypeOK
  <2> QED
    BY <1>3, <2>4 DEF RdbScan, RdbTypeOK
<1>4. CASE RdbWrite(p)
  <2>1. saver' \in [Saver -> SaverState]
    BY <1>4, SaverAtType DEF RdbWrite
  <2> QED
    BY <1>1, <1>4, <2>1 DEF RdbWrite, RdbTypeOK
<1>5. CASE RdbRemove(p)
  <2>1. saver' \in [Saver -> SaverState]
    BY <1>5 DEF RdbRemove, RdbTypeOK
  <2> QED
    BY <1>5, <2>1 DEF RdbRemove, RdbTypeOK
<1>6. CASE RdbRename(p)
  <2>1. saver' \in [Saver -> SaverState]
    <3>1. CASE rdbTmp = None
      BY <1>6, <3>1, SaverAtType DEF RdbRename
    <3>2. CASE rdbTmp # None
      BY <1>6, <3>2, SaverOffType DEF RdbRename, RdbTypeOK
    <3> QED
      BY <3>1, <3>2
  <2> QED
    BY <1>6, <2>1 DEF RdbRename, RdbTypeOK
<1>7. CASE RdbFault(p)
  <2>1. saver' \in [Saver -> SaverState]
    BY <1>7, SaverAtType DEF RdbFault
  <2> QED
    BY <1>7, <2>1 DEF RdbFault, RdbTypeOK
<1> QED
  BY <1>2, <1>3, <1>4, <1>5, <1>6, <1>7 DEF SaveStep

-----------------------------------------------------------------------------
(* The service: one lemma for each step *)

USE DEF Worker, Saver

Ctl == {"idle", "record", "check", "store", "remove", "account", "append",
        "count", "auto", "last", "rules", "lock", "save", "reset", "arm", "read"}

\* The part of TypeOK about the service's own variables.
SvcTypeOK ==
    /\ memUsage \in Int
    /\ requests \in [Op -> Nat]
    /\ hits \in Nat /\ misses \in Nat
    /\ changes \in Nat /\ lastSnap \in Time
    /\ snapMu \in Worker \cup {None}
    /\ pc \in [Worker -> Ctl]
    /\ frame \in [Thread -> Frame \cup {None}]
    /\ age \in [Worker -> Int]
    /\ tmDelta \in Int
    /\ begun \in Nat
    /\ ControlOK

\* TypeOK is its five parts, before a step and after it.
LEMMA TypeParts ==
    /\ TypeOK <=>
         MapTypeOK /\ TtlTypeOK /\ AofTypeOK /\ RdbTypeOK /\ SvcTypeOK
    /\ TypeOK' <=>
         MapTypeOK' /\ TtlTypeOK' /\ AofTypeOK' /\ RdbTypeOK' /\ SvcTypeOK'
  BY DEF TypeOK, SvcTypeOK, Ctl

\* A goroutine that serves a request has a frame.
LEMMA BusyFrame ==
    ASSUME SvcTypeOK, NEW t \in Thread, pc[t] # "idle"
    PROVE  frame[t] \in Frame /\ frame[t] # None
  BY DEF SvcTypeOK, ControlOK

\* A handler that returns drops its frame.
LEMMA ReturnType ==
    ASSUME SvcTypeOK, NEW t \in Thread, Return(t)
    PROVE  /\ pc' \in [Worker -> Ctl]
           /\ frame' \in [Thread -> Frame \cup {None}]
           /\ ControlOK'
  BY DEF SvcTypeOK, ControlOK, Return, Goto, Ctl

\* A worker that goes on after a snapshot is at "arm" only with an expiry to
\* hand over, and otherwise idle.
LEMMA ResumeType ==
    ASSUME SvcTypeOK, NEW p \in Worker, Resume(p), pc[p] # "idle"
    PROVE  /\ pc' \in [Worker -> Ctl]
           /\ frame' \in [Thread -> Frame \cup {None}]
           /\ ControlOK'
<1>1. CASE p = Loop
  BY <1>1, RdbAssumption DEF SvcTypeOK, ControlOK, Resume, Goto, Ctl
<1>2. CASE p # Loop /\ frame[p].exp > 0
  BY <1>2 DEF SvcTypeOK, ControlOK, Resume, Goto, Ctl
<1>3. CASE p # Loop /\ ~(frame[p].exp > 0)
  BY <1>3, ReturnType DEF Resume
<1> QED
  BY <1>1, <1>2, <1>3

\* A request handed to an idle goroutine comes with a frame that fits it.
LEMMA BeginType ==
    ASSUME TypeOK, NEW t \in Thread, Begin(t)
    PROVE  TypeOK'
<1>1. PICK r \in Workload[t] :
        /\ frame' = [frame EXCEPT ![t] = [req |-> r, copy |-> requests,
                                          exp |-> 0, delta |-> 0]]
        /\ pc' = [pc EXCEPT ![t] =
                    IF r.op = "snapshot" THEN "lock" ELSE "record"]
  BY DEF Begin, Goto
<1>2. r \in Request /\ r.op \in Op
  BY ServiceAssumption DEF Request, Op
<1>3. [req |-> r, copy |-> requests, exp |-> 0, delta |-> 0] \in Frame
  BY <1>2, TypeParts, MapAssumption DEF SvcTypeOK, Frame
<1>4. SvcTypeOK'
  <2>1. frame' \in [Thread -> Frame \cup {None}] /\ pc' \in [Worker -> Ctl]
    BY <1>1, <1>2, <1>3, TypeParts DEF SvcTypeOK, Ctl
  <2>2. ControlOK'
    BY <1>1, <1>3, TypeParts, ServiceAssumption DEF SvcTypeOK, ControlOK
  <2> QED
    BY <2>1, <2>2, TypeParts DEF Begin, SvcTypeOK, statVars, snapVars
<1> QED
  BY <1>4, TypeParts, MapUnchangedType, TtlUnchangedType, AofUnchangedType,
     RdbUnchangedType DEF Begin, mapVars, MapTypeOK

\* What a step that leaves the map, heap and files alone has to show.
LEMMA QuietType ==
    ASSUME TypeOK, SvcTypeOK', UNCHANGED <<mapVars, now, ttlVars, aofVars>>,
           RdbTypeOK'
    PROVE  TypeOK'
  BY TypeParts, MapUnchangedType, TtlUnchangedType, AofUnchangedType
     DEF mapVars, MapTypeOK

\* The counters stay natural numbers, and the next point fits the request.
LEMMA RecordType ==
    ASSUME TypeOK, NEW t \in Thread, Record(t)
    PROVE  TypeOK'
<1> DEFINE r == frame[t].req
<1>1. frame[t] \in Frame /\ r \in Request /\ r.op \in Op \ {"snapshot"}
  BY BusyFrame, TypeParts DEF Record, SvcTypeOK, ControlOK, Frame, Request, Op
<1>2. requests' \in [Op -> Nat]
  BY <1>1 DEF Record, Frame
<1>3. /\ pc' \in [Worker -> Ctl]
      /\ frame' \in [Thread -> Frame \cup {None}]
      /\ ControlOK'
  <2>1. CASE Return(t)
    BY <2>1, ReturnType, TypeParts
  <2>2. CASE /\ r.op = "set"
             /\ frame' = [frame EXCEPT ![t].exp = Deadline(r, now)]
             /\ Goto(t, "check")
    <3>1. r.ttl \in 0 .. MaxTTL
      BY <1>1, <2>2 DEF Request
    <3>2. Deadline(r, now) \in Expiry
      BY <3>1, TypeParts, MapAssumption DEF Deadline, MapTypeOK
    <3>3. [frame[t] EXCEPT !.exp = Deadline(r, now)] \in Frame
      BY <1>1, <3>2 DEF Frame
    <3>4. frame' = [frame EXCEPT ![t] = [frame[t] EXCEPT
                                            !.exp = Deadline(r, now)]]
      BY <2>2
    <3>5. frame' \in [Thread -> Frame \cup {None}] /\ pc' \in [Worker -> Ctl]
      BY <2>2, <3>3, <3>4, TypeParts DEF SvcTypeOK, Goto, Ctl
    <3>6. frame'[t] # None /\ frame'[t].req = r
      BY <1>1, <3>3, <3>4, TypeParts, ServiceAssumption DEF SvcTypeOK, Frame
    <3>7. ControlOK'
      BY <2>2, <3>4, <3>6, TypeParts DEF SvcTypeOK, ControlOK, Goto
    <3> QED
      BY <3>5, <3>7
  <2>3. CASE /\ r.op # "set"
             /\ Goto(t, IF r.op = "get" THEN "read" ELSE "remove")
             /\ UNCHANGED frame
    <3>1. r.op \in {"get", "del"}
      BY <1>1, <2>3 DEF Op
    <3>2. pc' = [pc EXCEPT ![t] = IF r.op = "get" THEN "read" ELSE "remove"]
          /\ frame' = frame
      BY <2>3 DEF Goto
    <3>3. pc' \in [Worker -> Ctl]
      BY <3>2, TypeParts DEF SvcTypeOK, Ctl
    <3>4. frame[t] # None
      BY BusyFrame, TypeParts DEF Record
    <3>5. ControlOK'
      BY <3>1, <3>2, <3>4, TypeParts DEF SvcTypeOK, ControlOK
    <3> QED
      BY <3>2, <3>3, <3>5, TypeParts DEF SvcTypeOK
  <2> QED
    BY <2>1, <2>2, <2>3 DEF Record
<1>4. SvcTypeOK'
  BY <1>2, <1>3, TypeParts DEF Record, SvcTypeOK, snapVars
<1> QED
  BY <1>4, QuietType, TypeParts, RdbUnchangedType DEF Record

\* Refused or not, the request is where it can be.
LEMMA CheckType ==
    ASSUME TypeOK, NEW t \in Thread, Check(t)
    PROVE  TypeOK'
<1>1. /\ pc' \in [Worker -> Ctl]
      /\ frame' \in [Thread -> Frame \cup {None}]
      /\ ControlOK'
  <2>1. CASE Return(t)
    BY <2>1, ReturnType, TypeParts
  <2>2. CASE Goto(t, "store") /\ UNCHANGED frame
    BY <2>2, TypeParts DEF Check, SvcTypeOK, ControlOK, Goto, Ctl
  <2> QED
    BY <2>1, <2>2 DEF Check
<1>2. SvcTypeOK'
  BY <1>1, TypeParts DEF Check, SvcTypeOK, statVars, snapVars
<1> QED
  BY <1>2, QuietType, TypeParts, RdbUnchangedType DEF Check

\* Store and Remove record the delta in the frame.
LEMMA DeltaType ==
    ASSUME SvcTypeOK, NEW t \in Thread, NEW d \in Int,
           pc[t] \in {"store", "remove", "account"},
           frame' = [frame EXCEPT ![t].delta = d],
           NEW l \in {"account", "append", "count"}, Goto(t, l)
    PROVE  /\ pc' \in [Worker -> Ctl]
           /\ frame' \in [Thread -> Frame \cup {None}]
           /\ ControlOK'
<1>1. frame[t] \in Frame
  BY BusyFrame
<1>2. [frame[t] EXCEPT !.delta = d] \in Frame
  BY <1>1 DEF Frame
<1>3. frame' = [frame EXCEPT ![t] = [frame[t] EXCEPT !.delta = d]]
  OBVIOUS
<1>4. frame'[t] # None /\ frame'[t].req = frame[t].req
      /\ frame'[t].exp = frame[t].exp
  BY <1>1, <1>2, <1>3, ServiceAssumption DEF SvcTypeOK, Frame
<1>5. frame' \in [Thread -> Frame \cup {None}] /\ pc' \in [Worker -> Ctl]
  BY <1>2, <1>3 DEF SvcTypeOK, Goto, Ctl
<1>6. ControlOK'
  BY <1>3, <1>4 DEF SvcTypeOK, ControlOK, Goto
<1> QED
  BY <1>5, <1>6

\* storage.Set keeps the types; its delta goes into the frame.
LEMMA StoreType ==
    ASSUME TypeOK, NEW t \in Thread, Store(t)
    PROVE  TypeOK'
<1> DEFINE r == frame[t].req
<1>1. frame[t] \in Frame /\ r.key \in Key /\ r.val \in Value
  BY BusyFrame, TypeParts DEF Store, SvcTypeOK, ControlOK, Frame, Request
<1>2. frame[t].exp \in Expiry /\ SetDelta(r.key, r.val) \in Int
  BY <1>1, SetDeltaType, TypeParts DEF Frame
<1>3. MapTypeOK'
  BY <1>1, <1>2, MapSetType, TypeParts DEF Store
<1>4. SvcTypeOK'
  BY <1>2, DeltaType, TypeParts
     DEF Store, SvcTypeOK, statVars, snapVars
<1> QED
  BY <1>3, <1>4, TypeParts, TtlUnchangedType, AofUnchangedType,
     RdbUnchangedType DEF Store

\* storage.Delete keeps the types; its delta goes into the frame.
LEMMA RemoveType ==
    ASSUME TypeOK, NEW t \in Thread, Remove(t)
    PROVE  TypeOK'
<1> DEFINE r == frame[t].req
<1>1. frame[t] \in Frame /\ r.key \in Key
  BY BusyFrame, TypeParts DEF Remove, SvcTypeOK, ControlOK, Frame, Request
<1>2. DeleteDelta(r.key) \in Int
  BY <1>1, DeleteDeltaType, TypeParts
<1>3. MapTypeOK'
  BY <1>1, MapDeleteType, TypeParts DEF Remove
<1>4. SvcTypeOK'
  BY <1>2, DeltaType, TypeParts
     DEF Remove, SvcTypeOK, statVars, snapVars
<1> QED
  BY <1>3, <1>4, TypeParts, TtlUnchangedType, AofUnchangedType,
     RdbUnchangedType DEF Remove

\* memUsage stays an integer.
LEMMA AccountType ==
    ASSUME TypeOK, NEW t \in Thread, Account(t)
    PROVE  TypeOK'
<1>1. frame[t] \in Frame
  BY BusyFrame, TypeParts DEF Account
<1>2. memUsage' \in Int
  BY <1>1, TypeParts DEF Account, SvcTypeOK, Frame
<1>3. /\ pc' \in [Worker -> Ctl]
      /\ frame' \in [Thread -> Frame \cup {None}]
      /\ ControlOK'
  <2>1. pc[t] = "account" /\ frame' = [frame EXCEPT ![t].delta = 0]
    BY DEF Account
  <2>2. \/ Goto(t, "append")
        \/ Goto(t, "count")
    BY DEF Account
  <2>3. SvcTypeOK /\ 0 \in Int
    BY TypeParts
  <2>4. CASE Goto(t, "append")
    BY <2>1, <2>3, <2>4, DeltaType
  <2>5. CASE Goto(t, "count")
    BY <2>1, <2>3, <2>5, DeltaType
  <2> QED
    BY <2>2, <2>4, <2>5
<1>4. SvcTypeOK'
  BY <1>2, <1>3, TypeParts DEF Account, SvcTypeOK, statVars, snapVars
<1> QED
  BY <1>4, QuietType, TypeParts, RdbUnchangedType DEF Account

\* The line of a request is a line, and an append keeps the types.
LEMMA LogLineType ==
    ASSUME TypeOK, NEW t \in Thread, LogLine(t)
    PROVE  TypeOK'
<1> DEFINE r == frame[t].req
<1>1. /\ frame[t] \in Frame /\ frame[t] # None
      /\ r \in Request /\ r.op \in {"set", "del"}
  BY BusyFrame, TypeParts DEF LogLine, SvcTypeOK, ControlOK, Frame
<1>2. LineOf(t) \in Line
  BY <1>1 DEF LineOf, SetLine, DelLine, Line, Frame, Request
<1>3. /\ AofTypeOK'
      /\ pc' \in [Worker -> Ctl]
      /\ frame' \in [Thread -> Frame \cup {None}]
      /\ ControlOK'
  <2>1. CASE AppendLine(LineOf(t)) /\ Goto(t, "count") /\ UNCHANGED frame
    BY <1>1, <1>2, <2>1, AppendLineType, TypeParts
       DEF SvcTypeOK, ControlOK, Goto, Ctl
  <2>2. CASE AppendFails(LineOf(t)) /\ Return(t)
    BY <1>2, <2>2, AppendFailsType, ReturnType, TypeParts
  <2> QED
    BY <2>1, <2>2 DEF LogLine
<1>4. SvcTypeOK'
  BY <1>3, TypeParts DEF LogLine, SvcTypeOK, statVars, snapVars
<1> QED
  BY <1>3, <1>4, TypeParts, MapUnchangedType, TtlUnchangedType,
     RdbUnchangedType DEF LogLine, mapVars, MapTypeOK

\* changes stays a natural number.
LEMMA CountType ==
    ASSUME TypeOK, NEW t \in Thread, Count(t)
    PROVE  TypeOK'
<1>1. /\ pc' \in [Worker -> Ctl]
      /\ frame' \in [Thread -> Frame \cup {None}]
      /\ ControlOK'
  <2>1. CASE Goto(t, "auto") /\ UNCHANGED frame
    BY <2>1, TypeParts DEF Count, SvcTypeOK, ControlOK, Goto, Ctl
  <2>2. CASE Resume(t)
    BY <2>2, ResumeType, TypeParts DEF Count
  <2> QED
    BY <2>1, <2>2 DEF Count
<1>2. SvcTypeOK'
  BY <1>1, TypeParts DEF Count, SvcTypeOK, statVars
<1> QED
  BY <1>2, QuietType, TypeParts, RdbUnchangedType DEF Count

\* What is handed to the heap is an item of it.
LEMMA ArmType ==
    ASSUME TypeOK, NEW t \in Thread, Arm(t)
    PROVE  TypeOK'
<1>1. frame[t] \in Frame
  BY BusyFrame, TypeParts DEF Arm
<1>2. frame[t].req \in Request /\ frame[t].req.op = "set"
  BY <1>1, BusyFrame, TypeParts DEF Arm, SvcTypeOK, ControlOK, Frame
<1>3. frame[t].req.key \in Key /\ frame[t].exp \in Expiry
  BY <1>1, <1>2 DEF Request, Frame
<1>4. TtlTypeOK'
  BY <1>3, HeapAddType, TypeParts DEF Arm, TtlTypeOK
<1>5. SvcTypeOK'
  BY ReturnType, TypeParts DEF Arm, SvcTypeOK, statVars, snapVars
<1> QED
  BY <1>4, <1>5, TypeParts, MapUnchangedType, AofUnchangedType,
     RdbUnchangedType DEF Arm, mapVars, MapTypeOK

\* hits and misses stay natural numbers.
LEMMA ReadType ==
    ASSUME TypeOK, NEW t \in Thread, Read(t)
    PROVE  TypeOK'
<1>1. hits' \in Nat /\ misses' \in Nat
  BY TypeParts DEF Read, SvcTypeOK
<1>2. SvcTypeOK'
  BY <1>1, ReturnType, TypeParts DEF Read, SvcTypeOK, snapVars
<1> QED
  BY <1>2, QuietType, TypeParts, RdbUnchangedType DEF Read

-----------------------------------------------------------------------------
(* Snapshots *)

\* A worker that moves on inside a snapshot, its frame untouched.
LEMMA MoveType ==
    ASSUME SvcTypeOK, NEW p \in Worker, pc[p] # "idle" \/ p = Loop,
           NEW l \in {"auto", "last", "rules", "lock", "save", "reset"}, Goto(p, l),
           UNCHANGED frame
    PROVE  /\ pc' \in [Worker -> Ctl]
           /\ frame' \in [Thread -> Frame \cup {None}]
           /\ ControlOK'
<1>1. pc' \in [Worker -> Ctl]
  BY DEF SvcTypeOK, Goto, Ctl
<1>2. ControlOK'
  BY RdbAssumption DEF SvcTypeOK, ControlOK, Goto
<1> QED
  BY <1>1, <1>2 DEF SvcTypeOK

\* Every step of maybeAutoSnapshot and Snapshot keeps the types.
LEMMA SnapStepType ==
    ASSUME TypeOK, NEW p \in Worker, SnapStep(p)
    PROVE  TypeOK'
<1>0. SvcTypeOK /\ RdbTypeOK /\ MapTypeOK /\ p \in Saver
  BY TypeParts
<1>1. CASE AutoClock(p) \/ AutoAge(p)
  <2>1. age' \in [Worker -> Int]
    BY <1>0, <1>1 DEF AutoClock, AutoAge, SvcTypeOK, MapTypeOK
  <2>2. SvcTypeOK'
    BY <1>0, <1>1, <2>1, MoveType DEF AutoClock, AutoAge, SvcTypeOK, statVars
  <2> QED
    BY <1>0, <1>1, <2>2, QuietType, RdbUnchangedType DEF AutoClock, AutoAge
<1>2. CASE AutoRules(p)
  <2>1. age' \in [Worker -> Int]
    BY <1>0, <1>2 DEF AutoRules, SvcTypeOK
  <2>2. /\ pc' \in [Worker -> Ctl]
        /\ frame' \in [Thread -> Frame \cup {None}]
        /\ ControlOK'
    BY <1>0, <1>2, MoveType, ResumeType DEF AutoRules
  <2>3. SvcTypeOK'
    BY <1>0, <1>2, <2>1, <2>2 DEF AutoRules, SvcTypeOK, statVars
  <2> QED
    BY <1>0, <1>2, <2>3, QuietType, RdbUnchangedType DEF AutoRules
<1>3. CASE SnapLock(p)
  <2>1. SvcTypeOK'
    BY <1>0, <1>3, MoveType DEF SnapLock, SvcTypeOK, statVars
  <2>2. RdbTypeOK'
    BY <1>0, <1>3, SaverAtType DEF SnapLock, RdbTypeOK, SaverState
  <2> QED
    BY <1>3, <2>1, <2>2, QuietType DEF SnapLock
<1>4. CASE SnapSave(p)
  <2>1. SvcTypeOK'
    BY <1>0, <1>4 DEF SnapSave, svcVars, statVars, snapVars, SvcTypeOK,
                      ControlOK
  <2>2. RdbTypeOK'
    BY <1>0, <1>4, SaveStepType DEF SnapSave
  <2> QED
    BY <1>4, <2>1, <2>2, QuietType DEF SnapSave
<1>5. CASE SnapSaved(p)
  <2>1. SvcTypeOK'
    BY <1>0, <1>5, MoveType DEF SnapSaved, SvcTypeOK, statVars, MapTypeOK
  <2>2. RdbTypeOK'
    BY <1>0, <1>5, SaverAtType DEF SnapSaved, RdbTypeOK, SaverState
  <2> QED
    BY <1>5, <2>1, <2>2, QuietType DEF SnapSaved
<1>6. CASE SnapFailed(p)
  <2>1. SvcTypeOK'
    BY <1>0, <1>6, ResumeType DEF SnapFailed, SvcTypeOK, statVars
  <2>2. RdbTypeOK'
    BY <1>0, <1>6, SaverAtType DEF SnapFailed, RdbTypeOK, SaverState
  <2> QED
    BY <1>6, <2>1, <2>2, QuietType DEF SnapFailed
<1>7. CASE SnapReset(p)
  <2>1. SvcTypeOK'
    BY <1>0, <1>7, ResumeType DEF SnapReset, SvcTypeOK, statVars
  <2> QED
    BY <1>0, <1>7, <2>1, QuietType, RdbUnchangedType DEF SnapReset
<1> QED
  BY <1>1, <1>2, <1>3, <1>4, <1>5, <1>6, <1>7 DEF SnapStep

\* So does a tick of the loop.
LEMMA LoopTickType ==
    ASSUME TypeOK, LoopTick
    PROVE  TypeOK'
<1>1. SvcTypeOK'
  BY TypeParts, MoveType DEF LoopTick, SvcTypeOK, statVars, snapVars
<1> QED
  BY <1>1, TypeParts, QuietType, RdbUnchangedType DEF LoopTick

-----------------------------------------------------------------------------
(* The goroutines that serve no request *)

\* A step that leaves the service's own variables alone keeps their type.
LEMMA SvcUnchangedType ==
    ASSUME SvcTypeOK, UNCHANGED svcVars
    PROVE  SvcTypeOK'
  BY DEF SvcTypeOK, ControlOK, svcVars, statVars, snapVars

\* The TTL goroutine keeps the types, onExpire included.
LEMMA TtlGoroutineType ==
    ASSUME TypeOK, TtlGoroutine
    PROVE  TypeOK'
<1>1. CASE TtlStep /\ UNCHANGED <<mapVars, now, aofVars, rdbVars, svcVars>>
  BY <1>1, TypeParts, TtlStepType, SvcUnchangedType, MapUnchangedType,
     AofUnchangedType, RdbUnchangedType DEF mapVars, MapTypeOK
<1>2. CASE Expire
  <2>1. tmItem \in Item /\ tmItem[1] \in Key
    BY <1>2, TypeParts DEF Expire, TtlTypeOK, Item
  <2>2. MapTypeOK' /\ DeleteDelta(tmItem[1]) \in Int
    BY <1>2, <2>1, TypeParts, MapDeleteType, DeleteDeltaType DEF Expire
  <2>3. SvcTypeOK'
    BY <1>2, <2>2, TypeParts
       DEF Expire, SvcTypeOK, ControlOK, statVars, snapVars
  <2>4. TtlTypeOK'
    BY <1>2, <2>1, TypeParts DEF Expire, TtlTypeOK
  <2> QED
    BY <1>2, <2>2, <2>3, <2>4, TypeParts, AofUnchangedType, RdbUnchangedType
       DEF Expire
<1>3. CASE ExpireAccount
  <2>1. SvcTypeOK'
    BY <1>3, TypeParts
       DEF ExpireAccount, SvcTypeOK, ControlOK, statVars, snapVars
  <2>2. TtlTypeOK'
    BY <1>3, TypeParts DEF ExpireAccount, TtlTypeOK
  <2> QED
    BY <1>3, <2>1, <2>2, TypeParts, MapUnchangedType, AofUnchangedType,
       RdbUnchangedType DEF ExpireAccount, mapVars, MapTypeOK
<1> QED
  BY <1>1, <1>2, <1>3 DEF TtlGoroutine

\* So does the rewriter,
LEMMA RewriterType ==
    ASSUME TypeOK, Rewriter
    PROVE  TypeOK'
  BY TypeParts, RwStepType, SvcUnchangedType, MapUnchangedType,
     TtlUnchangedType, RdbUnchangedType DEF Rewriter, mapVars, MapTypeOK

\* and the clock, within its bound,
LEMMA TickType ==
    ASSUME TypeOK, Tick
    PROVE  TypeOK'
<1>1. now' \in Time
  BY TypeParts, MapAssumption DEF Tick, MapTypeOK
<1> QED
  BY <1>1, TypeParts, SvcUnchangedType, MapUnchangedType, TtlUnchangedType,
     AofUnchangedType, RdbUnchangedType DEF Tick, mapVars

\* and a step in which nothing happens.
LEMMA StutterType ==
    ASSUME TypeOK, UNCHANGED vars
    PROVE  TypeOK'
  BY TypeParts, SvcUnchangedType, MapUnchangedType, TtlUnchangedType,
     AofUnchangedType, RdbUnchangedType DEF vars, mapVars, MapTypeOK

\* The initial state is well typed.
LEMMA InitType == Init => TypeOK
<1> SUFFICES ASSUME Init PROVE TypeOK
  OBVIOUS
<1>0. now = 0 /\ 0 \in Time /\ 0 \in Nat /\ <<>> \in Seq(Line)
  BY MapAssumption DEF Init
<1>1. MapTypeOK
  BY <1>0 DEF Init, MapInit, MapTypeOK, Slot
<1>2. TtlTypeOK
  BY DEF Init, TtlInit, TtlTypeOK
<1>3. AofTypeOK
  <2>1. EmptyFile \in File
    BY <1>0 DEF EmptyFile, File
  <2>2. AofEnabled \in BOOLEAN
    BY ServiceAssumption
  <2> QED
    BY <1>0, <2>1, <2>2, RwIdleType, AofAssumption
       DEF Init, AofFresh, AofTypeOK
<1>4. RdbTypeOK
  BY SaverOffType DEF Init, RdbInit, RdbTypeOK, SaverState
<1>5. SvcTypeOK
  <2>1. pc = [p \in Worker |-> "idle"] /\ frame = [u \in Thread |-> None]
    BY DEF Init, SvcFresh
  <2>2. ControlOK
    BY <2>1 DEF ControlOK
  <2> QED
    BY <1>0, <2>1, <2>2 DEF Init, SvcFresh, SvcTypeOK, Ctl
<1> QED
  BY <1>1, <1>2, <1>3, <1>4, <1>5, TypeParts

\* TypeOK is inductive.
LEMMA NextType ==
    ASSUME TypeOK, [Next]_vars
    PROVE  TypeOK'
<1>1. ASSUME NEW t \in Thread, Begin(t) PROVE TypeOK'
  BY <1>1, BeginType
<1>2. ASSUME NEW t \in Thread, Handler(t) PROVE TypeOK'
  BY <1>2, RecordType, CheckType, StoreType, RemoveType, AccountType,
     LogLineType, CountType, ArmType, ReadType, SnapStepType DEF Handler
<1>3. CASE LoopTick
  BY <1>3, LoopTickType
<1>4. CASE SnapStep(Loop)
  BY <1>4, SnapStepType
<1>5. CASE TtlGoroutine \/ Rewriter \/ Tick
  BY <1>5, TtlGoroutineType, RewriterType, TickType
<1>6. CASE UNCHANGED vars
  BY <1>6, StutterType
<1> QED
  BY <1>1, <1>2, <1>3, <1>4, <1>5, <1>6 DEF Next, Run

\* Whatever the goroutines do, and in whatever order, every variable keeps its
\* type, every handler has the request its program point presumes, an open
\* AOF handle has a file, and a running rewrite its temporary file.
THEOREM TypeCorrect == Spec => []TypeOK
<1>1. Init => TypeOK
  BY InitType
<1>2. TypeOK /\ [Next]_vars => TypeOK'
  BY NextType
<1> QED
  BY <1>1, <1>2, PTL DEF Spec

-----------------------------------------------------------------------------
(* Deadlines: Armed is inductive once TypeOK is known.  The token that      *)
(* reaches an entry is with the handler that stored it (Owes), then in the  *)
(* heap, then with the goroutine that popped it; one lemma for each hand.   *)

\* The handlers other than t owe what they owed.
LEMMA OthersOwe ==
    ASSUME SvcTypeOK, NEW t \in Thread, NEW u \in Thread, u # t,
           NEW l, Goto(t, l), NEW f,
           frame' = [frame EXCEPT ![t] = f] \/ UNCHANGED frame, NEW i
    PROVE  Owes(u, i)' <=> Owes(u, i)
  BY DEF SvcTypeOK, Goto, Owes

\* A step of one handler that forgets no deadline of its own.
LEMMA HandlerKeeps ==
    ASSUME AllArmed, SvcTypeOK, NEW t \in Thread, NEW l, Goto(t, l), NEW f,
           frame' = [frame EXCEPT ![t] = f] \/ UNCHANGED frame,
           UNCHANGED <<items, heap, tmPc, tmItem>>,
           \A i \in Item : Owes(t, i) => Owes(t, i)'
    PROVE  AllArmed'
<1>1. \A u \in Thread, i \in Item : Owes(u, i) => Owes(u, i)'
  BY OthersOwe
<1>2. Deadlines \subseteq Deadlines'
  BY <1>1 DEF Deadlines, InHeap
<1> QED
  BY <1>2 DEF AllArmed

\* The points at which a handler that set a TTL has not handed it over yet.
Owing == {"account", "append", "count", "auto", "last", "rules", "lock", "save",
          "reset", "arm"}

\* A handler that owes and moves on to another owing point.
LEMMA OwesOn ==
    ASSUME SvcTypeOK, NEW t \in Thread, NEW l \in Owing, Goto(t, l),
           UNCHANGED frame, NEW i, Owes(t, i)
    PROVE  Owes(t, i)'
  BY DEF SvcTypeOK, Goto, Owes, Owing

\* Resume goes to "arm" whenever something is owed.
LEMMA ResumeKeeps ==
    ASSUME AllArmed, SvcTypeOK, NEW p \in Worker, Resume(p),
           UNCHANGED <<items, heap, tmPc, tmItem>>
    PROVE  AllArmed'
<1>1. CASE p = Loop
  <2>1. \A u \in Thread, i \in Item : Owes(u, i) => Owes(u, i)'
    BY <1>1, RdbAssumption DEF Resume, Goto, SvcTypeOK, Owes
  <2>2. Deadlines \subseteq Deadlines'
    BY <2>1 DEF Deadlines, InHeap
  <2> QED
    BY <2>2 DEF AllArmed
<1>2. CASE p # Loop /\ frame[p].exp > 0
  <2>1. p \in Thread /\ Goto(p, "arm") /\ UNCHANGED frame
    BY <1>2 DEF Resume
  <2>2. \A i \in Item : Owes(p, i) => Owes(p, i)'
    BY <2>1, OwesOn DEF Owing
  <2> QED
    BY <2>1, <2>2, HandlerKeeps
<1>3. CASE p # Loop /\ ~(frame[p].exp > 0)
  <2>1. p \in Thread /\ Goto(p, "idle") /\ frame' = [frame EXCEPT ![p] = None]
    BY <1>3 DEF Resume, Return
  <2>2. \A i \in Item : ~Owes(p, i)
    BY <1>3 DEF Owes
  <2> QED
    BY <2>1, <2>2, HandlerKeeps
<1> QED
  BY <1>1, <1>2, <1>3

\* storage.Set: the handler that stored the entry now owes its deadline.
LEMMA StoreArms ==
    ASSUME AllArmed, TypeOK, NEW t \in Thread, Store(t)
    PROVE  AllArmed'
<1> DEFINE r == frame[t].req
           d == SetDelta(r.key, r.val)
<1>0. SvcTypeOK
  BY TypeParts
<1>1. /\ frame[t] \in Frame /\ frame[t] # None
      /\ r.op = "set" /\ r.key \in Key /\ frame[t].exp \in Expiry
  BY <1>0, BusyFrame DEF Store, SvcTypeOK, ControlOK, Frame, Request
<1>2. /\ items' = [items EXCEPT ![r.key] = [val |-> r.val,
                                           exp |-> frame[t].exp]]
      /\ frame' = [frame EXCEPT ![t] = [frame[t] EXCEPT !.delta = d]]
      /\ Goto(t, "account")
      /\ UNCHANGED <<heap, tmPc, tmItem>>
  BY DEF Store, MapSet, ttlVars
<1>3. /\ frame'[t] # None /\ frame'[t].req = r /\ frame'[t].exp = frame[t].exp
      /\ pc'[t] = "account"
  <2>1. [frame[t] EXCEPT !.delta = d].req = r
        /\ [frame[t] EXCEPT !.delta = d].exp = frame[t].exp
    BY <1>1 DEF Frame
  <2>2. [frame[t] EXCEPT !.delta = d] \in Frame
    BY <1>1, TypeParts, SetDeltaType DEF Frame, Request
  <2>3. [frame[t] EXCEPT !.delta = d] # None
    BY <2>2, ServiceAssumption
  <2> HIDE DEF d
  <2> QED
    BY <1>0, <1>2, <2>1, <2>3 DEF SvcTypeOK, Goto
<1>4. Deadlines \subseteq Deadlines'
  <2>1. \A i \in Item : ~Owes(t, i)
    BY DEF Store, Owes
  <2>2. \A u \in Thread, i \in Item : Owes(u, i) => Owes(u, i)'
    <3> HIDE DEF d
    <3> QED
      BY <1>0, <1>2, <2>1, OthersOwe
  <2> QED
    BY <1>2, <2>2 DEF Deadlines, InHeap
<1>5. ASSUME NEW k \in Key, items'[k] # None, items'[k].exp > 0
      PROVE  <<k, items'[k].exp>> \in Deadlines'
  <2>1. CASE k = r.key
    <3>1. items'[k].exp = frame[t].exp
      BY <1>1, <1>2, <2>1, TypeParts DEF MapTypeOK
    <3>2. PICK own \in Item : own = <<r.key, frame[t].exp>>
      BY <1>1 DEF Item
    <3>3. own[2] > 0 /\ own = <<frame'[t].req.key, frame'[t].exp>>
      BY <1>3, <1>5, <3>1, <3>2
    <3>4. Owes(t, own)'
      BY <1>1, <1>3, <3>3 DEF Owes
    <3>5. own \in Deadlines'
      BY <3>4 DEF Deadlines
    <3> QED
      BY <2>1, <3>1, <3>2, <3>5
  <2>2. CASE k # r.key
    BY <1>2, <1>4, <1>5, <2>2, TypeParts DEF AllArmed, MapTypeOK
  <2> QED
    BY <2>1, <2>2
<1> QED
  BY <1>5 DEF AllArmed

\* storage.Delete: every other entry keeps its deadline.
LEMMA RemoveArms ==
    ASSUME AllArmed, TypeOK, NEW t \in Thread, Remove(t)
    PROVE  AllArmed'
<1> DEFINE r == frame[t].req
           d == DeleteDelta(r.key)
<1>0. SvcTypeOK
  BY TypeParts
<1>1. /\ items' = [items EXCEPT ![r.key] = None]
      /\ frame' = [frame EXCEPT ![t] = [frame[t] EXCEPT !.delta = d]]
      /\ Goto(t, "account")
      /\ UNCHANGED <<heap, tmPc, tmItem>>
  BY DEF Remove, MapDelete, ttlVars
<1>2. \A i \in Item : ~Owes(t, i)
  BY DEF Remove, Owes
<1>3. \A u \in Thread, i \in Item : Owes(u, i) => Owes(u, i)'
  <2> HIDE DEF d
  <2> QED
    BY <1>0, <1>1, <1>2, OthersOwe
<1>4. Deadlines \subseteq Deadlines'
  BY <1>1, <1>3 DEF Deadlines, InHeap
<1> QED
  BY <1>1, <1>4, TypeParts DEF AllArmed, MapTypeOK

\* ttlMgr.Add: what the handler owed is in the heap.
LEMMA ArmArms ==
    ASSUME AllArmed, TypeOK, ~ttlStopped, NEW t \in Thread, Arm(t)
    PROVE  AllArmed'
<1> DEFINE own == <<frame[t].req.key, frame[t].exp>>
<1>0. SvcTypeOK /\ TtlTypeOK
  BY TypeParts
<1>1. /\ heap' = [heap EXCEPT ![own] = @ + 1]
      /\ Goto(t, "idle") /\ frame' = [frame EXCEPT ![t] = None]
      /\ UNCHANGED <<items, tmPc, tmItem>>
  BY DEF Arm, HeapAdd, Return, mapVars
<1>2. ASSUME NEW i \in Item, i \in Deadlines
      PROVE  i \in Deadlines'
  <2>1. CASE InHeap(i)
    BY <1>0, <1>1, <2>1 DEF InHeap, TtlTypeOK, Deadlines
  <2>2. CASE tmPc = "expire" /\ tmItem = i
    BY <1>1, <2>2 DEF Deadlines
  <2>3. CASE Owes(t, i)
    <3>1. i = own
      BY <2>3 DEF Owes
    <3>2. heap[i] \in Nat /\ heap'[i] = heap[i] + 1
      BY <1>0, <1>1, <3>1 DEF TtlTypeOK
    <3> QED
      BY <3>2 DEF Deadlines, InHeap
  <2>4. ASSUME NEW u \in Thread, u # t, Owes(u, i)
        PROVE  i \in Deadlines'
    <3>1. Owes(u, i)'
      BY <1>0, <1>1, <2>4, OthersOwe
    <3> QED
      BY <3>1 DEF Deadlines
  <2> QED
    BY <1>2, <2>1, <2>2, <2>3, <2>4 DEF Deadlines
<1>3. Deadlines \subseteq Item
  BY DEF Deadlines
<1> QED
  BY <1>1, <1>2, <1>3 DEF AllArmed

\* A worker that moves on to another point of a snapshot.
LEMMA MoveKeeps ==
    ASSUME AllArmed, SvcTypeOK, NEW p \in Worker, NEW l \in Owing, Goto(p, l),
           UNCHANGED <<frame, items, heap, tmPc, tmItem>>
    PROVE  AllArmed'
<1>1. CASE p = Loop
  <2>1. \A u \in Thread, i \in Item : Owes(u, i) => Owes(u, i)'
    BY <1>1, RdbAssumption DEF Goto, SvcTypeOK, Owes
  <2>2. Deadlines \subseteq Deadlines'
    BY <2>1 DEF Deadlines, InHeap
  <2> QED
    BY <2>2 DEF AllArmed
<1>2. CASE p # Loop
  <2>1. p \in Thread
    BY <1>2
  <2> QED
    BY <2>1, OwesOn, HandlerKeeps
<1> QED
  BY <1>1, <1>2

\* A snapshot, of a handler or of the loop, forgets no deadline.
LEMMA SnapArms ==
    ASSUME AllArmed, TypeOK, NEW p \in Worker, SnapStep(p)
    PROVE  AllArmed'
<1>0. SvcTypeOK
  BY TypeParts
<1>1. UNCHANGED <<items, heap, tmPc, tmItem>>
  BY DEF SnapStep, AutoClock, AutoAge, AutoRules, SnapLock, SnapSave, SnapSaved,
         SnapFailed, SnapReset, mapVars, ttlVars
<1>2. \/ UNCHANGED <<pc, frame>>
      \/ UNCHANGED frame /\ \E l \in Owing : Goto(p, l)
      \/ Resume(p)
  <2>1. CASE AutoClock(p) \/ AutoAge(p)
    BY <2>1 DEF AutoClock, AutoAge, Owing
  <2>2. CASE AutoRules(p)
    BY <2>2 DEF AutoRules, Owing
  <2>3. CASE SnapLock(p)
    BY <2>3 DEF SnapLock, Owing
  <2>4. CASE SnapSave(p)
    BY <2>4 DEF SnapSave, svcVars
  <2>5. CASE SnapSaved(p)
    BY <2>5 DEF SnapSaved, Owing
  <2>6. CASE SnapFailed(p)
    BY <2>6 DEF SnapFailed
  <2>7. CASE SnapReset(p)
    BY <2>7 DEF SnapReset
  <2> QED
    BY <2>1, <2>2, <2>3, <2>4, <2>5, <2>6, <2>7 DEF SnapStep
<1>3. CASE UNCHANGED <<pc, frame>>
  BY <1>1, <1>3 DEF AllArmed, Deadlines, InHeap, Owes
<1> QED
  BY <1>0, <1>1, <1>2, <1>3, MoveKeeps, ResumeKeeps

\* Every step of a handler, while the disk works and the manager runs.
LEMMA HandlerArms ==
    ASSUME AllArmed, TypeOK, ~IoFaults, ~ttlStopped, NEW t \in Thread,
           Handler(t)
    PROVE  AllArmed'
<1>0. SvcTypeOK
  BY TypeParts
<1>1. CASE Record(t) \/ Check(t) \/ Read(t)
  <2>1. \A i \in Item : ~Owes(t, i)
    BY <1>1 DEF Record, Check, Read, Owes
  <2>2. UNCHANGED <<items, heap, tmPc, tmItem>>
    BY <1>1 DEF Record, Check, Read, mapVars, ttlVars
  <2>3. \E l, f : /\ Goto(t, l)
                  /\ frame' = [frame EXCEPT ![t] = f] \/ UNCHANGED frame
    <3>1. CASE Record(t)
      BY <3>1 DEF Record, Return
    <3>2. CASE Check(t)
      BY <3>2 DEF Check, Return
    <3>3. CASE Read(t)
      BY <3>3 DEF Read, Return
    <3> QED
      BY <1>1, <3>1, <3>2, <3>3
  <2> QED
    BY <1>0, <2>1, <2>2, <2>3, HandlerKeeps
<1>2. CASE Store(t)
  BY <1>2, StoreArms
<1>3. CASE Remove(t)
  BY <1>3, RemoveArms
<1>4. CASE Account(t)
  <2> DEFINE f == [frame[t] EXCEPT !.delta = 0]
  <2>1. /\ frame' = [frame EXCEPT ![t] = f]
        /\ UNCHANGED <<items, heap, tmPc, tmItem>>
    BY <1>4 DEF Account, mapVars, ttlVars
  <2>2. PICK l \in {"append", "count"} : Goto(t, l)
    BY <1>4 DEF Account
  <2>3. frame[t] \in Frame /\ f \in Frame /\ f # None
    BY <1>0, <1>4, BusyFrame, ServiceAssumption DEF Account, Frame
  <2>4. f.req = frame[t].req /\ f.exp = frame[t].exp
    BY <2>3 DEF Frame
  <2>5. ASSUME NEW i \in Item, Owes(t, i) PROVE Owes(t, i)'
    <3> HIDE DEF f
    <3>1. frame'[t] = f /\ pc'[t] = l
      BY <1>0, <2>1, <2>2 DEF SvcTypeOK, Goto
    <3> QED
      BY <2>2, <2>3, <2>4, <2>5, <3>1 DEF Owes
  <2> HIDE DEF f
  <2> QED
    BY <1>0, <2>1, <2>2, <2>5, HandlerKeeps
<1>5. CASE LogLine(t)
  <2>1. Goto(t, "count") /\ UNCHANGED frame
        /\ UNCHANGED <<items, heap, tmPc, tmItem>>
    BY <1>5 DEF LogLine, AppendFails, mapVars, ttlVars
  <2> QED
    BY <1>0, <2>1, OwesOn, HandlerKeeps DEF Owing
<1>6. CASE Count(t)
  <2>1. UNCHANGED <<items, heap, tmPc, tmItem>>
    BY <1>6 DEF Count, mapVars, ttlVars
  <2>2. CASE Goto(t, "auto") /\ UNCHANGED frame
    BY <1>0, <2>1, <2>2, OwesOn, HandlerKeeps DEF Owing
  <2>3. CASE Resume(t)
    BY <1>0, <2>1, <2>3, ResumeKeeps
  <2> QED
    BY <1>6, <2>2, <2>3 DEF Count
<1>7. CASE Arm(t)
  BY <1>7, ArmArms
<1>8. CASE SnapStep(t)
  BY <1>8, SnapArms
<1> QED
  BY <1>1, <1>2, <1>3, <1>4, <1>5, <1>6, <1>7, <1>8 DEF Handler

\* The TTL goroutine: what it pops it holds, what it expires it removes.
LEMMA TtlArms ==
    ASSUME AllArmed, TypeOK, TtlGoroutine
    PROVE  AllArmed'
<1>0. TtlTypeOK /\ MapTypeOK
  BY TypeParts
<1>1. \A u \in Thread, i \in Item : Owes(u, i)' <=> Owes(u, i)
  BY DEF TtlGoroutine, Expire, ExpireAccount, svcVars, Owes
<1>2. CASE TtlStep /\ UNCHANGED <<mapVars, now, aofVars, rdbVars, svcVars>>
  <2>1. items' = items
    BY <1>2 DEF mapVars
  <2>2. CASE TtlPop
    <3>1. PICK i \in Item : /\ HeapTop(i)
                            /\ heap' = [heap EXCEPT ![i] = @ - 1]
                            /\ tmItem' = i
      BY <2>2 DEF TtlPop
    <3>2. tmPc = "loop" /\ tmPc' = "expire"
      BY <2>2 DEF TtlPop
    <3>3. ASSUME NEW j \in Item, j \in Deadlines
          PROVE  j \in Deadlines'
      <4>1. CASE j = i
        BY <3>1, <3>2, <4>1 DEF Deadlines
      <4>2. CASE j # i
        <5>1. heap'[j] = heap[j]
          BY <1>0, <3>1, <4>2 DEF TtlTypeOK
        <5> QED
          BY <1>1, <3>2, <3>3, <5>1 DEF Deadlines, InHeap
      <4> QED
        BY <4>1, <4>2
    <3>4. Deadlines \subseteq Item
      BY DEF Deadlines
    <3> QED
      BY <2>1, <3>3, <3>4 DEF AllArmed
  <2>3. CASE TtlSleep \/ TtlWake \/ TtlWait \/ TtlTimer \/ TtlExit
    <3>1. heap' = heap /\ tmPc # "expire"
      BY <2>3 DEF TtlSleep, TtlWake, TtlWait, TtlTimer, TtlExit
    <3>2. Deadlines \subseteq Deadlines'
      BY <1>1, <3>1 DEF Deadlines, InHeap
    <3> QED
      BY <2>1, <3>2 DEF AllArmed
  <2> QED
    BY <1>2, <2>2, <2>3 DEF TtlStep
<1>3. CASE Expire
  <2>1. items' = [items EXCEPT ![tmItem[1]] = None] /\ heap' = heap
    BY <1>3 DEF Expire, MapDelete
  <2>2. ASSUME NEW k \in Key, items'[k] # None, items'[k].exp > 0
        PROVE  <<k, items'[k].exp>> \in Deadlines'
    <3> DEFINE i == <<k, items[k].exp>>
    <3>1. k # tmItem[1] /\ items'[k] = items[k]
      BY <1>0, <2>1, <2>2 DEF MapTypeOK
    <3>2. i \in Deadlines /\ tmItem # i
      BY <2>2, <3>1 DEF AllArmed
    <3>3. i \in Deadlines'
      <4> HIDE DEF i
      <4> QED
        BY <1>1, <2>1, <3>2 DEF Deadlines, InHeap
    <3> QED
      BY <3>1, <3>3
  <2> QED
    BY <2>2 DEF AllArmed
<1>4. CASE ExpireAccount
  <2>1. heap' = heap /\ items' = items /\ tmPc # "expire"
    BY <1>4 DEF ExpireAccount, mapVars
  <2>2. Deadlines \subseteq Deadlines'
    BY <1>1, <2>1 DEF Deadlines, InHeap
  <2> QED
    BY <2>1, <2>2 DEF AllArmed
<1> QED
  BY <1>2, <1>3, <1>4 DEF TtlGoroutine

\* An idle goroutine owed nothing.
LEMMA BeginArms ==
    ASSUME AllArmed, TypeOK, NEW t \in Thread, Begin(t)
    PROVE  AllArmed'
<1>1. \A i \in Item : ~Owes(t, i)
  BY DEF Begin, Owes
<1>2. \E l, f : Goto(t, l) /\ frame' = [frame EXCEPT ![t] = f]
  BY DEF Begin
<1>3. UNCHANGED <<items, heap, tmPc, tmItem>>
  BY DEF Begin, mapVars, ttlVars
<1> QED
  BY <1>1, <1>2, <1>3, TypeParts, HandlerKeeps

\* Nothing in this module stops the manager.
LEMMA NeverStopped ==
    ASSUME [Next]_vars
    PROVE  ttlStopped' = ttlStopped
<1>1. CASE TtlGoroutine
  BY <1>1 DEF TtlGoroutine, TtlStep, TtlSleep, TtlWake, TtlWait, TtlTimer,
              TtlPop, TtlExit, Expire, ExpireAccount
<1>2. ASSUME NEW p \in Worker, SnapStep(p) PROVE ttlStopped' = ttlStopped
  BY <1>2 DEF SnapStep, AutoClock, AutoAge, AutoRules, SnapLock, SnapSave, SnapSaved,
              SnapFailed, SnapReset, ttlVars
<1>3. ASSUME NEW t \in Thread, Handler(t) PROVE ttlStopped' = ttlStopped
  BY <1>2, <1>3 DEF Handler, Record, Check, Store, Remove, Account, LogLine,
                    Count, Arm, Read, ttlVars
<1>4. ASSUME NEW t \in Thread, Begin(t) PROVE ttlStopped' = ttlStopped
  BY <1>4 DEF Begin, ttlVars
<1>5. CASE Rewriter \/ Tick \/ LoopTick \/ UNCHANGED vars
  BY <1>5 DEF Rewriter, Tick, LoopTick, vars, ttlVars
<1> QED
  BY <1>1, <1>2, <1>3, <1>4, <1>5 DEF Next, Run

\* Armed is inductive, given TypeOK.
LEMMA NextArms ==
    ASSUME Armed, TypeOK, [Next]_vars
    PROVE  Armed'
<1> SUFFICES ASSUME ~IoFaults, ~ttlStopped
             PROVE  AllArmed'
  BY NeverStopped DEF Armed
<1>0. AllArmed /\ SvcTypeOK
  BY TypeParts DEF Armed
<1>1. ASSUME NEW t \in Thread, Begin(t) PROVE AllArmed'
  BY <1>0, <1>1, BeginArms
<1>2. ASSUME NEW t \in Thread, Handler(t) PROVE AllArmed'
  BY <1>0, <1>2, HandlerArms
<1>3. CASE LoopTick
  <2>1. Goto(Loop, "auto") /\ UNCHANGED <<frame, items, heap, tmPc, tmItem>>
    BY <1>3 DEF LoopTick, mapVars, ttlVars
  <2> QED
    BY <1>0, <2>1, MoveKeeps DEF Owing
<1>4. CASE SnapStep(Loop)
  BY <1>0, <1>4, SnapArms
<1>5. CASE TtlGoroutine
  BY <1>0, <1>5, TtlArms
<1>6. CASE Rewriter \/ Tick \/ UNCHANGED vars
  <2>1. UNCHANGED <<items, heap, tmPc, tmItem, pc, frame>>
    BY <1>6 DEF Rewriter, Tick, vars, mapVars, ttlVars, svcVars
  <2> QED
    BY <1>0, <2>1 DEF AllArmed, Deadlines, InHeap, Owes
<1> QED
  BY <1>1, <1>2, <1>3, <1>4, <1>5, <1>6 DEF Next, Run

\* While the disk works, every entry with an expiry has a deadline on its way
\* to it at every moment: in the hands of the Set that stored it, in the heap,
\* or with the goroutine that popped it (service.go:168-182, ttl_heap.go).
THEOREM DeadlinesArmed == Spec => []Armed
<1>1. Init => Armed
  BY DEF Init, MapInit, Armed, AllArmed
<1>2. TypeOK /\ Armed /\ [Next]_vars => Armed'
  BY NextArms
<1> QED
  BY <1>1, <1>2, TypeCorrect, PTL DEF Spec

-----------------------------------------------------------------------------
(* Snapshots, for any save rules and a disk that may fail: Save, which has  *)
(* no lock of its own, is only ever run by the holder of snapshotMu.        *)
(* SnapshotExclusive is inductive, given TypeOK.                            *)

\* The points at which a goroutine holds snapshotMu.
Holding == {"save", "reset"}

\* A step outside Save, by a goroutine that neither takes nor gives back the
\* mutex, keeps the invariant.
LEMMA OutsideKeeps ==
    ASSUME SnapshotExclusive, UNCHANGED <<rdbVars, snapMu>>,
           \A p \in Worker : \/ pc'[p] = pc[p]
                             \/ pc[p] \notin Holding /\ pc'[p] \notin Holding
    PROVE  SnapshotExclusive'
<1>1. rdb' = rdb /\ rdbTmp' = rdbTmp /\ saver' = saver /\ snapMu' = snapMu
  BY DEF rdbVars
<1>2. \A p \in Worker : pc'[p] \in {"save", "reset"} <=> snapMu' = p
  BY <1>1 DEF SnapshotExclusive, Holding
<1>3. ASSUME NEW p \in Saver
      PROVE  /\ saver'[p].pc # "off" => p \in Worker /\ pc'[p] = "save"
             /\ saver'[p].fd = IF saver'[p].pc \in {"scan", "write"} THEN "tmp"
                                                                  ELSE "none"
             /\ saver'[p].pc \in {"remove", "rename"} => rdbTmp' # Blank
  BY <1>1 DEF SnapshotExclusive, Holding
<1> QED
  BY <1>1, <1>2, <1>3 DEF SnapshotExclusive, RdbFileWhole

\* Where Resume and Return lead, nobody holds the mutex.
LEMMA ResumeLetsGo ==
    ASSUME SvcTypeOK, NEW p \in Worker, Resume(p)
    PROVE  /\ pc'[p] \notin Holding
           /\ \A q \in Worker : q # p => pc'[q] = pc[q]
  BY DEF Resume, Return, Goto, SvcTypeOK, Holding

\* The holder of the mutex is alone in Save.
LEMMA OthersOff ==
    ASSUME SnapshotExclusive, NEW p \in Worker, pc[p] \in Holding
    PROVE  \A q \in Saver : q # p => saver[q].pc = "off" /\ saver[q].fd = "none"
<1> SUFFICES ASSUME NEW q \in Saver, q # p
             PROVE  saver[q].pc = "off" /\ saver[q].fd = "none"
  OBVIOUS
<1>1. snapMu = p
  BY DEF SnapshotExclusive, Holding
<1>2. saver[q].pc = "off"
  BY <1>1 DEF SnapshotExclusive, Holding
<1> QED
  BY <1>2 DEF SnapshotExclusive

\* What one step of Save has to show for the saver that takes it.
LEMMA SaveKeeps ==
    ASSUME SnapshotExclusive, NEW p \in Worker, pc[p] = "save",
           UNCHANGED <<pc, snapMu>>, rdb' # Blank,
           \A q \in Saver : q # p => saver'[q] = saver[q],
           saver'[p].fd = IF saver'[p].pc \in {"scan", "write"} THEN "tmp"
                                                               ELSE "none",
           saver'[p].pc \in {"remove", "rename"} => rdbTmp' # Blank
    PROVE  SnapshotExclusive'
<1>1. \A q \in Saver : q # p => saver[q].pc = "off" /\ saver[q].fd = "none"
  BY OthersOff DEF Holding
<1>2. ASSUME NEW q \in Saver
      PROVE  /\ saver'[q].pc # "off" => q \in Worker /\ pc'[q] = "save"
             /\ saver'[q].fd = IF saver'[q].pc \in {"scan", "write"} THEN "tmp"
                                                                  ELSE "none"
             /\ saver'[q].pc \in {"remove", "rename"} => rdbTmp' # Blank
  BY <1>1
<1>3. \A q \in Worker : pc'[q] \in {"save", "reset"} <=> snapMu' = q
  BY DEF SnapshotExclusive
<1> QED
  BY <1>2, <1>3 DEF SnapshotExclusive, RdbFileWhole

\* Every step of Save, by the goroutine that holds the mutex.
LEMMA SaveStepExclusive ==
    ASSUME SnapshotExclusive, RdbTypeOK, NEW p \in Worker, pc[p] = "save",
           SaveStep(p), UNCHANGED <<pc, snapMu>>
    PROVE  SnapshotExclusive'
<1>0. /\ p \in Saver /\ saver[p] \in SaverState /\ rdb # Blank
      /\ saver[p].pc \in {"scan", "write"} => saver[p].fd = "tmp"
      /\ saver[p].pc \in {"remove", "rename"} => rdbTmp # Blank
      /\ saver[p].pc \notin {"scan", "write"} => saver[p].fd = "none"
      /\ saver \in [Saver -> SaverState]
  BY DEF SnapshotExclusive, RdbFileWhole, RdbTypeOK, SaverState
<1>7. \A q \in Saver : q # p => saver[q].pc = "off" /\ saver[q].fd = "none"
  BY OthersOff DEF Holding
<1>1. CASE RdbOpen(p)
  <2>1. saver'[p].pc = "scan" /\ saver'[p].fd = "tmp"
    BY <1>0, <1>1 DEF RdbOpen, SaverState
  <2>2. (\A q \in Saver : q # p => saver'[q] = saver[q]) /\ rdb' = rdb
    BY <1>0, <1>1 DEF RdbOpen
  <2> QED
    BY <1>0, <2>1, <2>2, SaveKeeps
<1>2. CASE RdbScan(p)
  <2>1. saver'[p].pc \in {"scan", "write"} /\ saver'[p].fd = "tmp"
    BY <1>0, <1>2 DEF RdbScan, SaverState
  <2>2. (\A q \in Saver : q # p => saver'[q] = saver[q]) /\ rdb' = rdb
    BY <1>0, <1>2 DEF RdbScan
  <2> QED
    BY <1>0, <2>1, <2>2, SaveKeeps
<1>3. CASE RdbWrite(p)
  <2>1. saver'[p].pc = "remove" /\ saver'[p].fd = "none"
    BY <1>0, <1>3 DEF RdbWrite, SaverAt, SaverOff
  <2>2. \A q \in Saver : q # p => saver'[q] = saver[q]
    BY <1>0, <1>3 DEF RdbWrite, SaverAt
  <2>3. rdb' = rdb /\ rdbTmp' # Blank
    BY <1>0, <1>3, RdbAssumption DEF RdbWrite, SaverState
  <2> QED
    BY <1>0, <2>1, <2>2, <2>3, SaveKeeps
<1>4. CASE RdbRemove(p)
  <2>1. saver'[p].pc = "rename" /\ saver'[p].fd = "none"
    BY <1>0, <1>4 DEF RdbRemove, SaverState
  <2>2. \A q \in Saver : q # p => saver'[q] = saver[q]
    BY <1>0, <1>4, <1>7 DEF RdbRemove
  <2>3. rdb' # Blank /\ rdbTmp' # Blank
    BY <1>0, <1>4, RdbAssumption DEF RdbRemove
  <2> QED
    BY <1>0, <2>1, <2>2, <2>3, SaveKeeps
<1>5. CASE RdbRename(p)
  <2>1. CASE rdbTmp = None
    <3>1. saver'[p].pc = "failed" /\ saver'[p].fd = "none" /\ rdb' = rdb
      BY <1>0, <1>5, <2>1 DEF RdbRename, SaverAt, SaverOff
    <3>2. \A q \in Saver : q # p => saver'[q] = saver[q]
      BY <1>0, <1>5, <2>1 DEF RdbRename, SaverAt
    <3> QED
      BY <1>0, <3>1, <3>2, SaveKeeps
  <2>2. CASE rdbTmp # None
    <3>1. saver'[p].pc = "ok" /\ saver'[p].fd = "none" /\ rdb' = rdbTmp
      BY <1>0, <1>5, <2>2 DEF RdbRename, SaverOff
    <3>2. \A q \in Saver : q # p => saver'[q] = saver[q]
      BY <1>0, <1>5, <1>7, <2>2 DEF RdbRename
    <3>3. rdb' # Blank
      BY <1>0, <1>5, <3>1 DEF RdbRename
    <3> QED
      BY <1>0, <3>1, <3>2, <3>3, SaveKeeps
  <2> QED
    BY <2>1, <2>2
<1>6. CASE RdbFault(p)
  <2>1. saver'[p].pc = "failed" /\ saver'[p].fd = "none"
    BY <1>0, <1>6 DEF RdbFault, SaverAt, SaverOff
  <2>2. \A q \in Saver : q # p => saver'[q] = saver[q]
    BY <1>0, <1>6 DEF RdbFault, SaverAt
  <2>3. rdb' = rdb
    BY <1>0, <1>6 DEF RdbFault
  <2> QED
    BY <1>0, <2>1, <2>2, <2>3, SaveKeeps
<1> QED
  BY <1>1, <1>2, <1>3, <1>4, <1>5, <1>6 DEF SaveStep

\* Every step of maybeAutoSnapshot and Snapshot: the mutex is taken when
\* everybody else is outside, and given back with the saver at rest.
LEMMA SnapStepExclusive ==
    ASSUME SnapshotExclusive, TypeOK, NEW p \in Worker, SnapStep(p)
    PROVE  SnapshotExclusive'
<1>0. SvcTypeOK /\ RdbTypeOK /\ p \in Saver /\ None \notin Worker
  BY TypeParts, ServiceAssumption
<1>1. CASE AutoClock(p) \/ AutoAge(p) \/ AutoRules(p)
  <2>1. pc[p] \notin Holding
    BY <1>1 DEF AutoClock, AutoAge, AutoRules, Holding
  <2>2. pc'[p] \notin Holding /\ \A q \in Worker : q # p => pc'[q] = pc[q]
    <3>1. CASE \E l \in {"last", "rules", "lock"} : Goto(p, l)
      BY <1>0, <3>1 DEF Goto, SvcTypeOK, Holding
    <3>2. CASE Resume(p)
      BY <1>0, <3>2, ResumeLetsGo
    <3> QED
      BY <1>1, <3>1, <3>2 DEF AutoClock, AutoAge, AutoRules
  <2>3. UNCHANGED <<rdbVars, snapMu>>
    BY <1>1 DEF AutoClock, AutoAge, AutoRules
  <2> QED
    BY <2>1, <2>2, <2>3, OutsideKeeps
<1>2. CASE SnapLock(p)
  <2>1. \A q \in Saver : saver[q].pc = "off" /\ saver[q].fd = "none"
    BY <1>0, <1>2 DEF SnapLock, SnapshotExclusive
  <2>2. /\ saver'[p].pc = "open" /\ saver'[p].fd = "none"
        /\ \A q \in Saver : q # p => saver'[q] = saver[q]
    BY <1>0, <1>2 DEF SnapLock, SaverAt, SaverOff, RdbTypeOK
  <2>3. /\ pc'[p] = "save" /\ snapMu' = p
        /\ \A q \in Worker : q # p => pc'[q] = pc[q]
    BY <1>0, <1>2 DEF SnapLock, Goto, SvcTypeOK
  <2>4. \A q \in Worker : pc'[q] \in {"save", "reset"} <=> snapMu' = q
    BY <1>0, <1>2, <2>3 DEF SnapLock, SnapshotExclusive
  <2>5. rdb' # Blank
    BY <1>2 DEF SnapLock, SnapshotExclusive, RdbFileWhole
  <2> QED
    BY <2>1, <2>2, <2>3, <2>4, <2>5 DEF SnapshotExclusive, RdbFileWhole
<1>3. CASE SnapSave(p)
  BY <1>0, <1>3, SaveStepExclusive DEF SnapSave, svcVars, snapVars
<1>4. CASE SnapSaved(p) \/ SnapFailed(p)
  <2>1. pc[p] = "save" /\ snapMu = p /\ rdb # Blank
    BY <1>4 DEF SnapSaved, SnapFailed, SnapshotExclusive, RdbFileWhole
  <2>2. \A q \in Saver : q # p => saver[q].pc = "off" /\ saver[q].fd = "none"
    BY <2>1, OthersOff DEF Holding
  <2>3. /\ saver'[p].pc = "off" /\ saver'[p].fd = "none"
        /\ \A q \in Saver : q # p => saver'[q] = saver[q]
    BY <1>0, <1>4 DEF SnapSaved, SnapFailed, SaverAt, SaverOff, RdbTypeOK
  <2>4. \A q \in Worker : q # p => pc'[q] = pc[q] /\ pc[q] \notin Holding
    <3>1. \A q \in Worker : q # p => pc[q] \notin Holding
      BY <2>1 DEF SnapshotExclusive, Holding
    <3>2. CASE SnapSaved(p)
      BY <1>0, <3>1, <3>2 DEF SnapSaved, Goto, SvcTypeOK
    <3>3. CASE SnapFailed(p)
      BY <1>0, <3>1, <3>3, ResumeLetsGo DEF SnapFailed
    <3> QED
      BY <1>4, <3>2, <3>3
  <2>5. pc'[p] \in {"save", "reset"} <=> snapMu' = p
    <3>1. CASE SnapSaved(p)
      BY <1>0, <2>1, <3>1 DEF SnapSaved, Goto, SvcTypeOK
    <3>2. CASE SnapFailed(p)
      BY <1>0, <3>2, ResumeLetsGo DEF SnapFailed, Holding
    <3> QED
      BY <1>4, <3>1, <3>2
  <2>6. snapMu' \in {p, None}
    BY <1>4, <2>1 DEF SnapSaved, SnapFailed
  <2>7. \A q \in Worker : pc'[q] \in {"save", "reset"} <=> snapMu' = q
    BY <1>0, <2>4, <2>5, <2>6 DEF Holding
  <2>8. rdb' # Blank
    BY <1>4, <2>1 DEF SnapSaved, SnapFailed
  <2> QED
    BY <2>2, <2>3, <2>7, <2>8 DEF SnapshotExclusive, RdbFileWhole
<1>5. CASE SnapReset(p)
  <2>1. pc[p] = "reset" /\ snapMu = p /\ rdb # Blank
    BY <1>5 DEF SnapReset, SnapshotExclusive, RdbFileWhole
  <2>2. \A q \in Saver : saver[q].pc = "off" /\ saver[q].fd = "none"
    BY <2>1 DEF SnapshotExclusive
  <2>3. UNCHANGED rdbVars /\ snapMu' = None
    BY <1>5 DEF SnapReset
  <2>4. \A q \in Worker : pc'[q] \notin Holding
    BY <1>0, <1>5, <2>1, ResumeLetsGo DEF SnapReset, SnapshotExclusive, Holding
  <2> QED
    BY <1>0, <2>1, <2>2, <2>3, <2>4
       DEF SnapshotExclusive, RdbFileWhole, Holding, rdbVars
<1> QED
  BY <1>1, <1>2, <1>3, <1>4, <1>5 DEF SnapStep

\* Every step of a handler: outside a snapshot it has nothing to do with it.
LEMMA HandlerExclusive ==
    ASSUME SnapshotExclusive, TypeOK, NEW t \in Thread,
           Handler(t) \/ Begin(t)
    PROVE  SnapshotExclusive'
<1>0. SvcTypeOK
  BY TypeParts
<1>1. CASE SnapStep(t)
  BY <1>1, SnapStepExclusive
<1>2. CASE ~SnapStep(t)
  <2>1. UNCHANGED <<rdbVars, snapMu>>
    BY <1>2 DEF Handler, Begin, Record, Check, Store, Remove, Account, LogLine,
                Count, Arm, Read, snapVars
  <2>2. pc[t] \notin Holding
    BY <1>2 DEF Handler, Begin, Record, Check, Store, Remove, Account, LogLine,
                Count, Arm, Read, Holding
  <2>3. \/ \E l \in Ctl \ Holding : Goto(t, l)
        \/ Resume(t)
    <3>1. ASSUME Return(t) PROVE \E l \in Ctl \ Holding : Goto(t, l)
      BY <3>1 DEF Return, Ctl, Holding
    <3>2. CASE Begin(t)
      BY <3>2 DEF Begin, Ctl, Holding
    <3>3. CASE Record(t)
      BY <3>1, <3>3 DEF Record, Ctl, Holding
    <3>4. CASE Check(t)
      BY <3>1, <3>4 DEF Check, Ctl, Holding
    <3>5. CASE Store(t) \/ Remove(t) \/ Account(t)
      BY <3>5 DEF Store, Remove, Account, Ctl, Holding
    <3>6. CASE LogLine(t)
      BY <3>1, <3>6 DEF LogLine, Ctl, Holding
    <3>7. CASE Count(t)
      BY <3>7 DEF Count, Ctl, Holding
    <3>8. CASE Arm(t) \/ Read(t)
      BY <3>1, <3>8 DEF Arm, Read
    <3> QED
      BY <1>2, <3>2, <3>3, <3>4, <3>5, <3>6, <3>7, <3>8 DEF Handler
  <2>4. pc'[t] \notin Holding /\ \A q \in Worker : q # t => pc'[q] = pc[q]
    BY <1>0, <2>3, ResumeLetsGo DEF Goto, SvcTypeOK
  <2> QED
    BY <2>1, <2>2, <2>4, OutsideKeeps
<1> QED
  BY <1>1, <1>2

\* SnapshotExclusive is inductive, given TypeOK.
LEMMA NextExclusive ==
    ASSUME SnapshotExclusive, TypeOK, [Next]_vars
    PROVE  SnapshotExclusive'
<1>1. ASSUME NEW t \in Thread, Handler(t) \/ Begin(t)
      PROVE  SnapshotExclusive'
  BY <1>1, HandlerExclusive
<1>2. CASE SnapStep(Loop)
  BY <1>2, SnapStepExclusive
<1>3. CASE LoopTick
  <2>1. pc[Loop] \notin Holding /\ pc'[Loop] \notin Holding
        /\ \A q \in Worker : q # Loop => pc'[q] = pc[q]
    BY <1>3, TypeParts DEF LoopTick, Goto, SvcTypeOK, Holding
  <2>2. UNCHANGED <<rdbVars, snapMu>>
    BY <1>3 DEF LoopTick, snapVars
  <2> QED
    BY <2>1, <2>2, OutsideKeeps
<1>4. CASE TtlGoroutine \/ Rewriter \/ Tick \/ UNCHANGED vars
  <2>1. UNCHANGED <<rdbVars, snapMu, pc>>
    BY <1>4 DEF TtlGoroutine, Expire, ExpireAccount, Rewriter, Tick, vars,
                svcVars, snapVars
  <2> QED
    BY <2>1, OutsideKeeps
<1> QED
  BY <1>1, <1>2, <1>3, <1>4 DEF Next, Run

\* Save runs under snapshotMu only, one goroutine at a time, and what it moves
\* into place has been encoded completely (service.go:301-312, rdb.go:25-70).
THEOREM SavesTakeTurns == Spec => []SnapshotExclusive
<1>1. Init => SnapshotExclusive
  BY RdbAssumption, ServiceAssumption
     DEF Init, RdbInit, SvcFresh, SnapshotExclusive, RdbFileWhole, SaverOff
<1>2. TypeOK /\ SnapshotExclusive /\ [Next]_vars => SnapshotExclusive'
  BY NextExclusive
<1> QED
  BY <1>1, <1>2, TypeCorrect, PTL DEF Spec

\* While the server runs, a Load of the snapshot file never meets one that does
\* not decode, whatever the disk did to the temporary file.
THEOREM SnapshotDecodes == Spec => []RdbFileWhole
<1>1. SnapshotExclusive => RdbFileWhole
  BY DEF SnapshotExclusive
<1> QED
  BY <1>1, SavesTakeTurns, PTL
=============================================================================
