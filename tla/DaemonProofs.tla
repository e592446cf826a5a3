---------------------------- MODULE DaemonProofs ----------------------------
(***************************************************************************)
(* Theorems about the server process over its lives, for any keys,         *)
(* goroutines and bounds: its types, what a replay builds line by line,    *)
(* what a graceful stop leaves on disk and what a restart brings back.     *)
(***************************************************************************)
EXTENDS Daemon, LogProofs

USE DEF Time, Expiry, Worker, Saver

-----------------------------------------------------------------------------
(* Types *)

\* There is a file to replay.
ReplayFile == phase = "replay" => aof # None

DType == DTypeOK /\ ReplayFile

\* Snapshots are loaded as snapshots.
LEMMA LoadedType ==
    ASSUME NEW f \in Snap \cup {None, Blank}, NEW t
    PROVE  Loaded(f, t) \in Snap /\ NoEntries \in Snap
BY DEF Loaded, NoEntries, Snap, Slot

\* The totals are integers.
LEMMA MemUsageType ==
    ASSUME MapTypeOK
    PROVE  MemUsage \in Int
<1>1. IsFiniteSet(Shard)
  BY FS_Interval, MapAssumption DEF Shard
<1> QED
  BY <1>1, SumsAre DEF MemUsage, MapTypeOK

LEMMA ShardBytesType ==
    ASSUME NEW e \in Snap, NEW s
    PROVE  ShardBytes(e, s) \in Int
<1> DEFINE S == {j \in Key : ShardOf[j] = s}
           f == [k \in S |-> Footprint(k, e[k])]
<1>1. IsFiniteSet(S)
  BY FS_Subset, MapAssumption
<1>2. f \in [S -> Int]
  <2>1. \A k \in S : Footprint(k, e[k]) \in Nat
    BY SizeType DEF Snap
  <2> QED
    BY <2>1
<1> QED
  BY <1>1, <1>2, SumsAre DEF ShardBytes

\* A step that leaves the service's variables alone but for these.
LEMMA LoadTypes ==
    ASSUME DType, Load
    PROVE  TypeOK'
<1>1. Loaded(rdb, now) \in Snap
  BY LoadedType, TypeParts DEF DType, DTypeOK, RdbTypeOK
<1>2. MapTypeOK'
  <2>1. \A s \in Shard : ShardBytes(Loaded(rdb, now), s) \in Int
    BY <1>1, ShardBytesType
  <2> QED
    BY <1>1, <2>1, TypeParts DEF Load, MapTypeOK, Snap, DType, DTypeOK
<1> QED
  BY <1>2, TypeParts, SvcUnchangedType, TtlUnchangedType, AofUnchangedType,
     RdbUnchangedType DEF Load, DType, DTypeOK

\* The line that is read is a line.
LEMMA ReplayedLine ==
    ASSUME DType, ReplayLine
    PROVE  /\ aof \in File /\ aof.lines \in Seq(Line) /\ Len(aof.lines) \in Nat
           /\ pos \in 1 .. Len(aof.lines) /\ aof.lines[pos] \in Line
           /\ Parses(aof.lines[pos]) /\ aof.lines[pos].key \in Key
<1>1. aof \in File
  BY TypeParts DEF DType, DTypeOK, ReplayFile, ReplayLine, AofTypeOK
<1>2. aof.lines \in Seq(Line)
  BY <1>1 DEF File
<1>3. pos \in 1 .. Len(aof.lines) /\ Len(aof.lines) \in Nat
  BY <1>2 DEF DType, DTypeOK, ReplayLine
<1>4. aof.lines[pos] \in Line
  BY <1>2, <1>3
<1> QED
  BY <1>1, <1>2, <1>3, <1>4, LineIs DEF ReplayLine, Parses

LEMMA ReplayLineTypes ==
    ASSUME DType, ReplayLine
    PROVE  TypeOK'
<1> DEFINE ln == aof.lines[pos]
<1>1. ln \in Line /\ ln.key \in Key /\ ApplyLine(ln) /\ UNCHANGED now
  BY ReplayedLine DEF ReplayLine
<1>2. ln.op = "SET" => ln.val \in Value /\ ln.exp \in Expiry
  BY <1>1, LineIs
<1>3. MapTypeOK
  BY TypeParts DEF DType, DTypeOK
<1> HIDE DEF ln
<1>4. MapTypeOK'
  <2>1. now' \in Time
    BY <1>1, <1>3 DEF MapTypeOK
  <2> QED
    BY <1>1, <1>2, <1>3, <2>1, MapSetType, MapDeleteType, MapUnchangedType
       DEF ApplyLine, mapVars
<1> QED
  BY <1>4, TypeParts, SvcUnchangedType, TtlUnchangedType, AofUnchangedType,
     RdbUnchangedType DEF ReplayLine, DType, DTypeOK

LEMMA TruncateTypes ==
    ASSUME DType, ReplayTruncate
    PROVE  TypeOK'
<1>1. aof \in File
  BY TypeParts DEF DType, DTypeOK, ReplayFile, ReplayTruncate, AofTypeOK
<1>2. aof.lines \in Seq(Line) /\ aof.synced \in Nat /\ pos \in Nat \ {0}
      /\ Len(aof.lines) \in Nat /\ pos <= Len(aof.lines)
  BY <1>1 DEF File, DType, DTypeOK, ReplayTruncate
<1>3. SubSeq(aof.lines, 1, pos - 1) \in Seq(Line)
  <2>1. pos - 1 \in 0 .. Len(aof.lines)
    BY <1>2
  <2> QED
    BY <1>2, <2>1, Divided
<1>4. Min({aof.synced, pos - 1}) \in Nat
  <2>1. \A a, b \in Nat : Min({a, b}) \in Nat
    <3>1. ASSUME NEW a \in Nat, NEW b \in Nat PROVE Min({a, b}) \in Nat
      <4>1. \E x \in {a, b} : \A y \in {a, b} : x <= y
        OBVIOUS
      <4> QED
        BY <4>1 DEF Min
    <3> QED
      BY <3>1
  <2> HIDE DEF Min
  <2> QED
    BY <1>2, <2>1
<1>5. aof' \in File
  BY <1>3, <1>4 DEF ReplayTruncate, File
<1>6. AofTypeOK'
  <2>1. AofTypeOK
    BY TypeParts DEF DType, DTypeOK
  <2>2. UNCHANGED <<aofTmp, aofOpen, rewriting, incrBuf, rw>>
    BY DEF ReplayTruncate
  <2> QED
    BY <1>5, <2>1, <2>2, AofAssumption DEF AofTypeOK
<1>7. UNCHANGED <<mapVars, now, ttlVars, rdbVars, svcVars>>
  BY DEF ReplayTruncate
<1>8. now' \in Time
  BY <1>7, TypeParts DEF DType, DTypeOK, MapTypeOK
<1> QED
  BY <1>6, <1>7, <1>8, TypeParts, SvcUnchangedType, TtlUnchangedType,
     MapUnchangedType, RdbUnchangedType DEF DType, DTypeOK, mapVars

LEMMA OpenTypes ==
    ASSUME DType, Open
    PROVE  TypeOK'
<1>1. UNCHANGED <<mapVars, now, ttlVars, rdbVars>>
  BY DEF Open
<1>2. now' \in Time /\ now \in Time
  BY <1>1, TypeParts DEF DType, DTypeOK, MapTypeOK
<1>3. AofTypeOK'
  <2>1. AofTypeOK
    BY TypeParts DEF DType, DTypeOK
  <2>2. Opened(aof) \in File
    BY <2>1, OpenedType DEF AofTypeOK
  <2>3. /\ UNCHANGED <<aofTmp, rewriting, incrBuf, rw>>
        /\ \/ aof' = Opened(aof) /\ aofOpen' = TRUE
           \/ UNCHANGED <<aof, aofOpen>>
    BY DEF Open
  <2>4. CASE aof' = Opened(aof) /\ aofOpen' = TRUE
    BY <2>1, <2>2, <2>3, <2>4, AofAssumption DEF AofTypeOK
  <2>5. CASE UNCHANGED <<aof, aofOpen>>
    BY <2>1, <2>3, <2>5 DEF AofTypeOK
  <2> QED
    BY <2>3, <2>4, <2>5
<1>4. SvcTypeOK'
  <2>1. MemUsage \in Int
    BY TypeParts, MemUsageType DEF DType, DTypeOK
  <2> QED
    BY <1>2, <2>1, TypeParts DEF Open, DType, DTypeOK, SvcTypeOK, ControlOK,
       statVars
<1> QED
  BY <1>1, <1>2, <1>3, <1>4, TypeParts, TtlUnchangedType, MapUnchangedType,
     RdbUnchangedType DEF DType, DTypeOK, mapVars

\* A process that ends leaves a typed state, whatever is left of its file.
LEMMA ForgetTypes ==
    ASSUME TypeOK, Forget, aof' \in File \cup {None}
    PROVE  TypeOK'
<1>1. MapTypeOK'
  BY TypeParts DEF Forget, MapTypeOK, NoEntries, Slot
<1>2. TtlTypeOK'
  BY DEF Forget, TtlTypeOK
<1>3. AofTypeOK'
  <2>1. <<>> \in Seq(Line)
    OBVIOUS
  <2> QED
    BY <2>1, RwIdleType, TypeParts DEF Forget, AofTypeOK
<1>4. RdbTypeOK'
  BY SaverOffType, TypeParts DEF Forget, RdbTypeOK, SaverState
<1>5. SvcTypeOK'
  <2>1. ControlOK'
    BY DEF Forget, ControlOK
  <2>2. begun \in Nat /\ 0 \in Time
    BY TypeParts, MapAssumption DEF SvcTypeOK
  <2> QED
    BY <2>1, <2>2 DEF Forget, SvcTypeOK, Ctl
<1> QED
  BY <1>1, <1>2, <1>3, <1>4, <1>5, TypeParts

\* What is left of a line is a line.
LEMMA CutLinesType ==
    ASSUME NEW ln \in Line, now \in Time
    PROVE  CutLines(ln) \subseteq Line
<1>1. Broken \in Line
  BY DEF Line
<1>2. ASSUME ln.op = "DEL", NEW k \in CutKeys[ln.key]
      PROVE  DelLine(k) \in Line
  <2>1. ln.key \in Key
    BY <1>2, LineIs
  <2>2. k \in Key
    BY <1>2, <2>1, DaemonAssumption
  <2> QED
    BY <2>2 DEF DelLine, Line
<1>3. ASSUME ln.op = "SET", NEW x \in 1 .. now
      PROVE  SetLine(ln.key, ln.val, x) \in Line
  <2>1. ln.key \in Key /\ ln.val \in Value
    BY <1>3, LineIs
  <2>2. x \in Expiry
    BY <1>3, MapAssumption
  <2> QED
    BY <2>1, <2>2 DEF SetLine, Line
<1> QED
  BY <1>1, <1>2, <1>3 DEF CutLines

\* A torn file is a file.
LEMMA RemainsType ==
    ASSUME NEW f \in File, NEW g \in Remains(f), now \in Time
    PROVE  g \in File
<1>1. f.lines \in Seq(Line) /\ Len(f.lines) \in Nat /\ f.synced \in Nat
  BY DEF File
<1>2. PICK n \in f.synced .. Len(f.lines) :
        \/ g = Upto(f, n)
        \/ /\ n # Len(f.lines)
           /\ \E ln \in CutLines(f.lines[n + 1]) : g = Torn(Upto(f, n), ln)
  BY DEF Remains
<1>3. n \in 0 .. Len(f.lines)
  BY <1>1
<1>4. SubSeq(f.lines, 1, n) \in Seq(Line)
  BY <1>1, <1>3, Divided
<1>5. Upto(f, n) \in File
  BY <1>4 DEF Upto, File
<1>6. CASE n # Len(f.lines)
  <2>1. CutLines(f.lines[n + 1]) \subseteq Line
    BY <1>1, <1>3, <1>6, CutLinesType
  <2>2. \A ln \in CutLines(f.lines[n + 1]) : Extend(Upto(f, n), ln) \in File
    BY <1>5, <2>1, ExtendType
  <2>3. \A x \in File : [x EXCEPT !.cut = TRUE] \in File
    BY DEF File
  <2> QED
    BY <1>2, <1>5, <2>2, <2>3 DEF Torn
<1> QED
  BY <1>2, <1>5, <1>6

\* The files after a step of Stop on them.
LEMMA CloseTypes ==
    ASSUME AofTypeOK, AofSync \/ AofClose
    PROVE  AofTypeOK'
<1>1. CASE AofSync
  <2>1. UNCHANGED <<aofTmp, aofOpen, rewriting, incrBuf, rw>>
    BY <1>1 DEF AofSync
  <2>2. CASE aofOpen /\ aof' = [aof EXCEPT !.synced = Len(aof.lines)]
    <3>1. aof \in File
      BY <2>2 DEF AofTypeOK
    <3>2. aof' \in File
      <4>1. Len(aof.lines) \in Nat
        BY <3>1 DEF File
      <4> QED
        BY <2>2, <3>1, <4>1 DEF File
    <3> QED
      BY <2>1, <3>2, AofAssumption DEF AofTypeOK
  <2>3. CASE UNCHANGED aof
    BY <2>1, <2>3 DEF AofTypeOK
  <2> QED
    BY <1>1, <2>2, <2>3 DEF AofSync
<1>2. CASE AofClose
  <2>1. UNCHANGED <<aof, aofTmp, rewriting, incrBuf, rw>> /\ aofOpen' = FALSE
    BY <1>2 DEF AofClose
  <2> QED
    BY <2>1 DEF AofTypeOK
<1> QED
  BY <1>1, <1>2

\* The steps of Stop.
LEMMA StopTypes ==
    ASSUME TypeOK,
           \/ Signal \/ Drained \/ LoopDone \/ StopTtl \/ StopSave \/ StopSaved
           \/ StopSync \/ StopClose
    PROVE  TypeOK'
<1>0. /\ MapTypeOK /\ TtlTypeOK /\ AofTypeOK /\ RdbTypeOK /\ SvcTypeOK
      /\ now \in Time
  BY TypeParts DEF MapTypeOK
<1>1. CASE Signal \/ Drained \/ LoopDone
  BY <1>1, StutterType DEF Signal, Drained, LoopDone
<1>2. CASE StopTtl
  <2>1. UNCHANGED <<mapVars, now, aofVars, svcVars>>
    BY <1>2 DEF StopTtl
  <2>2. TtlTypeOK'
    BY <1>0, <1>2 DEF StopTtl, TtlStop, TtlTypeOK
  <2>3. RdbTypeOK'
    <3>1. CASE RdbEnabled
      <4>1. saver' \in [Saver -> SaverState]
        BY <1>0, <1>2, <3>1, SaverAtType DEF StopTtl
      <4> QED
        BY <1>0, <1>2, <4>1 DEF StopTtl, RdbTypeOK, SaverState
    <3>2. CASE ~RdbEnabled
      BY <1>0, <1>2, <3>2, RdbUnchangedType DEF StopTtl, rdbVars
    <3> QED
      BY <3>1, <3>2
  <2> QED
    BY <1>0, <2>1, <2>2, <2>3, TypeParts, SvcUnchangedType, MapUnchangedType,
       AofUnchangedType DEF mapVars
<1>3. CASE StopSave
  <2>1. UNCHANGED <<mapVars, now, ttlVars, aofVars, svcVars>> /\ RdbTypeOK'
    BY <1>0, <1>3, SaveStepType DEF StopSave
  <2> QED
    BY <1>0, <2>1, TypeParts, SvcUnchangedType, MapUnchangedType,
       AofUnchangedType, TtlUnchangedType DEF mapVars
<1>4. CASE StopSaved
  <2>1. UNCHANGED <<mapVars, now, ttlVars, aofVars, svcVars>>
    BY <1>4 DEF StopSaved
  <2>2. RdbTypeOK'
    <3>1. saver' \in [Saver -> SaverState]
      BY <1>0, <1>4, SaverAtType DEF StopSaved
    <3> QED
      BY <1>0, <1>4, <3>1 DEF StopSaved, RdbTypeOK, SaverState
  <2> QED
    BY <1>0, <2>1, <2>2, TypeParts, SvcUnchangedType, MapUnchangedType,
       AofUnchangedType, TtlUnchangedType DEF mapVars
<1>5. CASE StopSync \/ StopClose
  <2>1. UNCHANGED <<mapVars, now, ttlVars, rdbVars, svcVars>> /\ AofTypeOK'
    BY <1>0, <1>5, CloseTypes DEF StopSync, StopClose
  <2> QED
    BY <1>0, <2>1, TypeParts, SvcUnchangedType, MapUnchangedType,
       RdbUnchangedType, TtlUnchangedType DEF mapVars
<1> QED
  BY <1>1, <1>2, <1>3, <1>4, <1>5

\* What is remembered of a process is a snapshot of its store.
LEMMA RememberTypes ==
    ASSUME DType, image' \in {image, items}
    PROVE  image' \in Snap
BY TypeParts DEF DType, DTypeOK, MapTypeOK, Snap

LEMMA DInitType ==
    ASSUME DInit
    PROVE  DType
<1>1. MapTypeOK
  BY MapAssumption DEF DInit, MapInit, MapTypeOK, Slot
<1>2. TtlTypeOK
  BY DEF DInit, TtlInit, TtlTypeOK
<1>3. AofTypeOK
  <2>1. <<>> \in Seq(Line)
    OBVIOUS
  <2> QED
    BY <2>1, RwIdleType DEF DInit, AofFresh, AofTypeOK
<1>4. RdbTypeOK
  BY SaverOffType, DaemonAssumption DEF DInit, RdbTypeOK, SaverState
<1>5. SvcTypeOK
  <2>1. ControlOK
    BY DEF DInit, SvcFresh, ControlOK
  <2>2. 0 \in Time
    BY MapAssumption
  <2> QED
    BY <2>1, <2>2 DEF DInit, SvcFresh, SvcTypeOK, Ctl
<1>6. image \in Snap /\ known \subseteq Key
  BY LoadedType, DaemonAssumption DEF DInit
<1> QED
  BY <1>1, <1>2, <1>3, <1>4, <1>5, <1>6, TypeParts, DaemonAssumption
     DEF DInit, DType, DTypeOK, ReplayFile

LEMMA DNextType ==
    ASSUME DType, [DNext]_dvars
    PROVE  DType'
<1> DEFINE Boots == /\ phase' \in {"down", "replay", "load", "open", "up",
                          "drain", "loop", "ttl", "save", "sync", "close",
                          "exit"}
                    /\ boots' \in 0 .. MaxBoots /\ pos' \in Nat \ {0}
                    /\ image' \in Snap /\ known' \subseteq Key
<1>1. CASE Boot
  <2>1. TypeOK' /\ Boots
    BY <1>1, StutterType, DaemonAssumption DEF Boot, DType, DTypeOK
  <2> QED
    BY <1>1, <2>1 DEF Boot, DType, DTypeOK, ReplayFile, vars, aofVars
<1>2. CASE ReplayLine
  BY <1>2, ReplayLineTypes DEF ReplayLine, DType, DTypeOK, ReplayFile, aofVars
<1>3. CASE ReplayTruncate
  BY <1>3, TruncateTypes DEF ReplayTruncate, DType, DTypeOK, ReplayFile
<1>4. CASE ReplayEnd
  BY <1>4, StutterType DEF ReplayEnd, DType, DTypeOK, ReplayFile
<1>5. CASE Load
  BY <1>5, LoadTypes DEF Load, DType, DTypeOK, ReplayFile
<1>6. CASE Open
  BY <1>6, OpenTypes DEF Open, DType, DTypeOK, ReplayFile
<1>7. CASE \/ Signal \/ Drained \/ LoopDone \/ StopTtl \/ StopSave \/ StopSaved
           \/ StopSync \/ StopClose
  <2>1. TypeOK'
    BY <1>7, StopTypes DEF DType, DTypeOK
  <2>2. UNCHANGED <<boots, pos, image, known>>
        /\ phase' \in {"drain", "loop", "ttl", "save", "sync", "close", "exit"}
    BY <1>7 DEF Signal, Drained, LoopDone, StopTtl, StopSave, StopSaved,
       StopSync, StopClose, Turn, AfterSave, bootVars
  <2> QED
    BY <2>1, <2>2 DEF DType, DTypeOK, ReplayFile
<1>8. ASSUME image' \in {image, items}, known' \subseteq Key, Forget,
             aof' \in File \cup {None}
      PROVE  DType'
  <2>1. TypeOK' /\ image' \in Snap
    BY <1>8, ForgetTypes, RememberTypes DEF DType, DTypeOK
  <2> QED
    BY <1>8, <2>1 DEF Forget, DType, DTypeOK, ReplayFile
<1>9. /\ aof \in File \cup {None} /\ Settled \subseteq Key /\ now \in Time
      /\ known \subseteq Key
  BY TypeParts DEF DType, DTypeOK, AofTypeOK, MapTypeOK, Settled
<1>10. CASE Exit
  BY <1>8, <1>9, <1>10 DEF Exit, Remember
<1>11. CASE Kill
  BY <1>8, <1>9, <1>11 DEF Kill, Remember
<1>12. CASE PowerLoss
  <2>1. aof' \in File \cup {None}
    BY <1>9, <1>12, RemainsType DEF PowerLoss
  <2> QED
    BY <1>8, <1>9, <1>12, <2>1 DEF PowerLoss
<1>13. CASE Accept \/ Ticking \/ Working
  <2>1. Next /\ UNCHANGED bootVars /\ phase # "replay"
    BY <1>13 DEF Accept, Ticking, Working, Next, Serving
  <2>2. TypeOK'
    BY <2>1, NextType DEF DType, DTypeOK
  <2> QED
    BY <2>1, <2>2 DEF DType, DTypeOK, ReplayFile, bootVars
<1>14. CASE TimePasses
  <2>1. TypeOK'
    BY <1>14, TickType DEF TimePasses, DType, DTypeOK
  <2> QED
    BY <1>14, <2>1 DEF TimePasses, Tick, DType, DTypeOK, ReplayFile, bootVars,
       aofVars
<1>15. CASE UNCHANGED dvars
  BY <1>15, StutterType DEF dvars, DType, DTypeOK, ReplayFile, bootVars, vars,
     aofVars
<1> QED
  BY <1>1, <1>2, <1>3, <1>4, <1>5, <1>6, <1>7, <1>10, <1>11, <1>12, <1>13,
     <1>14, <1>15 DEF DNext, Startup, Shutdown

\* Over any number of lives, started, stopped, killed or cut off, whatever a
\* failing machine leaves of the file, every variable keeps its type: Replay
\* never reads past its file and no map, heap or file is ever half a value.
THEOREM ServerTypeCorrect == DSpec => []DTypeOK
<1>1. DInit => DType
  BY DInitType
<1>2. DType /\ [DNext]_dvars => DType'
  BY DNextType
<1>3. DType => DTypeOK
  BY DEF DType
<1> QED
  BY <1>1, <1>2, <1>3, PTL DEF DSpec

-----------------------------------------------------------------------------
(* What a replay builds *)

\* Every line for k that takes effect at t is followed by one that deletes k.
Faded(lines, k, t) ==
    \A i \in 1 .. Len(lines) :
        Names(lines[i], k) /\ TakesEffect(lines[i], t) =>
            \E j \in i .. Len(lines) : lines[j] = DelLine(k)

\* The map is what the lines say, but for what lapsed on the way.
Built(lines) ==
    /\ Clean(lines)
    /\ \A k \in Key :
         IF items[k] = None THEN Faded(lines, k, now)
                            ELSE Brings(lines, k, items[k], now)

LinesRead ==
    IF phase = "replay" THEN SubSeq(aof.lines, 1, pos - 1) ELSE aof.lines

ReplayInv ==
    /\ phase = "down" => items = NoEntries
    /\ phase = "replay" => pos - 1 <= Len(aof.lines)
    /\ phase = "load" /\ AofEnabled => aof = None
    /\ phase = "replay" \/ (phase = "open" /\ AofEnabled /\ aof # None) =>
           Built(LinesRead)

\* What a line without effect leaves as it was.
LEMMA WithoutEffect ==
    ASSUME NEW a \in Seq(Line), NEW ln \in Line, NEW k, NEW t,
           Names(ln, k) => ~TakesEffect(ln, t)
    PROVE  /\ \A e : Brings(a, k, e, t) => Brings(Append(a, ln), k, e, t)
           /\ Faded(a, k, t) => Faded(Append(a, ln), k, t)
<1> DEFINE b == Append(a, ln)
<1>1. /\ Len(b) = Len(a) + 1 /\ b[Len(a) + 1] = ln /\ Len(a) \in Nat
      /\ \A i \in 1 .. Len(a) : b[i] = a[i]
  BY AppendIs
<1> HIDE DEF b
<1>2. \A i \in 1 .. Len(b) : i \in 1 .. Len(a) \/ i = Len(a) + 1
  BY <1>1
<1>3. ASSUME NEW e, Brings(a, k, e, t) PROVE Brings(b, k, e, t)
  <2>1. PICK i \in 1 .. Len(a) :
            /\ a[i] = SetLine(k, e.val, e.exp)
            /\ \A j \in i + 1 .. Len(a) :
                   Names(a[j], k) => ~TakesEffect(a[j], t)
    BY <1>3 DEF Brings
  <2>2. i \in 1 .. Len(b) /\ b[i] = SetLine(k, e.val, e.exp)
    BY <1>1, <2>1
  <2>3. \A j \in i + 1 .. Len(b) : Names(b[j], k) => ~TakesEffect(b[j], t)
    BY <1>1, <2>1
  <2> QED
    BY <2>2, <2>3 DEF Brings
<1>4. ASSUME Faded(a, k, t) PROVE Faded(b, k, t)
  <2>1. SUFFICES ASSUME NEW i \in 1 .. Len(b), Names(b[i], k),
                        TakesEffect(b[i], t)
                 PROVE  \E j \in i .. Len(b) : b[j] = DelLine(k)
    BY DEF Faded
  <2>2. i \in 1 .. Len(a) /\ Names(a[i], k) /\ TakesEffect(a[i], t)
    BY <1>1, <1>2, <2>1
  <2>3. PICK j \in i .. Len(a) : a[j] = DelLine(k)
    BY <1>4, <2>2 DEF Faded
  <2> QED
    BY <1>1, <2>2, <2>3
<1> QED
  BY <1>3, <1>4 DEF b

\* What fades stays faded.
LEMMA FadedOn ==
    ASSUME NEW a \in Seq(Line), NEW k, NEW t \in Int, NEW u \in Int, t <= u,
           Faded(a, k, t)
    PROVE  Faded(a, k, u)
<1>1. ASSUME NEW i \in 1 .. Len(a), Names(a[i], k), TakesEffect(a[i], u)
      PROVE  TakesEffect(a[i], t)
  <2>1. a[i] \in Line
    BY <1>1
  <2>2. a[i].op = "SET" => a[i].exp \in Int
    BY <2>1, LineIs, MapAssumption
  <2>3. a[i].op = "SET" \/ a[i].op = "DEL"
    BY <1>1, <2>1, LineIs DEF Names
  <2> QED
    BY <1>1, <2>2, <2>3 DEF TakesEffect, Lapsed
<1> QED
  BY <1>1 DEF Faded

\* What has faded is not recovered.
LEMMA FadedIsGone ==
    ASSUME NEW a \in Seq(Line), Clean(a), NEW k \in Key, NEW t, Faded(a, k, t)
    PROVE  Recovered(a, t)[k] = None
<1> DEFINE H == Hits(a, k, t)
<1>1. H \subseteq 0 .. Len(a) /\ Len(a) \in Nat
  BY HitsAre, CleanIsGood
<1>2. CASE H = {}
  BY <1>2, RecoveredIs
<1>3. CASE H # {}
  <2> HIDE DEF H
  <2>1. Max(H) \in H /\ \A j \in H : j <= Max(H)
    BY <1>1, <1>3, HasMax
  <2> DEFINE m == Max(H)
  <2> HIDE DEF m
  <2>2. m \in 1 .. Len(a) /\ Names(a[m], k) /\ TakesEffect(a[m], t)
    BY <2>1, HitsAre DEF H, m
  <2>3. PICK j \in m .. Len(a) : a[j] = DelLine(k)
    BY <2>2 DEF Faded
  <2>4. j \in 1 .. Len(a)
    BY <1>1, <2>2, <2>3
  <2>5. j \in H
    BY <2>3, <2>4, HitsAre, LinesName DEF H, TakesEffect
  <2>6. j <= m /\ m <= j
    BY <2>1, <2>3, <2>5, <2>2, <1>1 DEF m
  <2>7. \A i \in H : i <= j
    BY <1>1, <2>1, <2>2, <2>4, <2>6 DEF m
  <2>8. Recovered(a, t)[k] = IF a[j].op = "DEL" THEN None
                             ELSE [val |-> a[j].val, exp |-> a[j].exp]
    BY <2>5, <2>7, RecoveredIs DEF H
  <2> QED
    BY <2>3, <2>8, LinesName
<1> QED
  BY <1>2, <1>3

\* The line read is added to the lines read.
LEMMA ReadOn ==
    ASSUME NEW b \in Seq(Line), NEW p \in 1 .. Len(b)
    PROVE  /\ SubSeq(b, 1, p - 1) \in Seq(Line)
           /\ SubSeq(b, 1, p) = Append(SubSeq(b, 1, p - 1), b[p])
<1>1. Len(b) \in Nat /\ p - 1 \in 0 .. Len(b) /\ b[p] \in Line
  OBVIOUS
<1>2. SubSeq(b, 1, p - 1) \in Seq(Line)
  BY <1>1, Divided
<1>3. SubSeq(b, 1, p) = SubSeq(b, 1, p - 1) \o <<b[p]>>
  <2>1. 1 \in 1 .. Len(b) /\ p \in 1 .. Len(b)
    BY <1>1
  <2> QED
    BY <2>1, SubSeqRecursiveSecond
<1> QED
  BY <1>1, <1>2, <1>3, AppendConcat

\* Each line does what it says.
LEMMA LineBuilds ==
    ASSUME DType, ReplayLine, ReplayInv
    PROVE  ReplayInv'
<1> DEFINE ln == aof.lines[pos]
           a == SubSeq(aof.lines, 1, pos - 1)
           k == ln.key
<1>1. /\ aof.lines \in Seq(Line) /\ Len(aof.lines) \in Nat
      /\ pos \in 1 .. Len(aof.lines) /\ ln \in Line
      /\ Parses(ln) /\ k \in Key
  BY ReplayedLine
<1>2. /\ phase = "replay" /\ phase' = "replay" /\ pos' = pos + 1
      /\ UNCHANGED <<aof, now>> /\ ApplyLine(ln)
  BY DEF ReplayLine, aofVars
<1>3. a \in Seq(Line) /\ LinesRead = a /\ LinesRead' = Append(a, ln)
  <2>1. pos' - 1 = pos
    BY <1>1, <1>2
  <2> QED
    BY <1>1, <1>2, <2>1, ReadOn DEF LinesRead
<1>4. Built(a)
  BY <1>2, <1>3 DEF ReplayInv
<1> HIDE DEF a, ln
<1>5. items \in [Key -> Slot]
  BY TypeParts DEF DType, DTypeOK, MapTypeOK
<1>6. Clean(Append(a, ln))
  <2>1. <<ln>> \in Seq(Line) /\ Append(a, ln) = a \o <<ln>>
    BY <1>1, <1>3, AppendConcat
  <2>2. Clean(<<ln>>)
    BY <1>1 DEF Clean
  <2> QED
    BY <1>3, <1>4, <2>1, <2>2, ConcatAll DEF Built
<1>7. ASSUME NEW j \in Key
      PROVE  IF items'[j] = None THEN Faded(Append(a, ln), j, now)
             ELSE Brings(Append(a, ln), j, items'[j], now)
  <2>1. CASE j # k \/ (UNCHANGED items /\ ~TakesEffect(ln, now))
    <3>1. items'[j] = items[j]
      BY <1>2, <1>5, <2>1 DEF ApplyLine, MapDelete, MapSet, mapVars
    <3>2. Names(ln, j) => ~TakesEffect(ln, now)
      BY <2>1 DEF Names
    <3> QED
      BY <1>1, <1>3, <1>4, <3>1, <3>2, WithoutEffect DEF Built
  <2>2. CASE j = k /\ ln.op = "DEL" /\ MapDelete(k)
    <3>1. items'[k] = None
      BY <1>1, <1>5, <2>2 DEF MapDelete
    <3>2. ln = DelLine(k)
      BY <1>1, <2>2, LineIs
    <3>3. Buried(Append(a, ln), k)
      BY <1>1, <1>3, <3>2, BuriedAppended
    <3> QED
      BY <2>2, <3>1, <3>3 DEF Buried, Faded
  <2>3. CASE j = k /\ ln.op = "SET" /\ MapSet(k, ln.val, ln.exp)
    <3>1. /\ ln = SetLine(k, ln.val, ln.exp)
          /\ ln.val \in Value /\ ln.exp \in Expiry
      BY <1>1, <2>3, LineIs
    <3>2. items'[k] = [val |-> ln.val, exp |-> ln.exp]
      BY <1>1, <1>5, <2>3 DEF MapSet
    <3>3. items'[k] # None
      BY <3>1, <3>2, MapAssumption DEF Entry
    <3>4. LastIs(Append(a, ln), k, ln)
      BY <1>1, <1>3, <3>1, LinesName, LastAppended
    <3> DEFINE e == [val |-> ln.val, exp |-> ln.exp]
    <3>5. Append(a, ln) \in Seq(Line) /\ e.val = ln.val /\ e.exp = ln.exp
      BY <1>1, <1>3, AppendIs
    <3> HIDE DEF e
    <3>6. Brings(Append(a, ln), k, e, now)
      BY <3>1, <3>4, <3>5, LastBrings
    <3> QED
      BY <2>3, <3>2, <3>3, <3>6 DEF e
  <2>4. \/ ln.op = "DEL" /\ MapDelete(k)
        \/ ln.op = "SET" /\ MapSet(k, ln.val, ln.exp)
        \/ UNCHANGED items /\ ~TakesEffect(ln, now)
    BY <1>2 DEF ApplyLine, TakesEffect, mapVars
  <2> QED
    BY <2>1, <2>2, <2>3, <2>4
<1>8. Built(LinesRead)'
  BY <1>2, <1>3, <1>6, <1>7 DEF Built
<1> QED
  BY <1>1, <1>2, <1>8 DEF ReplayInv

\* Time fades lines; it brings none back.
LEMMA BuiltOn ==
    ASSUME MapTypeOK, NEW a \in Seq(Line), Built(a), UNCHANGED items,
           now' \in Int, now <= now'
    PROVE  Built(a)'
<1>1. now \in Int
  BY MapAssumption DEF MapTypeOK
<1>2. ASSUME NEW k \in Key
      PROVE  IF items[k] = None THEN Faded(a, k, now')
             ELSE Brings(a, k, items[k], now')
  BY <1>1, FadedOn, EffectFades DEF Built
<1> QED
  BY <1>2 DEF Built

\* The clock alone.
LEMMA TimeBuilds ==
    ASSUME DType, TimePasses, ReplayInv
    PROVE  ReplayInv'
<1>1. UNCHANGED <<items, aof, phase, pos>> /\ now' = now + 1 /\ now \in Int
      /\ MapTypeOK
  BY TypeParts, MapAssumption
     DEF TimePasses, Tick, mapVars, aofVars, bootVars, DType, DTypeOK, MapTypeOK
<1>2. CASE phase = "replay" \/ (phase = "open" /\ AofEnabled /\ aof # None)
  <2>1. PICK a : a = LinesRead
    OBVIOUS
  <2>2. aof \in File
    BY <1>2, TypeParts DEF DType, DTypeOK, ReplayFile, AofTypeOK
  <2>3. a \in Seq(Line)
    <3>1. aof.lines \in Seq(Line) /\ pos \in Nat \ {0}
          /\ Len(aof.lines) \in Nat
      BY <2>2 DEF File, DType, DTypeOK
    <3>2. CASE phase = "replay"
      <4>1. pos - 1 \in 0 .. Len(aof.lines)
        BY <3>1, <3>2 DEF ReplayInv
      <4> QED
        BY <2>1, <3>1, <3>2, <4>1, Divided DEF LinesRead
    <3>3. CASE phase # "replay"
      BY <2>1, <3>1, <3>3 DEF LinesRead
    <3> QED
      BY <3>2, <3>3
  <2>4. a = LinesRead'
    BY <1>1, <2>1 DEF LinesRead
  <2>5. Built(a)
    BY <1>2, <2>1 DEF ReplayInv
  <2>6. Built(a)'
    <3>1. now' \in Int /\ now <= now'
      BY <1>1
    <3> QED
      BY <1>1, <2>3, <2>5, <3>1, BuiltOn
  <2>7. Built(LinesRead)'
    BY <2>4, <2>6 DEF Built
  <2> QED
    BY <1>1, <2>7 DEF ReplayInv
<1>3. CASE ~(phase = "replay" \/ (phase = "open" /\ AofEnabled /\ aof # None))
  BY <1>1, <1>3 DEF ReplayInv
<1> QED
  BY <1>2, <1>3

\* A replay starts from nothing and ends with the whole file, or with the part
\* of it that it has kept.
LEMMA StartBuilds ==
    ASSUME DType, ReplayInv, Boot \/ ReplayTruncate \/ ReplayEnd \/ Load
    PROVE  ReplayInv'
<1>1. CASE Boot
  <2>1. /\ UNCHANGED <<items, aof, now>> /\ pos' = 1 /\ items = NoEntries
        /\ phase' = IF AofEnabled /\ aof # None THEN "replay"
                    ELSE IF RdbEnabled THEN "load" ELSE "open"
    BY <1>1 DEF Boot, vars, mapVars, aofVars, ReplayInv
  <2>2. CASE AofEnabled /\ aof # None
    <3>1. aof \in File /\ aof.lines \in Seq(Line) /\ Len(aof.lines) \in Nat
      BY <2>2, TypeParts DEF DType, DTypeOK, AofTypeOK, File
    <3>2. SubSeq(aof.lines, 1, 0) = <<>>
      BY SubSeqEmpty
    <3>3. LinesRead' = <<>>
      BY <2>1, <2>2, <3>2 DEF LinesRead
    <3>4. Built(LinesRead)'
      BY <2>1, <3>3 DEF Built, Clean, Faded, NoEntries
    <3> QED
      BY <2>1, <2>2, <3>1, <3>4 DEF ReplayInv
  <2>3. CASE ~(AofEnabled /\ aof # None)
    BY <2>1, <2>3 DEF ReplayInv
  <2> QED
    BY <2>2, <2>3
<1>2. CASE ReplayTruncate
  <2>1. /\ UNCHANGED <<items, now>> /\ phase = "replay" /\ phase' = "open"
        /\ aof'.lines = SubSeq(aof.lines, 1, pos - 1)
    BY <1>2 DEF ReplayTruncate, mapVars
  <2>2. LinesRead' = LinesRead
    BY <2>1 DEF LinesRead
  <2> QED
    BY <2>1, <2>2 DEF ReplayInv, Built
<1>3. CASE ReplayEnd
  <2>1. /\ UNCHANGED <<items, aof, now>> /\ phase = "replay" /\ phase' = "open"
        /\ pos > Len(aof.lines)
    BY <1>3 DEF ReplayEnd, vars, mapVars, aofVars
  <2>2. aof.lines \in Seq(Line) /\ pos \in Nat
    BY <2>1, TypeParts DEF DType, DTypeOK, ReplayFile, AofTypeOK, File
  <2>3. pos - 1 = Len(aof.lines)
    BY <2>1, <2>2 DEF ReplayInv
  <2>4. SubSeq(aof.lines, 1, pos - 1) = aof.lines
    BY <2>2, <2>3, SubSeqFull
  <2>5. LinesRead' = LinesRead
    BY <2>1, <2>4 DEF LinesRead
  <2> QED
    BY <2>1, <2>5 DEF ReplayInv, Built
<1>4. CASE Load
  BY <1>4 DEF Load, ReplayInv, aofVars
<1> QED
  BY <1>1, <1>2, <1>3, <1>4

LEMMA ReplayNext ==
    ASSUME DType, ReplayInv, [DNext]_dvars
    PROVE  ReplayInv'
<1>1. CASE ReplayLine
  BY <1>1, LineBuilds
<1>2. CASE Boot \/ ReplayTruncate \/ ReplayEnd \/ Load
  BY <1>2, StartBuilds
<1>3. CASE TimePasses
  BY <1>3, TimeBuilds
<1>4. CASE Forget
  BY <1>4 DEF Forget, ReplayInv
<1>5. ASSUME phase' \in {"up", "drain", "loop", "ttl", "save", "sync", "close",
                         "exit"}
      PROVE  ReplayInv'
  BY <1>5 DEF ReplayInv
<1>6. CASE Open
  BY <1>5, <1>6 DEF Open
<1>7. CASE \/ Signal \/ Drained \/ LoopDone \/ StopTtl \/ StopSave \/ StopSaved
           \/ StopSync \/ StopClose
  BY <1>5, <1>7 DEF Signal, Drained, LoopDone, StopTtl, StopSave, StopSaved,
     StopSync, StopClose, Turn, AfterSave, bootVars
<1>8. CASE Exit \/ Kill \/ PowerLoss
  BY <1>4, <1>8 DEF Exit, Kill, PowerLoss
<1>9. CASE Accept \/ Ticking \/ Working
  BY <1>5, <1>9 DEF Accept, Ticking, Working, Serving, bootVars
<1>10. CASE UNCHANGED dvars
  BY <1>10 DEF dvars, vars, mapVars, aofVars, bootVars, ReplayInv, LinesRead,
     Built
<1> QED
  BY <1>1, <1>2, <1>3, <1>6, <1>7, <1>8, <1>9, <1>10
     DEF DNext, Startup, Shutdown

\* What is built agrees with what the lines say.
LEMMA BuiltAgrees ==
    ASSUME DType, NEW a \in Seq(Line), Built(a), NEW k \in Key
    PROVE  /\ items[k] = None => Recovered(a, now)[k] = None
           /\ items[k] # None /\ ~Lapsed(items[k], now) =>
                  Recovered(a, now)[k] = items[k]
           /\ NeverTimed(k, a) => items[k] = None \/ ~Lapsed(items[k], now)
<1>1. items[k] = None \/ items[k] \in Entry
  BY TypeParts DEF DType, DTypeOK, MapTypeOK, Slot
<1>2. items[k] = None => Recovered(a, now)[k] = None
  BY FadedIsGone DEF Built
<1>3. items[k] # None /\ ~Lapsed(items[k], now) =>
          Recovered(a, now)[k] = items[k]
  BY <1>1, BroughtBack DEF Built
<1>4. ASSUME NeverTimed(k, a), items[k] # None PROVE ~Lapsed(items[k], now)
  <2>1. PICK i \in 1 .. Len(a) :
          a[i] = SetLine(k, items[k].val, items[k].exp)
    BY <1>4 DEF Built, Brings
  <2>2. items[k].exp = 0
    BY <1>4, <2>1, LinesName DEF NeverTimed
  <2> QED
    BY <2>2 DEF Lapsed
<1> QED
  BY <1>2, <1>3, <1>4

\* persistence.go:177-252: whatever the file holds, whichever lines of it have
\* lapsed when Replay reaches them, and however the clock moves on while it
\* reads, after each line the map is what the lines read so far say: exactly,
\* for keys that never had a TTL, and for every entry that can still be served.
THEOREM ReplayBuilds == DSpec => []ReplayPrefix
<1> DEFINE I == DType /\ ReplayInv
<1>1. DInit => I
  BY DInitType DEF DInit, ReplayInv, MapInit, NoEntries
<1>2. I /\ [DNext]_dvars => I'
  BY DNextType, ReplayNext
<1>3. I => ReplayPrefix
  <2>1. SUFFICES ASSUME I, phase = "replay", NEW k \in Key
                 PROVE  LET a == SubSeq(aof.lines, 1, pos - 1)
                        IN  /\ NeverTimed(k, a) =>
                                   items[k] = Recovered(a, now)[k]
                            /\ items[k] # None /\ ~Lapsed(items[k], now) =>
                                   items[k] = Recovered(a, now)[k]
    BY DEF ReplayPrefix
  <2> DEFINE a == SubSeq(aof.lines, 1, pos - 1)
  <2>2. aof.lines \in Seq(Line) /\ pos \in Nat \ {0} /\ Len(aof.lines) \in Nat
    BY <2>1, TypeParts DEF DType, DTypeOK, ReplayFile, AofTypeOK, File
  <2>3. a \in Seq(Line)
    <3>1. pos - 1 \in 0 .. Len(aof.lines)
      BY <2>1, <2>2 DEF ReplayInv
    <3> QED
      BY <2>2, <3>1, Divided
  <2>4. Built(a)
    BY <2>1 DEF ReplayInv, LinesRead
  <2> HIDE DEF a
  <2>5. /\ NeverTimed(k, a) => items[k] = Recovered(a, now)[k]
        /\ items[k] # None /\ ~Lapsed(items[k], now) =>
               items[k] = Recovered(a, now)[k]
    BY <2>1, <2>3, <2>4, BuiltAgrees
  <2> QED
    BY <2>5 DEF a
<1> QED
  BY <1>1, <1>2, <1>3, PTL DEF DSpec

-----------------------------------------------------------------------------
(* What a graceful stop leaves *)

\* No request asks for a TTL.
NoTtls ==
    \A t \in Thread : \A r \in Workload[t] : r.op = "set" => r.ttl = 0

PlainFrame(t) ==
    frame[t] # None => frame[t].req \in Workload[t] /\ frame[t].exp = 0

\* Then no deadline is ever armed, and the TTL goroutine expires nothing.
Untimed ==
    /\ \A i \in Item : heap[i] = 0
    /\ tmPc \in {"loop", "sleep", "exit"}
    /\ \A t \in Thread : PlainFrame(t)

\* Snapshot f has what the store says of k, and all that it says of any key.
\* A key that expired after the scan may be in it, if keys have TTLs at all.
Keeps(f, k) ==
    /\ NoTtls /\ items[k] = None => f[k] = None
    /\ items[k] # None /\ ~Lapsed(items[k], now) => f[k] = items[k]

Full(f) == f \in Snap /\ \A k \in Key : Keeps(f, k)

\* How far the last snapshot is.
LastSave ==
    LET me == saver[Stopper]
    IN  /\ me.pc \in {"open", "scan", "write", "remove", "rename", "ok"}
        /\ me.pc = "open" => me.shard = 1 /\ me.data = NoEntries
        /\ me.pc = "scan" =>
               /\ me.fd = "tmp" /\ me.at <= now
               /\ \A k \in Key : IF ShardOf[k] < me.shard
                                 THEN Keeps(me.data, k) ELSE me.data[k] = None
        /\ me.pc = "write" => me.fd = "tmp" /\ Full(me.data)
        /\ me.pc \in {"remove", "rename"} => Full(rdbTmp)
        /\ me.pc = "ok" => Full(rdb)

AfterLoop == {"ttl", "save", "sync", "close", "exit"}

\* Nobody writes any more.
Rested ==
    /\ phase \in AfterLoop \cup {"loop"} =>
           \A t \in Thread : pc[t] = "idle"
    /\ phase \in AfterLoop => pc[Loop] = "idle"

\* The AOF while the process serves and stops.
AofKept ==
    /\ rw.pc = "off"
    /\ Serving => aof # None /\ (phase # "exit" => aofOpen)
    /\ phase \in {"close", "exit"} => aof.synced = Len(aof.lines)

\* The snapshot file while the process stops.
RdbKept ==
    /\ NoTtls => Untimed
    /\ phase = "save" => LastSave
    /\ phase \in {"sync", "close", "exit"} => Full(rdb)

StopInv ==
    /\ Rested
    /\ AofEnabled => AofKept
    /\ RdbEnabled => RdbKept

\* When every goroutine that serves is idle, only these steps are left.
LEMMA RestRuns ==
    ASSUME \A p \in Worker : pc[p] = "idle", Run
    PROVE  TtlGoroutine \/ Rewriter \/ Tick
<1>1. ASSUME NEW p \in Worker, SnapStep(p) PROVE FALSE
  BY <1>1 DEF SnapStep, AutoClock, AutoAge, AutoRules, SnapLock, SnapSave, SnapSaved,
     SnapFailed, SnapReset
<1>2. ASSUME NEW t \in Thread, Handler(t) PROVE FALSE
  BY <1>1, <1>2 DEF Handler, Record, Check, Store, Remove, Account, LogLine,
     Count, Arm, Read
<1> QED
  BY <1>1, <1>2 DEF Run

\* A handler at rest stays there unless it is handed a request.
LEMMA ThreadsRest ==
    ASSUME TypeOK, \A t \in Thread : pc[t] = "idle", Run \/ LoopTick
    PROVE  \A t \in Thread : pc'[t] = "idle"
<1>1. ASSUME NEW t \in Thread, Handler(t) PROVE FALSE
  BY <1>1 DEF Handler, Record, Check, Store, Remove, Account, LogLine, Count,
     Arm, Read, SnapStep, AutoClock, AutoAge, AutoRules, SnapLock, SnapSave, SnapSaved,
     SnapFailed, SnapReset
<1>2. pc \in [Worker -> Ctl]
  BY TypeParts DEF SvcTypeOK
<1>3. CASE SnapStep(Loop) \/ LoopTick
  <2>1. (\E l : Goto(Loop, l)) \/ UNCHANGED pc
    BY <1>3 DEF SnapStep, AutoClock, AutoAge, AutoRules, SnapLock, SnapSave, SnapSaved,
       SnapFailed, SnapReset, Resume, LoopTick, svcVars
  <2> QED
    BY <1>2, <2>1, RdbAssumption DEF Goto
<1>4. CASE TtlGoroutine \/ Rewriter \/ Tick
  BY <1>4 DEF TtlGoroutine, Expire, ExpireAccount, Rewriter, Tick, svcVars
<1> QED
  BY <1>1, <1>3, <1>4 DEF Run

\* Requests without a TTL leave no deadline.
LEMMA ThreadUntimed ==
    ASSUME TypeOK, Untimed, NoTtls, NEW t \in Thread, Begin(t) \/ Handler(t)
    PROVE  Untimed'
<1>0. /\ frame \in [Thread -> Frame \cup {None}] /\ now \in Int
      /\ \A u \in Thread : frame[u] # None => frame[u] \in Frame
      /\ pc[t] # "idle" => frame[t] # None
      /\ pc[t] \in {"check", "store"} => frame[t].req.op = "set"
      /\ pc[t] = "arm" => frame[t].exp > 0
  BY TypeParts, MapAssumption DEF SvcTypeOK, ControlOK, MapTypeOK
<1>1. ASSUME UNCHANGED <<heap, tmPc>>, \A u \in Thread : u # t =>
                 frame'[u] = frame[u], PlainFrame(t)'
      PROVE  Untimed'
  BY <1>1 DEF Untimed, PlainFrame
<1>2. ASSUME UNCHANGED <<heap, tmPc>>,
             \/ UNCHANGED frame
             \/ frame' = [frame EXCEPT ![t] = None]
             \/ \E d \in Int : frame' = [frame EXCEPT ![t].delta = d] /\ pc[t] # "idle"
      PROVE  Untimed'
  <2>1. \A u \in Thread : u # t => frame'[u] = frame[u]
    BY <1>0, <1>2
  <2>2. \/ frame'[t] = frame[t] \/ frame'[t] = None
        \/ \E d \in Int : frame'[t] = [frame[t] EXCEPT !.delta = d]
                          /\ frame[t] \in Frame
    BY <1>0, <1>2
  <2>3. PlainFrame(t)'
    <3>1. PlainFrame(t)
      BY DEF Untimed
    <3> QED
      BY <2>2, <3>1, ServiceAssumption DEF PlainFrame, Frame
  <2> QED
    BY <1>1, <1>2, <2>1, <2>3
<1>3. CASE Begin(t)
  <2>1. UNCHANGED <<heap, tmPc>>
    BY <1>3 DEF Begin, ttlVars
  <2>2. PICK r \in Workload[t] :
          frame' = [frame EXCEPT ![t] = [req |-> r, copy |-> requests,
                                         exp |-> 0, delta |-> 0]]
    BY <1>3 DEF Begin
  <2>3. /\ \A u \in Thread : u # t => frame'[u] = frame[u]
        /\ frame'[t].req = r /\ frame'[t].exp = 0
    BY <1>0, <2>2
  <2> QED
    BY <1>1, <2>1, <2>3 DEF PlainFrame
<1>4. CASE Record(t)
  <2>1. UNCHANGED <<heap, tmPc>> /\ pc[t] = "record"
    BY <1>4 DEF Record, ttlVars
  <2>2. CASE frame' = [frame EXCEPT ![t].exp = Deadline(frame[t].req, now)]
             /\ frame[t].req.op = "set"
    <3>1. /\ \A u \in Thread : u # t => frame'[u] = frame[u]
          /\ frame'[t].req = frame[t].req
          /\ frame'[t].exp = Deadline(frame[t].req, now)
      BY <1>0, <2>1, <2>2 DEF Frame
    <3>2. frame[t].req \in Workload[t] /\ frame[t].req.ttl = 0
      BY <1>0, <2>1, <2>2 DEF Untimed, PlainFrame, NoTtls
    <3>3. frame'[t].exp = 0
      BY <3>1, <3>2 DEF Deadline
    <3> QED
      BY <1>1, <2>1, <3>1, <3>2, <3>3 DEF PlainFrame
  <2>3. CASE UNCHANGED frame \/ frame' = [frame EXCEPT ![t] = None]
    BY <1>2, <2>1, <2>3
  <2> QED
    BY <1>4, <2>2, <2>3 DEF Record, Return
<1>5. CASE Check(t) \/ LogLine(t) \/ Count(t) \/ Read(t)
  BY <1>2, <1>5 DEF Check, LogLine, Count, Read, Return, Resume, ttlVars
<1>6. CASE Store(t) \/ Remove(t) \/ Account(t)
  <2>1. UNCHANGED <<heap, tmPc>> /\ pc[t] # "idle"
    BY <1>6 DEF Store, Remove, Account, ttlVars
  <2>2. \E d \in Int : frame' = [frame EXCEPT ![t].delta = d]
    <3>1. CASE Store(t)
      <4>1. frame[t].req.key \in Key /\ frame[t].req.val \in Value
        BY <1>0, <3>1 DEF Store, Frame, Request
      <4>2. SetDelta(frame[t].req.key, frame[t].req.val) \in Int
        BY <4>1, SetDeltaType, TypeParts
      <4> QED
        BY <3>1, <4>2 DEF Store
    <3>2. CASE Remove(t)
      <4>1. frame[t].req.key \in Key
        BY <1>0, <3>2, TypeParts DEF Remove, Frame, Request, SvcTypeOK,
           ControlOK
      <4>2. DeleteDelta(frame[t].req.key) \in Int
        BY <4>1, DeleteDeltaType, TypeParts
      <4> QED
        BY <3>2, <4>2 DEF Remove
    <3>3. CASE Account(t)
      <4>1. frame' = [frame EXCEPT ![t].delta = 0]
        BY <3>3 DEF Account
      <4> WITNESS 0 \in Int
      <4> QED
        BY <4>1
    <3> QED
      BY <1>6, <3>1, <3>2, <3>3
  <2> QED
    BY <1>2, <2>1, <2>2
<1>7. CASE Arm(t)
  BY <1>0, <1>7 DEF Arm, Untimed, PlainFrame
<1>8. CASE SnapStep(t)
  BY <1>2, <1>8 DEF SnapStep, AutoClock, AutoAge, AutoRules, SnapLock, SnapSave,
     SnapSaved, SnapFailed, SnapReset, Return, Resume, ttlVars, svcVars
<1> QED
  BY <1>3, <1>4, <1>5, <1>6, <1>7, <1>8 DEF Handler

LEMMA StaysUntimed ==
    ASSUME TypeOK, Untimed, NoTtls, Next
    PROVE  Untimed'
<1>1. ASSUME UNCHANGED <<heap, frame>>, tmPc' \in {"loop", "sleep", "exit"}
      PROVE  Untimed'
  BY <1>1 DEF Untimed, PlainFrame
<1>2. CASE \E t \in Thread : Begin(t) \/ Handler(t)
  BY <1>2, ThreadUntimed
<1>3. CASE SnapStep(Loop) \/ LoopTick
  <2>1. UNCHANGED <<heap, tmPc, frame>>
    BY <1>3 DEF SnapStep, AutoClock, AutoAge, AutoRules, SnapLock, SnapSave, SnapSaved,
       SnapFailed, SnapReset, Resume, LoopTick, ttlVars, svcVars
  <2> QED
    BY <1>1, <2>1 DEF Untimed
<1>4. CASE TtlGoroutine
  <2>1. heap \in [Item -> Nat] /\ \A i \in Item : ~InHeap(i)
    BY TypeParts DEF Untimed, InHeap, TtlTypeOK
  <2>2. TtlSleep \/ TtlWake \/ TtlExit
    BY <1>4, <2>1 DEF TtlGoroutine, TtlStep, TtlWait, TtlTimer, TtlPop,
       HeapTop, Expire, ExpireAccount, Untimed
  <2>3. UNCHANGED frame
    BY <1>4, <2>2 DEF TtlGoroutine, svcVars, TtlSleep, TtlWake, TtlExit,
       Expire, ExpireAccount
  <2> QED
    BY <1>1, <2>2, <2>3 DEF TtlSleep, TtlWake, TtlExit
<1>5. CASE Rewriter \/ Tick
  BY <1>1, <1>5 DEF Rewriter, Tick, ttlVars, svcVars, Untimed
<1> QED
  BY <1>2, <1>3, <1>4, <1>5 DEF Next, Run

\* Nobody starts to write again.
LEMMA StaysRested ==
    ASSUME TypeOK, ~HandlersOutlive, Rested, [DNext]_dvars
    PROVE  Rested'
<1>1. ASSUME phase' \notin AfterLoop \cup {"loop"} PROVE Rested'
  BY <1>1 DEF Rested
<1>2. CASE Startup \/ Signal \/ Exit \/ Kill \/ PowerLoss \/ Accept \/ TimePasses
  <2>1. phase' \notin AfterLoop \cup {"loop"}
    BY <1>2 DEF Startup, Boot, ReplayLine, ReplayTruncate, ReplayEnd, Load,
       Open, Signal, Turn, Exit, Kill, PowerLoss, Forget, Accept, TimePasses,
       Serving, bootVars, AfterLoop
  <2> QED
    BY <1>1, <2>1
<1>3. CASE Drained \/ LoopDone
  BY <1>3 DEF Drained, LoopDone, Turn, vars, svcVars, Rested, AfterLoop
<1>4. CASE StopTtl \/ StopSave \/ StopSaved \/ StopSync \/ StopClose
  <2>1. UNCHANGED pc /\ phase \in AfterLoop
    BY <1>4 DEF StopTtl, StopSave, StopSaved, StopSync, StopClose, Turn,
       svcVars, AfterLoop
  <2> QED
    BY <2>1 DEF Rested
<1>5. CASE Ticking \/ Working
  <2>1. UNCHANGED phase /\ (Run \/ LoopTick)
    BY <1>5 DEF Ticking, Working, bootVars
  <2>2. CASE phase = "loop"
    BY <2>1, <2>2, ThreadsRest DEF Rested, AfterLoop
  <2>3. CASE phase \in AfterLoop
    <3>1. Run /\ \A p \in Worker : pc[p] = "idle"
      BY <1>5, <2>3 DEF Rested, Ticking, Working, AfterLoop
    <3>2. UNCHANGED pc
      BY <3>1, RestRuns DEF TtlGoroutine, Expire, ExpireAccount, Rewriter,
         Tick, svcVars
    <3> QED
      BY <2>1, <3>2 DEF Rested
  <2> QED
    BY <1>1, <2>1, <2>2, <2>3
<1>6. CASE UNCHANGED dvars
  BY <1>6 DEF dvars, vars, svcVars, bootVars, Rested
<1> QED
  BY <1>2, <1>3, <1>4, <1>5, <1>6 DEF DNext, Shutdown

\* Without rewrites the file is only appended to.
LEMMA FileStays ==
    ASSUME TypeOK, ~IoFaults, RewriteThreshold = 0, rw.pc = "off", Next
    PROVE  \/ UNCHANGED aofVars
           \/ /\ aof' # None /\ aofOpen' /\ UNCHANGED rw
              /\ \E t \in Thread : pc[t] # "idle"
<1>1. ASSUME NEW t \in Thread, LogLine(t)
      PROVE  aof' # None /\ aofOpen' /\ UNCHANGED rw /\ pc[t] # "idle"
  <2>1. AppendLine(LineOf(t)) /\ pc[t] = "append"
    BY <1>1 DEF LogLine, AppendFails
  <2>2. aofOpen' = TRUE /\ UNCHANGED rw
    BY <2>1, AofAssumption DEF AppendLine, RewriteDue
  <2>3. aof' # None
    <3>1. TypeOK'
      BY <1>1, NextType DEF Next, Run, Handler
    <3> QED
      BY <2>2, <3>1, TypeParts DEF AofTypeOK
  <2> QED
    BY <2>1, <2>2, <2>3
<1>2. ASSUME NEW p \in Worker, SnapStep(p) PROVE UNCHANGED aofVars
  BY <1>2 DEF SnapStep, AutoClock, AutoAge, AutoRules, SnapLock, SnapSave, SnapSaved,
     SnapFailed, SnapReset
<1>3. ASSUME NEW t \in Thread, Begin(t) \/ Handler(t), ~LogLine(t)
      PROVE  UNCHANGED aofVars
  BY <1>2, <1>3 DEF Begin, Handler, Record, Check, Store, Remove, Account,
     Count, Arm, Read
<1>4. CASE TtlGoroutine \/ Tick \/ LoopTick
  BY <1>4 DEF TtlGoroutine, Expire, ExpireAccount, Tick, LoopTick
<1>5. CASE Rewriter
  BY <1>5 DEF Rewriter, RwStep, RwOpen, RwScan, RwCopy, RwFlush, RwRemove,
     RwRename, RwRenameFails, RwFault
<1> QED
  BY <1>1, <1>2, <1>3, <1>4, <1>5 DEF Next, Run

LEMMA StaysAofKept ==
    ASSUME DType, DType', AofEnabled, ~IoFaults, RewriteThreshold = 0, Rested,
           AofKept, [DNext]_dvars
    PROVE  AofKept'
<1>0. AofTypeOK' /\ TypeOK
  BY TypeParts DEF DType, DTypeOK
<1>1. CASE Boot \/ ReplayLine \/ ReplayTruncate \/ ReplayEnd \/ Load
           \/ TimePasses
  BY <1>1 DEF Boot, ReplayLine, ReplayTruncate, ReplayEnd, Load, TimePasses,
     Tick, vars, aofVars, bootVars, Serving, AofKept
<1>2. CASE Open
  <2>1. aofOpen' /\ UNCHANGED rw /\ phase' = "up"
    BY <1>2 DEF Open
  <2> QED
    BY <1>0, <2>1 DEF AofKept, AofTypeOK
<1>3. CASE Forget
  BY <1>3 DEF Forget, RwIdle, Serving, AofKept
<1>4. CASE \/ Signal \/ Drained \/ LoopDone \/ StopTtl \/ StopSave \/ StopSaved
  <2>1. /\ UNCHANGED aofVars /\ Serving
        /\ phase' \in {"drain", "loop", "ttl", "save", "sync"}
        /\ phase # "exit"
    BY <1>4 DEF Signal, Drained, LoopDone, StopTtl, StopSave, StopSaved, Turn,
       AfterSave, Serving, vars, bootVars
  <2> QED
    BY <2>1 DEF AofKept, aofVars
<1>5. CASE StopSync
  <2>1. /\ aofOpen /\ aof' = [aof EXCEPT !.synced = Len(aof.lines)]
        /\ UNCHANGED <<aofOpen, rw>> /\ phase' = "close"
    BY <1>5 DEF StopSync, AofSync, Turn, AofKept, Serving
  <2>2. aof \in File
    BY <2>1, TypeParts DEF DType, DTypeOK, AofTypeOK
  <2>3. aof'.synced = Len(aof'.lines)
    BY <2>1, <2>2 DEF File
  <2> QED
    BY <1>0, <2>1, <2>3 DEF AofKept, AofTypeOK
<1>6. CASE StopClose
  BY <1>6 DEF StopClose, AofClose, Turn, AofKept, Serving
<1>7. CASE Accept \/ Ticking \/ Working
  <2>1. UNCHANGED phase /\ Next /\ Serving
    BY <1>7 DEF Accept, Ticking, Working, Next, Serving, bootVars
  <2>2. CASE UNCHANGED aofVars
    BY <2>1, <2>2 DEF AofKept, aofVars, Serving
  <2>3. CASE /\ aof' # None /\ aofOpen' /\ UNCHANGED rw
             /\ \E t \in Thread : pc[t] # "idle"
    <3>1. phase \notin AfterLoop
      BY <2>3 DEF Rested
    <3> QED
      BY <2>1, <2>3, <3>1 DEF AofKept, AfterLoop, Serving
  <2>4. rw.pc = "off"
    BY DEF AofKept
  <2> QED
    BY <1>0, <2>1, <2>2, <2>3, <2>4, FileStays
<1>8. CASE UNCHANGED dvars
  BY <1>8 DEF dvars, vars, aofVars, bootVars, AofKept, Serving
<1>9. CASE Exit \/ Kill \/ PowerLoss
  BY <1>3, <1>9 DEF Exit, Kill, PowerLoss
<1> QED
  BY <1>1, <1>2, <1>4, <1>5, <1>6, <1>7, <1>8, <1>9
     DEF DNext, Startup, Shutdown

\* Entries may expire, nothing else happens to them.
Fades == \A k \in Key : items'[k] = items[k] \/ (~NoTtls /\ items'[k] = None)

\* A snapshot stays full while the clock goes on and entries expire.
LEMMA KeepsOn ==
    ASSUME TypeOK, Fades, now' \in Int, now <= now', NEW f,
           NEW k \in Key, Keeps(f, k)
    PROVE  Keeps(f, k)'
<1>1. now \in Int /\ (items[k] # None => items[k] \in Entry)
  BY TypeParts, MapAssumption DEF MapTypeOK, Slot
<1>2. items[k] # None /\ ~Lapsed(items[k], now') => ~Lapsed(items[k], now)
  BY <1>1, LapsedStays
<1> QED
  BY <1>2 DEF Keeps, Fades

LEMMA FullOn ==
    ASSUME TypeOK, Fades, now' \in Int, now <= now', NEW f, Full(f)
    PROVE  Full(f)'
<1>1. \A k \in Key : Keeps(f, k)'
  BY KeepsOn DEF Full
<1> QED
  BY <1>1 DEF Full

LEMMA LastSaveOn ==
    ASSUME TypeOK, Fades, UNCHANGED rdbVars, now' \in Int, now <= now',
           LastSave
    PROVE  LastSave'
<1>1. PICK m, tmp, file : m = saver[Stopper] /\ tmp = rdbTmp /\ file = rdb
  OBVIOUS
<1>2. m = saver'[Stopper] /\ tmp = rdbTmp' /\ file = rdb'
  BY <1>1 DEF rdbVars
<1>3. CASE m.pc = "scan"
  <2>1. m.at \in Int /\ now \in Int
    BY <1>1, TypeParts, MapAssumption DEF RdbTypeOK, MapTypeOK
  <2>2. ASSUME NEW k \in Key
        PROVE  IF ShardOf[k] < m.shard THEN Keeps(m.data, k)'
                                       ELSE m.data[k] = None
    BY <1>1, <1>3, KeepsOn DEF LastSave
  <2> QED
    BY <1>1, <1>2, <1>3, <2>1, <2>2 DEF LastSave
<1>4. CASE m.pc = "write"
  <2>1. Full(m.data)'
    BY <1>1, <1>4, FullOn DEF LastSave
  <2> QED
    BY <1>1, <1>2, <1>4, <2>1 DEF LastSave
<1>5. CASE m.pc \in {"remove", "rename"}
  <2>1. Full(tmp)'
    BY <1>1, <1>5, FullOn DEF LastSave
  <2>2. Full(rdbTmp)'
    BY <1>2, <2>1 DEF Full, Keeps
  <2> QED
    BY <1>1, <1>2, <1>5, <2>2 DEF LastSave
<1>6. CASE m.pc = "ok"
  <2>1. Full(file)'
    BY <1>1, <1>6, FullOn DEF LastSave
  <2>2. Full(rdb)'
    BY <1>2, <2>1 DEF Full, Keeps
  <2> QED
    BY <1>1, <1>2, <1>6, <2>2 DEF LastSave
<1>7. CASE m.pc = "open"
  BY <1>1, <1>2, <1>7 DEF LastSave
<1> QED
  BY <1>1, <1>3, <1>4, <1>5, <1>6, <1>7 DEF LastSave

\* One shard of the last snapshot.
LEMMA LastScan ==
    ASSUME TypeOK, LastSave, RdbScan(Stopper), UNCHANGED <<items, now>>
    PROVE  LastSave'
<1> DEFINE me == saver[Stopper]
           new == saver'[Stopper]
           last == me.shard = ShardCount
<1>1. /\ saver \in [Saver -> SaverState] /\ Stopper \in Saver
      /\ MapTypeOK /\ RdbTypeOK
  BY TypeParts DEF RdbTypeOK, SaverState
<1>2. me \in SaverState /\ me.shard \in Int /\ me.at \in Int /\ now \in Int
      /\ ShardCount \in Int /\ me.shard <= ShardCount
  BY <1>1, MapAssumption DEF SaverState, MapTypeOK, Shard
<1>3. /\ me.pc = "scan" /\ me.fd = "tmp" /\ me.at <= now
      /\ \A k \in Key : IF ShardOf[k] < me.shard
                        THEN Keeps(me.data, k) ELSE me.data[k] = None
  BY DEF LastSave, RdbScan
<1>4. /\ new.pc = IF last THEN "write" ELSE "scan"
      /\ new.shard = IF last THEN me.shard ELSE me.shard + 1
      /\ new.at = me.at /\ new.fd = me.fd
      /\ new.data = [k \in Key |-> IF k \in ShardKeys(me.shard, me.at)
                                   THEN items[k] ELSE me.data[k]]
  BY <1>1, <1>2 DEF RdbScan, SaverState
<1>5. ASSUME NEW k \in Key
      PROVE  /\ ShardOf[k] <= me.shard => Keeps(new.data, k)
             /\ ShardOf[k] > me.shard => new.data[k] = None
  <2>1. ShardOf[k] \in Int /\ (items[k] # None => items[k] \in Entry)
    BY <1>1, MapAssumption DEF Shard, MapTypeOK, Slot
  <2>2. new.data[k] = IF k \in ShardKeys(me.shard, me.at)
                      THEN items[k] ELSE me.data[k]
    BY <1>4
  <2>3. CASE ShardOf[k] = me.shard
    <3>1. k \in ShardKeys(me.shard, me.at) <=>
              items[k] # None /\ ~Lapsed(items[k], me.at)
      BY <2>3 DEF ShardKeys
    <3>2. me.data[k] = None
      BY <1>2, <1>3, <2>1, <2>3
    <3>3. items[k] # None /\ ~Lapsed(items[k], now) =>
              ~Lapsed(items[k], me.at)
      BY <1>2, <1>3, <2>1, LapsedStays
    <3>4. Keeps(new.data, k)
      BY <2>2, <3>1, <3>2, <3>3 DEF Keeps
    <3> QED
      BY <1>2, <2>1, <2>3, <3>4
  <2>4. CASE ShardOf[k] # me.shard
    <3>1. new.data[k] = me.data[k]
      BY <2>2, <2>4 DEF ShardKeys
    <3> QED
      BY <1>2, <1>3, <2>1, <2>4, <3>1 DEF Keeps
  <2> QED
    BY <2>3, <2>4
<1>6. new.data \in Snap
  BY <1>1, <1>2, <1>4 DEF MapTypeOK, SaverState, Snap
<1>7. \A k \in Key : ShardOf[k] \in Int /\ ShardOf[k] <= ShardCount
  BY MapAssumption DEF Shard
<1> DEFINE d == new.data
<1> HIDE DEF me
<1>8. CASE last
  <2>1. \A k \in Key : Keeps(d, k)
    BY <1>2, <1>5, <1>7, <1>8
  <2>2. PICK e : e = d
    OBVIOUS
  <2>3. \A k \in Key : Keeps(e, k)'
    BY <2>1, <2>2 DEF Keeps
  <2>4. Full(e)'
    BY <1>6, <2>2, <2>3 DEF Full
  <2>5. new.pc = "write" /\ new.fd = "tmp" /\ new.data = e
    BY <1>3, <1>4, <1>8, <2>2
  <2> QED
    BY <2>4, <2>5 DEF LastSave, Full, Keeps
<1>9. CASE ~last
  <2>1. new.pc = "scan" /\ new.fd = "tmp" /\ new.at <= now' /\ new.shard = me.shard + 1
    BY <1>3, <1>4, <1>9
  <2>2. PICK e : e = d
    OBVIOUS
  <2>3. ASSUME NEW k \in Key
        PROVE  IF ShardOf[k] < new.shard THEN Keeps(e, k)' ELSE e[k] = None
    <3>1. ShardOf[k] < new.shard <=> ShardOf[k] <= me.shard
      BY <1>2, <1>7, <2>1
    <3>2. ShardOf[k] <= me.shard \/ ShardOf[k] > me.shard
      BY <1>2, <1>7
    <3> QED
      BY <1>5, <2>2, <3>1, <3>2 DEF Keeps
  <2> QED
    BY <2>1, <2>2, <2>3 DEF LastSave, Keeps
<1> QED
  BY <1>8, <1>9

\* The last snapshot, step by step: nobody else has its files.
LEMMA LastSaves ==
    ASSUME TypeOK, ~IoFaults, LastSave, SaveStep(Stopper),
           UNCHANGED <<items, now>>
    PROVE  LastSave'
<1> DEFINE me == saver[Stopper]
           new == saver'[Stopper]
<1>1. saver \in [Saver -> SaverState] /\ Stopper \in Saver
  BY TypeParts DEF RdbTypeOK, SaverState
<1>2. me \in SaverState /\ now \in Int
  BY <1>1, TypeParts, MapAssumption DEF MapTypeOK
<1>3. CASE RdbOpen(Stopper)
  <2>1. /\ new.pc = "scan" /\ new.at = now /\ new.fd = "tmp"
        /\ new.shard = 1 /\ new.data = NoEntries
    BY <1>1, <1>2, <1>3 DEF RdbOpen, LastSave, SaverState
  <2>2. \A k \in Key : ~(ShardOf[k] < 1) /\ NoEntries[k] = None
    BY MapAssumption DEF Shard, NoEntries
  <2> QED
    BY <1>2, <2>1, <2>2 DEF LastSave
<1>4. CASE RdbScan(Stopper)
  BY <1>4, LastScan
<1>5. CASE RdbWrite(Stopper)
  <2>1. me.fd = "tmp" /\ Full(me.data) /\ rdbTmp' = me.data
    BY <1>5 DEF RdbWrite, LastSave
  <2>2. new.pc = "remove"
    BY <1>1, <1>5 DEF RdbWrite, SaverAt, SaverOff
  <2>3. Full(rdbTmp)'
    BY <2>1 DEF Full, Keeps
  <2> QED
    BY <2>2, <2>3 DEF LastSave
<1>6. CASE RdbRemove(Stopper)
  <2>1. new.pc = "rename" /\ UNCHANGED rdbTmp /\ Full(rdbTmp)
    BY <1>1, <1>2, <1>6 DEF RdbRemove, LastSave, SaverState
  <2>2. Full(rdbTmp)'
    BY <2>1 DEF Full, Keeps
  <2> QED
    BY <2>1, <2>2 DEF LastSave
<1>7. CASE RdbRename(Stopper)
  <2>1. Full(rdbTmp) /\ rdbTmp # None
    BY <1>7, RdbAssumption DEF RdbRename, LastSave, Full
  <2>2. new.pc = "ok" /\ rdb' = rdbTmp
    BY <1>1, <1>7, <2>1 DEF RdbRename, SaverOff
  <2>3. Full(rdb)'
    BY <2>1, <2>2 DEF Full, Keeps
  <2> QED
    BY <2>2, <2>3 DEF LastSave
<1> QED
  BY <1>3, <1>4, <1>5, <1>6, <1>7 DEF SaveStep, RdbFault

\* While the process stops, entries can only expire.
LEMMA EntriesRest ==
    ASSUME TypeOK, NoTtls => Untimed, \A p \in Worker : pc[p] = "idle", Run
    PROVE  Fades /\ UNCHANGED rdbVars /\ now' \in Int /\ now <= now'
<1>1. TtlGoroutine \/ Rewriter \/ Tick
  BY RestRuns
<1>2. now \in Int /\ items \in [Key -> Slot]
  BY TypeParts, MapAssumption DEF MapTypeOK
<1>3. CASE TtlGoroutine
  <2>1. UNCHANGED <<rdbVars, now>>
    BY <1>3 DEF TtlGoroutine, Expire, ExpireAccount
  <2>2. CASE Expire
    <3>1. ~NoTtls
      BY <2>2 DEF Expire, Untimed
    <3>2. items' = [items EXCEPT ![tmItem[1]] = None]
      BY <2>2 DEF Expire, MapDelete
    <3> QED
      BY <1>2, <2>1, <3>1, <3>2 DEF Fades
  <2>3. CASE UNCHANGED items
    BY <1>2, <2>1, <2>3 DEF Fades
  <2> QED
    BY <1>3, <2>2, <2>3 DEF TtlGoroutine, ExpireAccount, mapVars
<1>4. CASE Rewriter \/ Tick
  BY <1>2, <1>4 DEF Rewriter, Tick, mapVars, Fades
<1> QED
  BY <1>1, <1>3, <1>4

LEMMA RestingRdbKept ==
    ASSUME TypeOK, Rested, RdbKept, Working
    PROVE  RdbKept'
<1>1. Run /\ UNCHANGED phase
  BY DEF Working, bootVars
<1>2. NoTtls => Untimed'
  BY <1>1, StaysUntimed DEF Next, RdbKept
<1>3. CASE phase \in AfterLoop
  <2>1. \A p \in Worker : pc[p] = "idle"
    BY <1>3 DEF Rested
  <2>2. Fades /\ UNCHANGED rdbVars /\ now' \in Int /\ now <= now'
    BY <1>1, <2>1, EntriesRest DEF RdbKept
  <2>3. phase = "save" => LastSave'
    BY <2>2, LastSaveOn DEF RdbKept
  <2>4. ASSUME phase \in {"sync", "close", "exit"} PROVE Full(rdb)'
    <3>1. PICK f : f = rdb
      OBVIOUS
    <3>2. Full(f)
      BY <2>4, <3>1 DEF RdbKept
    <3>3. Full(f)'
      BY <2>2, <3>2, FullOn
    <3> QED
      BY <2>2, <3>1, <3>3 DEF Full, Keeps, rdbVars
  <2> QED
    BY <1>1, <1>2, <2>3, <2>4 DEF RdbKept
<1>4. CASE phase \notin AfterLoop
  BY <1>1, <1>2, <1>4 DEF RdbKept, AfterLoop
<1> QED
  BY <1>3, <1>4

LEMMA StaysRdbKept ==
    ASSUME DType, RdbEnabled, ~IoFaults, Rested, RdbKept, [DNext]_dvars
    PROVE  RdbKept'
<1>0. TypeOK /\ (NoTtls => Untimed)
  BY DEF DType, DTypeOK, RdbKept
<1>1. ASSUME UNCHANGED <<heap, tmPc, frame>> PROVE NoTtls => Untimed'
  BY <1>0, <1>1 DEF Untimed, PlainFrame
<1>2. ASSUME NoTtls => Untimed', phase' \notin {"save", "sync", "close", "exit"}
      PROVE  RdbKept'
  BY <1>2 DEF RdbKept
<1>3. CASE Startup \/ Signal \/ Drained \/ LoopDone \/ TimePasses
  <2>1. UNCHANGED <<heap, tmPc, frame>>
    BY <1>3 DEF Startup, Boot, ReplayLine, ReplayTruncate, ReplayEnd, Load,
       Open, Signal, Drained, LoopDone, TimePasses, Tick, vars, ttlVars,
       svcVars
  <2>2. phase' \notin {"save", "sync", "close", "exit"}
    BY <1>3 DEF Startup, Boot, ReplayLine, ReplayTruncate, ReplayEnd, Load,
       Open, Signal, Drained, LoopDone, Turn, TimePasses, Serving, bootVars
  <2> QED
    BY <1>1, <1>2, <2>1, <2>2
<1>4. CASE Exit \/ Kill \/ PowerLoss
  <2>1. Forget
    BY <1>4 DEF Exit, Kill, PowerLoss
  <2> QED
    BY <1>2, <2>1 DEF Forget, Untimed, PlainFrame
<1>5. CASE StopTtl
  <2>1. UNCHANGED <<heap, tmPc, frame>> /\ phase' = "save"
        /\ SaverAt(Stopper, "open")
    BY <1>5 DEF StopTtl, TtlStop, Turn, svcVars
  <2>2. saver'[Stopper] = [SaverOff EXCEPT !.pc = "open"]
    BY <1>0, <2>1, TypeParts DEF SaverAt, RdbTypeOK
  <2>3. LastSave'
    BY <2>2 DEF LastSave, SaverOff
  <2> QED
    BY <1>1, <2>1, <2>3 DEF RdbKept
<1>6. CASE StopSave
  <2>1. /\ UNCHANGED <<heap, tmPc, frame, phase, items, now>>
        /\ phase = "save" /\ SaveStep(Stopper)
    BY <1>6 DEF StopSave, mapVars, ttlVars, svcVars, bootVars
  <2>2. LastSave'
    BY <1>0, <2>1, LastSaves DEF RdbKept
  <2> QED
    BY <1>1, <2>1, <2>2 DEF RdbKept
<1>7. CASE StopSaved \/ StopSync \/ StopClose
  <2>1. UNCHANGED <<heap, tmPc, frame, items, now, rdb>>
    BY <1>7 DEF StopSaved, StopSync, StopClose, mapVars, ttlVars, svcVars,
       rdbVars
  <2>2. Full(rdb)
    BY <1>7 DEF StopSaved, StopSync, StopClose, Turn, RdbKept, LastSave
  <2>3. Full(rdb)' /\ phase' # "save"
    BY <1>7, <2>1, <2>2 DEF StopSaved, StopSync, StopClose, Turn, AfterSave,
       Full, Keeps
  <2> QED
    BY <1>1, <2>1, <2>3 DEF RdbKept
<1>8. CASE Accept \/ Ticking
  <2>1. Next /\ UNCHANGED phase
        /\ phase \in {"up", "drain", "loop"}
    BY <1>8 DEF Accept, Ticking, Next, bootVars
  <2> QED
    BY <1>0, <1>2, <2>1, StaysUntimed
<1>9. CASE Working
  BY <1>0, <1>9, RestingRdbKept
<1>10. CASE UNCHANGED dvars
  <2>1. UNCHANGED <<heap, tmPc, frame, items, now, rdb, rdbTmp, saver, phase>>
    BY <1>10 DEF dvars, vars, mapVars, ttlVars, rdbVars, svcVars, bootVars
  <2> QED
    BY <1>1, <2>1 DEF RdbKept, LastSave, Full, Keeps
<1> QED
  BY <1>3, <1>4, <1>5, <1>6, <1>7, <1>8, <1>9, <1>10 DEF DNext, Shutdown

LEMMA NothingStopped ==
    ASSUME DInit
    PROVE  StopInv
<1>1. /\ phase = "down" /\ rw = RwIdle /\ heap = [i \in Item |-> 0]
      /\ tmPc = "loop" /\ frame = [t \in Thread |-> None]
  BY DEF DInit, AofFresh, TtlInit, SvcFresh
<1> QED
  BY <1>1 DEF StopInv, Rested, AfterLoop, AofKept, RwIdle, Serving, RdbKept,
     Untimed, PlainFrame

LEMMA StopNext ==
    ASSUME ~IoFaults, ~HandlersOutlive, AofEnabled => RewriteThreshold = 0,
           DType, DType', StopInv, [DNext]_dvars
    PROVE  StopInv'
<1>1. Rested'
  BY StaysRested DEF StopInv, DType, DTypeOK
<1>2. AofEnabled => AofKept'
  BY StaysAofKept DEF StopInv
<1>3. RdbEnabled => RdbKept'
  BY StaysRdbKept DEF StopInv
<1> QED
  BY <1>1, <1>2, <1>3 DEF StopInv

\* A full snapshot is loaded as the store.
LEMMA FullLoads ==
    ASSUME DType, NEW f, Full(f), NEW k \in Key
    PROVE  Keeps(Loaded(f, now), k)
<1>1. f \notin {None, Blank}
  BY RdbAssumption DEF Full
<1>2. Loaded(f, now)[k] = IF f[k] # None /\ ~Lapsed(f[k], now)
                          THEN f[k] ELSE None
  BY <1>1 DEF Loaded
<1> QED
  BY <1>2 DEF Full, Keeps

\* What the last snapshot must not miss, keys with TTLs included.
LiveSaved ==
    phase = "exit" /\ RdbEnabled =>
        \A k \in Key : items[k] # None /\ ~Lapsed(items[k], now) =>
                           Loaded(rdb, now)[k] = items[k]

\* service.go:75-84, rdb.go:30-69: when main returns, the snapshot at its path
\* decodes and holds every entry that can still be served, with its value and
\* its expiry, although Save scans shard by shard, the clock goes on, the TTL
\* goroutine may still be in the middle of an expiry that Stop does not wait
\* for, and a rewrite of the AOF may be under way.
THEOREM LastSnapshotHasAll ==
    ASSUME ~IoFaults, ~HandlersOutlive
    PROVE  DSpec => []LiveSaved
<1> DEFINE I == DType /\ Rested /\ (RdbEnabled => RdbKept)
<1>1. DInit => I
  BY DInitType, NothingStopped DEF StopInv
<1>2. I /\ [DNext]_dvars => I'
  BY DNextType, StaysRested, StaysRdbKept DEF DType, DTypeOK
<1>3. I => LiveSaved
  <2>1. SUFFICES ASSUME I, phase = "exit", RdbEnabled, NEW k \in Key
                 PROVE  Keeps(Loaded(rdb, now), k)
    BY DEF LiveSaved, Keeps
  <2> QED
    BY <2>1, FullLoads DEF RdbKept
<1> QED
  BY <1>1, <1>2, <1>3, PTL DEF DSpec

\* service.go:75-94: whatever goroutines, keys and shards there are, and
\* however the TTL goroutine and the clock run on beside Stop, main returns
\* only when the AOF is in place with every line synced, and when the
\* snapshot at its path holds every entry that can still be served and none
\* that was deleted.  The hypotheses are what the code needs: a disk that
\* works (errors of the last snapshot, Sync and Close are only logged),
\* handlers that return within Shutdown's time, no rewriter that swaps the
\* AOF after Stop, and no deadline to pop after the last snapshot.
THEOREM StopIsClean ==
    ASSUME ~IoFaults, ~HandlersOutlive, AofEnabled => RewriteThreshold = 0,
           RdbEnabled => NoTtls
    PROVE  DSpec => []CleanExit
<1> DEFINE I == DType /\ StopInv
<1>1. DInit => I
  BY DInitType, NothingStopped
<1>2. I /\ [DNext]_dvars => I'
  BY DNextType, StopNext
<1>3. I => CleanExit
  <2>1. SUFFICES ASSUME I, phase = "exit"
                 PROVE  /\ AofEnabled =>
                               aof # None /\ aof.synced = Len(aof.lines)
                        /\ RdbEnabled =>
                               \A k \in Key : Keeps(Loaded(rdb, now), k)
    BY DEF CleanExit, Keeps
  <2>2. AofEnabled => aof # None /\ aof.synced = Len(aof.lines)
    BY <2>1 DEF StopInv, AofKept, Serving
  <2>3. ASSUME RdbEnabled PROVE \A k \in Key : Keeps(Loaded(rdb, now), k)
    BY <2>1, <2>3, FullLoads DEF StopInv, RdbKept
  <2> QED
    BY <2>2, <2>3
<1> QED
  BY <1>1, <1>2, <1>3, PTL DEF DSpec

-----------------------------------------------------------------------------
(* What a restart brings back *)

\* The memory of a process that does not serve yet.
Fresh ==
    /\ \A i \in Item : heap[i] = 0
    /\ tmPc = "loop" /\ rw.pc = "off" /\ ~rewriting
    /\ \A p \in Worker : pc[p] = "idle"
    /\ \A t \in Thread : frame[t] = None

\* Line i of the file is k's image, and nothing after it changes k.
WrittenAt(k, i) ==
    /\ aof.lines[i] = SetLine(k, image[k].val, image[k].exp)
    /\ \A j \in i + 1 .. Len(aof.lines) :
           Names(aof.lines[j], k) => ~TakesEffect(aof.lines[j], now)

ReadYet(i) == phase = "open" \/ (phase = "replay" /\ i < pos)

Recalled(k) ==
    \E i \in 1 .. Len(aof.lines) :
        WrittenAt(k, i) /\ (ReadYet(i) => items[k] = image[k])

FileKeeps ==
    /\ ~aof.cut /\ Clean(aof.lines)
    /\ \A k \in known :
         /\ image[k] # None /\ ~Lapsed(image[k], now) => Recalled(k)
         /\ image[k] = None /\ NeverTimed(k, aof.lines) =>
                Buried(aof.lines, k)

NothingKept ==
    /\ items = NoEntries
    /\ RdbEnabled => rdb = None
    /\ \A k \in known : image[k] = None

RestartInv ==
    /\ phase = "load" => RdbEnabled
    /\ IF Serving THEN FramesOK /\ LogInv
       ELSE Fresh /\ IF aof = None THEN NothingKept ELSE FileKeeps

\* The invariant of the file does not read the rest.
LEMMA LogSame ==
    ASSUME FramesOK, LogInv,
           UNCHANGED <<items, now, heap, tmPc, tmItem, rw, rewriting, pc, frame>>,
           aof' # None, aof'.lines = aof.lines, aof'.cut = aof.cut
    PROVE  FramesOK' /\ LogInv'
<1>1. FramesOK'
  BY DEF FramesOK, FrameOK
<1>2. LogWhole'
  BY DEF LogInv, LogWhole, Clean
<1>3. HeapLogged' /\ OwnWrites'
  BY DEF LogInv, HeapLogged, OwnWrites, InHeap, NeverTimed
<1>4. \A k \in Key : InFlight(k)' \/ Tells(k)'
  BY DEF LogInv, InFlight, Tells, Brings, Buried, NeverTimed
<1> QED
  BY <1>1, <1>2, <1>3, <1>4 DEF LogInv

\* A file that is left alone goes on keeping what it keeps.
LEMMA FileKeepsOn ==
    ASSUME DType, FileKeeps, aof # None, UNCHANGED <<aof, image, known>>,
           now' \in Int, now <= now',
           \A k \in known, i \in 1 .. Len(aof.lines) :
               /\ image[k] # None /\ ~Lapsed(image[k], now)
               /\ WrittenAt(k, i) /\ (ReadYet(i) => items[k] = image[k])
               => (ReadYet(i)' => items'[k] = image[k])
    PROVE  FileKeeps'
<1>1. aof.lines \in Seq(Line) /\ now \in Int /\ image \in Snap
      /\ known \subseteq Key
  BY TypeParts, MapAssumption DEF DType, DTypeOK, AofTypeOK, File, MapTypeOK
<1>2. ASSUME NEW k \in known, image[k] # None, ~Lapsed(image[k], now')
      PROVE  Recalled(k)'
  <2>1. ~Lapsed(image[k], now)
    BY <1>1, <1>2, LapsedStays DEF Snap, Slot
  <2>2. PICK i \in 1 .. Len(aof.lines) :
            WrittenAt(k, i) /\ (ReadYet(i) => items[k] = image[k])
    BY <1>2, <2>1 DEF FileKeeps, Recalled
  <2>3. ReadYet(i)' => items'[k] = image[k]
    BY <1>2, <2>1, <2>2
  <2>4. ASSUME NEW j \in i + 1 .. Len(aof.lines), Names(aof.lines[j], k)
        PROVE  ~TakesEffect(aof.lines[j], now')
    <3>1. ~TakesEffect(aof.lines[j], now) /\ aof.lines[j] \in Line
      BY <1>1, <2>2, <2>4 DEF WrittenAt
    <3>2. aof.lines[j].op = "SET" => aof.lines[j].exp \in Int
      BY <3>1, LineIs, MapAssumption
    <3>3. aof.lines[j].op = "SET"
      BY <2>4, <3>1, LineIs DEF TakesEffect, Names
    <3> QED
      BY <1>1, <3>1, <3>2, <3>3 DEF TakesEffect, Lapsed
  <2>5. WrittenAt(k, i)'
    BY <2>2, <2>4 DEF WrittenAt
  <2> QED
    BY <2>2, <2>3, <2>5 DEF Recalled
<1> QED
  BY <1>2 DEF FileKeeps

\* A line that is read brings k back, or leaves it as it is.
LEMMA ReadBack ==
    ASSUME DType, ReplayLine, FileKeeps
    PROVE  FileKeeps'
<1> DEFINE ln == aof.lines[pos]
<1>1. /\ aof.lines \in Seq(Line) /\ Len(aof.lines) \in Nat
      /\ pos \in 1 .. Len(aof.lines) /\ ln \in Line /\ ln.key \in Key
      /\ Parses(ln)
  BY ReplayedLine
<1>2. /\ phase = "replay" /\ phase' = "replay" /\ pos' = pos + 1
      /\ UNCHANGED <<aof, now, image, known>> /\ ApplyLine(ln) /\ aof # None
  BY DEF ReplayLine, aofVars, DType, ReplayFile
<1>3. /\ items \in [Key -> Slot] /\ now \in Int /\ image \in Snap
      /\ known \subseteq Key
  BY TypeParts, MapAssumption DEF DType, DTypeOK, MapTypeOK
<1>4. ASSUME NEW k \in known, NEW i \in 1 .. Len(aof.lines),
             image[k] # None, ~Lapsed(image[k], now),
             WrittenAt(k, i), ReadYet(i) => items[k] = image[k], ReadYet(i)'
      PROVE  items'[k] = image[k]
  <2>0. k \in Key /\ image[k] \in Entry
    BY <1>3, <1>4 DEF Snap, Slot
  <2>1. i < pos \/ i = pos
    BY <1>1, <1>2, <1>4 DEF ReadYet
  <2>2. CASE i < pos
    <3>1. items[k] = image[k]
      BY <1>2, <1>4, <2>2 DEF ReadYet
    <3>2. Names(ln, k) => ~TakesEffect(ln, now)
      <4>1. pos \in i + 1 .. Len(aof.lines)
        BY <1>1, <2>2
      <4> QED
        BY <1>4, <4>1 DEF WrittenAt
    <3>3. CASE ln.key = k
      <4>1. ln.op = "SET" /\ Lapsed(ln, now)
        BY <1>1, <3>2, <3>3, LineIs DEF Names, Parses, TakesEffect
      <4>2. UNCHANGED items
        BY <1>2, <4>1 DEF ApplyLine, mapVars
      <4> QED
        BY <3>1, <4>2
    <3>4. CASE ln.key # k
      <4>1. items'[k] = items[k]
        BY <1>1, <1>2, <1>3, <2>0, <3>4
           DEF ApplyLine, MapDelete, MapSet, mapVars
      <4> QED
        BY <3>1, <4>1
    <3> QED
      BY <3>3, <3>4
  <2>3. CASE i = pos
    <3>1. ln = SetLine(k, image[k].val, image[k].exp)
      BY <1>4, <2>3 DEF WrittenAt
    <3>2. /\ ln.op = "SET" /\ ln.key = k
          /\ ln.val = image[k].val /\ ln.exp = image[k].exp
      BY <3>1, LinesName DEF SetLine
    <3>3. MapSet(k, ln.val, ln.exp)
      BY <1>2, <1>4, <3>2 DEF ApplyLine, Lapsed
    <3>4. items'[k] = [val |-> image[k].val, exp |-> image[k].exp]
      BY <1>3, <2>0, <3>2, <3>3 DEF MapSet
    <3> QED
      BY <2>0, <3>4 DEF Entry
  <2> QED
    BY <2>1, <2>2, <2>3
<1>5. now' \in Int /\ now <= now'
  BY <1>2, <1>3
<1> QED
  BY <1>2, <1>4, <1>5, FileKeepsOn

\* The steps of a process that starts, and the time between processes.
LEMMA StartKeeps ==
    ASSUME DType, AofEnabled, ReplayInv, RestartInv,
           Boot \/ ReplayLine \/ ReplayTruncate \/ ReplayEnd \/ Load
           \/ TimePasses
    PROVE  RestartInv'
<1>1. /\ ~Serving /\ ~Serving' /\ (phase' = "load" => RdbEnabled)
  BY DEF Boot, ReplayLine, ReplayTruncate, ReplayEnd, Load, TimePasses,
     Serving, bootVars, RestartInv
<1>2. /\ UNCHANGED <<heap, tmPc, rw, rewriting, pc, frame, rdb, image, known>>
      /\ UNCHANGED aof \/ ReplayTruncate
  BY DEF Boot, ReplayLine, ReplayTruncate, ReplayEnd, Load, TimePasses, Tick,
     vars, ttlVars, aofVars, rdbVars, svcVars, bootVars
<1>3. Fresh'
  BY <1>1, <1>2 DEF RestartInv, Fresh
<1>4. now \in Int /\ now' \in Int /\ now <= now'
  BY TypeParts, MapAssumption DEF DType, DTypeOK, MapTypeOK, Boot, ReplayLine,
     ReplayTruncate, ReplayEnd, Load, TimePasses, Tick, vars
<1>5. CASE aof = None
  <2>1. NothingKept /\ ~ReplayLine /\ ~ReplayTruncate /\ ~ReplayEnd
    BY <1>1, <1>5 DEF RestartInv, DType, ReplayFile, ReplayLine,
       ReplayTruncate, ReplayEnd
  <2>2. items' = NoEntries
    <3>1. CASE Load
      <4>1. rdb = None
        BY <2>1, <3>1 DEF Load, RestartInv, NothingKept
      <4> QED
        BY <3>1, <4>1 DEF Load, Loaded
    <3>2. CASE Boot \/ TimePasses
      BY <2>1, <3>2 DEF Boot, TimePasses, Tick, vars, mapVars, NothingKept
    <3> QED
      BY <2>1, <3>1, <3>2
  <2>3. NothingKept'
    BY <1>2, <2>1, <2>2 DEF NothingKept
  <2> QED
    BY <1>1, <1>2, <1>3, <1>5, <2>1, <2>3 DEF RestartInv
<1>6. CASE aof # None
  <2>1. FileKeeps /\ ~Load
    BY <1>1, <1>6 DEF RestartInv, ReplayInv, Load
  <2>2. ~ReplayTruncate
    <3>1. pos \in Nat \ {0} /\ aof.lines \in Seq(Line)
      BY <1>6, TypeParts DEF DType, DTypeOK, AofTypeOK, File
    <3>2. pos <= Len(aof.lines) => pos \in 1 .. Len(aof.lines)
      BY <3>1
    <3> QED
      BY <2>1, <3>2 DEF FileKeeps, Clean, ReplayTruncate
  <2>3. FileKeeps'
    <3>1. CASE ReplayLine
      BY <2>1, <3>1, ReadBack
    <3>2. CASE Boot
      <4>1. phase' = "replay" /\ pos' = 1
        BY <1>6, <3>2 DEF Boot
      <4>2. \A i \in 1 .. Len(aof.lines) : ~ReadYet(i)'
        BY <4>1 DEF ReadYet
      <4> QED
        BY <1>2, <1>4, <1>6, <2>1, <2>2, <4>2, FileKeepsOn
    <3>3. CASE ReplayEnd
      <4>1. /\ phase = "replay" /\ pos > Len(aof.lines) /\ UNCHANGED items
        BY <3>3 DEF ReplayEnd, vars, mapVars
      <4>2. \A i \in 1 .. Len(aof.lines) : ReadYet(i)
        <5>1. pos \in Nat /\ aof.lines \in Seq(Line)
          BY <1>6, TypeParts DEF DType, DTypeOK, AofTypeOK, File
        <5>2. Len(aof.lines) \in Nat
          BY <5>1
        <5> QED
          BY <4>1, <5>1, <5>2 DEF ReadYet
      <4> QED
        BY <1>2, <1>4, <1>6, <2>1, <2>2, <4>1, <4>2, FileKeepsOn
    <3>4. CASE TimePasses
      <4>1. UNCHANGED <<items, phase, pos>>
        BY <3>4 DEF TimePasses, Tick, mapVars, bootVars
      <4>2. \A i \in 1 .. Len(aof.lines) : ReadYet(i)' <=> ReadYet(i)
        BY <4>1 DEF ReadYet
      <4> QED
        BY <1>2, <1>4, <1>6, <2>1, <2>2, <4>1, <4>2, FileKeepsOn
    <3> QED
      BY <2>1, <2>2, <3>1, <3>2, <3>3, <3>4
  <2> QED
    BY <1>1, <1>2, <1>3, <1>6, <2>2, <2>3 DEF RestartInv
<1> QED
  BY <1>5, <1>6

\* A process that opens for business has, in its file, what it holds.
LEMMA OpenKeeps ==
    ASSUME DType, DType', AofEnabled, ~IoFaults, ReplayInv, RestartInv, Open
    PROVE  RestartInv'
<1>1. /\ phase = "open" /\ phase' = "up" /\ aof' = Opened(aof) /\ aofOpen'
      /\ UNCHANGED <<items, now, heap, tmPc, tmItem, rw, rewriting, pc, frame>>
  BY DEF Open, mapVars, ttlVars
<1>2. Fresh
  BY <1>1 DEF RestartInv, Serving
<1>3. aof' # None /\ aof'.lines \in Seq(Line)
  BY <1>1, TypeParts, AofAssumption DEF DType, DTypeOK, AofTypeOK, File
<1>4. FramesOK' /\ HeapLogged' /\ OwnWrites'
  BY <1>1, <1>2 DEF Fresh, FramesOK, FrameOK, HeapLogged, InHeap, OwnWrites,
     Written, Writing
<1>5. CASE aof = None
  <2>1. aof' = EmptyFile /\ items = NoEntries
    BY <1>1, <1>5 DEF Opened, RestartInv, NothingKept, Serving
  <2>2. Len(aof'.lines) = 0 /\ ~aof'.cut
    BY <2>1 DEF EmptyFile
  <2>3. LogWhole'
    BY <1>1, <1>2, <1>3, <2>2 DEF LogWhole, Clean, Fresh
  <2>4. \A k \in Key : Tells(k)'
    BY <1>1, <2>1, <2>2 DEF Tells, Buried, NoEntries
  <2> QED
    BY <1>1, <1>4, <2>3, <2>4 DEF RestartInv, LogInv, Serving
<1>6. CASE aof # None
  <2>1. aof' = aof /\ FileKeeps
    BY <1>1, <1>6 DEF Opened, RestartInv, Serving
  <2>2. Built(aof.lines)
    BY <1>1, <1>6 DEF ReplayInv, LinesRead
  <2>3. LogWhole'
    BY <1>1, <1>2, <1>3, <2>1 DEF LogWhole, Clean, Fresh, FileKeeps
  <2>4. ASSUME NEW k \in Key PROVE Tells(k)
    <3>1. items[k] # None => Brings(aof.lines, k, items[k], now)
      BY <2>2 DEF Built
    <3>2. ASSUME items[k] = None, NeverTimed(k, aof.lines)
          PROVE  Buried(aof.lines, k)
      <4>1. Faded(aof.lines, k, now)
        BY <2>2, <3>2 DEF Built
      <4>2. ASSUME NEW i \in 1 .. Len(aof.lines), Names(aof.lines[i], k)
            PROVE  TakesEffect(aof.lines[i], now)
        <5>1. aof.lines[i] \in Line
          BY <1>3, <2>1
        <5>2. i \in DOMAIN aof.lines
          BY <1>3, <2>1
        <5> QED
          BY <3>2, <4>2, <5>1, <5>2, LineIs
             DEF Names, NeverTimed, TakesEffect, Lapsed
      <4> QED
        BY <4>1, <4>2 DEF Faded, Buried
    <3> QED
      BY <3>1, <3>2 DEF Tells
  <2>5. \A k \in Key : Tells(k)'
    BY <1>1, <2>1, <2>4 DEF Tells, Brings, Buried, NeverTimed
  <2> QED
    BY <1>1, <1>4, <2>3, <2>5 DEF RestartInv, LogInv, Serving
<1> QED
  BY <1>5, <1>6

\* A process that ends leaves a file that restores what is settled.
LEMMA EndKeeps ==
    ASSUME DType, AofEnabled, RestartInv, phase # "down", Remember(Settled),
           Forget, UNCHANGED aof
    PROVE  RestartInv'
<1>1. /\ phase' = "down" /\ items' = NoEntries /\ UNCHANGED <<now, rdb>>
      /\ Fresh'
  BY DEF Forget, Fresh, RwIdle
<1>2. \A i : ~ReadYet(i)'
  BY <1>1 DEF ReadYet
<1>3. now \in Int /\ now' \in Int /\ now <= now'
  BY <1>1, TypeParts, MapAssumption DEF DType, DTypeOK, MapTypeOK
<1>4. CASE Serving
  <2>1. LogInv /\ image' = items /\ known' = Settled
    BY <1>4 DEF RestartInv, Remember, Loading, Serving
  <2>2. aof # None /\ ~aof.cut /\ Clean(aof.lines)
    BY <2>1 DEF LogInv, LogWhole
  <2>3. ASSUME NEW k \in Settled PROVE Tells(k)
    BY <2>1 DEF LogInv, Settled
  <2>4. ASSUME NEW k \in Settled, items[k] # None, ~Lapsed(items[k], now)
        PROVE  Recalled(k)'
    <3>1. Brings(aof.lines, k, items[k], now)
      BY <2>3, <2>4 DEF Tells
    <3> QED
      BY <1>1, <1>2, <2>1, <3>1 DEF Brings, Recalled, WrittenAt
  <2>5. FileKeeps'
    BY <1>1, <2>1, <2>2, <2>3, <2>4 DEF FileKeeps, Tells, Clean, NeverTimed, Buried
  <2> QED
    BY <1>1, <2>2, <2>5 DEF RestartInv, Serving
<1>5. CASE ~Serving
  <2>1. UNCHANGED <<image, known>>
    BY <1>5 DEF Remember, Loading, Serving, DType, DTypeOK
  <2>2. CASE aof = None
    BY <1>1, <1>5, <2>1, <2>2 DEF RestartInv, NothingKept, Serving
  <2>3. CASE aof # None
    <3>1. FileKeeps
      BY <1>5, <2>3 DEF RestartInv
    <3>2. FileKeeps'
      BY <1>2, <1>3, <2>1, <2>3, <3>1, FileKeepsOn
    <3> QED
      BY <1>1, <2>3, <3>2 DEF RestartInv, Serving
  <2> QED
    BY <2>2, <2>3
<1> QED
  BY <1>4, <1>5

\* The steps of Stop leave the lines alone.
LEMMA StopKeeps ==
    ASSUME DType, DType', RestartInv,
           \/ Signal \/ Drained \/ LoopDone \/ StopTtl \/ StopSave \/ StopSaved
           \/ StopSync \/ StopClose
    PROVE  RestartInv'
<1>1. /\ Serving /\ Serving' /\ phase' # "load"
      /\ UNCHANGED <<items, now, heap, tmPc, tmItem, rw, rewriting, pc, frame>>
  BY DEF Signal, Drained, LoopDone, StopTtl, TtlStop, StopSave, StopSaved,
     StopSync, AofSync, StopClose, AofClose, Turn, AfterSave, Serving, vars,
     mapVars, ttlVars, aofVars, svcVars, bootVars
<1>2. FramesOK /\ LogInv /\ aof # None
  BY <1>1 DEF RestartInv, LogInv, LogWhole
<1>3. aof \in File
  BY <1>2, TypeParts DEF DType, DTypeOK, AofTypeOK
<1>4. aof' = aof \/ aof' = [aof EXCEPT !.synced = Len(aof.lines)]
  BY DEF Signal, Drained, LoopDone, StopTtl, StopSave, StopSaved, StopSync,
     AofSync, StopClose, AofClose, vars, aofVars
<1>5. aof'.lines = aof.lines /\ aof'.cut = aof.cut /\ aof' # None
  <2>1. CASE aof' = aof
    BY <1>2, <2>1
  <2>2. CASE aof' = [aof EXCEPT !.synced = Len(aof.lines)]
    <3>1. Len(aof.lines) \in Nat
      BY <1>3 DEF File
    <3>2. aof' \in File
      BY <1>3, <2>2, <3>1 DEF File
    <3> QED
      BY <1>3, <2>2, <3>2, AofAssumption DEF File
  <2> QED
    BY <1>4, <2>1, <2>2
<1>6. FramesOK' /\ LogInv'
  BY <1>1, <1>2, <1>5, LogSame
<1> QED
  BY <1>1, <1>6 DEF RestartInv

LEMMA RestartNext ==
    ASSUME AofEnabled, ~IoFaults, TabKey = {}, RewriteThreshold = 0, OneWriter,
           "power" \notin Ends, DType, DType', ReplayInv, RestartInv,
           [DNext]_dvars
    PROVE  RestartInv'
<1>1. CASE Boot \/ ReplayLine \/ ReplayTruncate \/ ReplayEnd \/ Load
           \/ TimePasses
  BY <1>1, StartKeeps
<1>2. CASE Open
  BY <1>2, OpenKeeps
<1>3. CASE \/ Signal \/ Drained \/ LoopDone \/ StopTtl \/ StopSave \/ StopSaved
           \/ StopSync \/ StopClose
  BY <1>3, StopKeeps
<1>4. CASE Exit \/ Kill
  <2>1. phase # "down" /\ Remember(Settled) /\ Forget /\ UNCHANGED aof
    BY <1>4 DEF Exit, Kill
  <2> QED
    BY <2>1, EndKeeps
<1>5. CASE Accept \/ Ticking \/ Working
  <2>1. Next /\ UNCHANGED phase /\ Serving
    BY <1>5 DEF Accept, Ticking, Working, Next, Serving, bootVars
  <2>2. FramesOK /\ LogInv /\ TypeOK /\ TypeOK'
    BY <2>1 DEF RestartInv, DType, DTypeOK
  <2>3. FramesOK' /\ LogInv'
    BY <2>1, <2>2, LogNext
  <2> QED
    BY <2>1, <2>3 DEF RestartInv, Serving
<1>6. CASE UNCHANGED dvars
  BY <1>6 DEF dvars, vars, mapVars, ttlVars, aofVars, rdbVars, svcVars,
     bootVars, RestartInv, Serving, Fresh, FramesOK, FrameOK, LogInv, LogWhole,
     HeapLogged, InHeap, OwnWrites, InFlight, Tells, NothingKept, FileKeeps,
     Recalled, WrittenAt, ReadYet
<1>7. ~PowerLoss
  BY DEF PowerLoss
<1> QED
  BY <1>1, <1>2, <1>3, <1>4, <1>5, <1>6, <1>7 DEF DNext, Startup, Shutdown

LEMMA NothingToRestart ==
    ASSUME DInit, RdbEnabled => Found = None
    PROVE  RestartInv
<1>1. /\ phase = "down" /\ aof = None /\ items = NoEntries /\ rdb = Found
      /\ heap = [i \in Item |-> 0] /\ tmPc = "loop" /\ rw = RwIdle
      /\ rewriting = FALSE /\ pc = [p \in Worker |-> "idle"]
      /\ frame = [t \in Thread |-> None]
      /\ known = IF RdbEnabled THEN Key ELSE {}
      /\ image = Loaded(Found, 0)
  BY DEF DInit, MapInit, NoEntries, TtlInit, AofFresh, SvcFresh
<1>2. \A k \in known : image[k] = None
  BY <1>1 DEF Loaded, NoEntries
<1> QED
  BY <1>1, <1>2 DEF RestartInv, Serving, Fresh, RwIdle, NothingKept

\* spec.md:14, service.go:96-107: with the AOF, whether the processes before
\* stopped, were killed in the middle of any step, or were killed again while
\* they were still replaying, and however far the clock has moved on, a server
\* that is about to listen has every key no handler was writing when the last
\* process ended: the value and the expiry it had, unless it has expired, and
\* nothing for a key that was deleted and never had a TTL.  The hypotheses are
\* those of LogIsDurable, and that what was written is still in the file (the
\* machine goes on) and no snapshot is loaded in its stead (an AOF that is
\* missing at the first start).
THEOREM LogRestarts ==
    ASSUME AofEnabled, ~IoFaults, TabKey = {}, RewriteThreshold = 0, OneWriter,
           "power" \notin Ends, RdbEnabled => Found = None
    PROVE  DSpec => []RestartKeeps
<1> DEFINE I == DType /\ ReplayInv /\ RestartInv
<1>1. DInit => I
  BY DInitType, NothingToRestart DEF DInit, ReplayInv, MapInit, NoEntries
<1>2. I /\ [DNext]_dvars => I'
  BY DNextType, ReplayNext, RestartNext
<1>3. I => RestartKeeps
  <2>1. SUFFICES ASSUME I, phase = "open", NEW k \in known
                 PROVE  /\ image[k] # None /\ ~Lapsed(image[k], now) =>
                               items[k] = image[k]
                        /\ image[k] = None
                           /\ (aof # None => NeverTimed(k, aof.lines))
                               => items[k] = None
    BY DEF RestartKeeps
  <2>2. k \in Key
    BY <2>1 DEF DType, DTypeOK
  <2>3. CASE aof = None
    BY <2>1, <2>2, <2>3 DEF RestartInv, Serving, NothingKept, NoEntries
  <2>4. CASE aof # None
    <3>1. FileKeeps /\ Built(aof.lines) /\ aof.lines \in Seq(Line)
      BY <2>1, <2>4, TypeParts
         DEF RestartInv, Serving, ReplayInv, LinesRead, DType, DTypeOK,
             AofTypeOK, File
    <3>2. image[k] # None /\ ~Lapsed(image[k], now) => items[k] = image[k]
      BY <2>1, <3>1 DEF FileKeeps, Recalled, ReadYet
    <3>3. ASSUME image[k] = None, NeverTimed(k, aof.lines)
          PROVE  items[k] = None
      <4>1. Recovered(aof.lines, now)[k] = None
        BY <2>1, <2>2, <3>1, <3>3, NotBroughtBack DEF FileKeeps
      <4> QED
        BY <2>1, <2>2, <3>1, <3>3, <4>1, BuiltAgrees
    <3> QED
      BY <2>4, <3>2, <3>3
  <2> QED
    BY <2>3, <2>4
<1> QED
  BY <1>1, <1>2, <1>3, PTL DEF DSpec

\* spec.md:14, persistence.go:59-93: from the first append of a process to its
\* exit, in the first life of the server and in every later one, the file
\* restores every key no handler is writing.  A restored entry is in the map
\* with no deadline, or was passed over in Replay because it had lapsed, and in
\* neither case do the lines that the process adds falsify those it found.
THEOREM LogServesAlways ==
    ASSUME AofEnabled, ~IoFaults, TabKey = {}, RewriteThreshold = 0, OneWriter,
           "power" \notin Ends, RdbEnabled => Found = None
    PROVE  DSpec => []LogServes
<1> DEFINE I == DType /\ ReplayInv /\ RestartInv
<1>1. DInit => I
  BY DInitType, NothingToRestart DEF DInit, ReplayInv, MapInit, NoEntries
<1>2. I /\ [DNext]_dvars => I'
  BY DNextType, ReplayNext, RestartNext
<1>3. I => LogServes
  BY LogRestores DEF LogServes, RestartInv, DType, DTypeOK
<1> QED
  BY <1>1, <1>2, <1>3, PTL DEF DSpec

-----------------------------------------------------------------------------
(* What a restart from a snapshot brings back *)

\* The snapshot, and then the store, have what is remembered.
Recovers(f) ==
    \A k \in known :
        /\ NoTtls /\ image[k] = None => f[k] = None
        /\ image[k] # None /\ ~Lapsed(image[k], now) => f[k] = image[k]

LoadInv ==
    /\ ~Serving => Recovers(Loaded(rdb, now))
    /\ phase = "open" => Recovers(items)
    /\ phase # "replay"

\* Time takes from a snapshot only what it takes from the image.
LEMMA RecoversOn ==
    ASSUME DType, UNCHANGED <<image, known, rdb>>, now' \in Int, now <= now',
           Recovers(Loaded(rdb, now))
    PROVE  Recovers(Loaded(rdb, now))'
<1>1. /\ now \in Int /\ image \in Snap /\ known \subseteq Key
      /\ rdb \in Snap \cup {None, Blank}
  BY TypeParts, MapAssumption DEF DType, DTypeOK, MapTypeOK, RdbTypeOK
<1>2. ASSUME NEW k \in known
      PROVE  /\ NoTtls /\ image[k] = None => Loaded(rdb, now')[k] = None
             /\ image[k] # None /\ ~Lapsed(image[k], now') =>
                    Loaded(rdb, now')[k] = image[k]
  <2>1. k \in Key /\ (image[k] # None => image[k] \in Entry)
    BY <1>1 DEF Snap, Slot
  <2>2. /\ NoTtls /\ image[k] = None => Loaded(rdb, now)[k] = None
        /\ image[k] # None /\ ~Lapsed(image[k], now) =>
               Loaded(rdb, now)[k] = image[k]
    BY DEF Recovers
  <2>3. image[k] # None /\ ~Lapsed(image[k], now') => ~Lapsed(image[k], now)
    BY <1>1, <2>1, LapsedStays
  <2>4. CASE rdb \in {None, Blank}
    BY <2>1, <2>2, <2>3, <2>4 DEF Loaded
  <2>5. CASE rdb \notin {None, Blank}
    <3>1. rdb[k] # None => rdb[k] \in Entry
      BY <1>1, <2>1, <2>5 DEF Snap, Slot
    <3>2. /\ Loaded(rdb, now)[k] = IF rdb[k] # None /\ ~Lapsed(rdb[k], now)
                                   THEN rdb[k] ELSE None
          /\ Loaded(rdb, now')[k] = IF rdb[k] # None /\ ~Lapsed(rdb[k], now')
                                    THEN rdb[k] ELSE None
      BY <2>1, <2>5 DEF Loaded
    <3>3. rdb[k] # None /\ Lapsed(rdb[k], now) => Lapsed(rdb[k], now')
      BY <1>1, <3>1, LapsedStays
    <3> QED
      BY <2>2, <2>3, <3>2, <3>3
  <2> QED
    BY <2>4, <2>5
<1> QED
  BY <1>2 DEF Recovers

LEMMA StoreRecoversOn ==
    ASSUME DType, UNCHANGED <<image, known, items>>, now' \in Int, now <= now',
           Recovers(items)
    PROVE  Recovers(items)'
<1>1. now \in Int /\ image \in Snap /\ known \subseteq Key
  BY TypeParts, MapAssumption DEF DType, DTypeOK, MapTypeOK
<1>2. ASSUME NEW k \in known, image[k] # None, ~Lapsed(image[k], now')
      PROVE  ~Lapsed(image[k], now)
  BY <1>1, <1>2, LapsedStays DEF Snap, Slot
<1> QED
  BY <1>2 DEF Recovers

LEMMA LoadNext ==
    ASSUME ~AofEnabled, RdbEnabled, DType, DType', StopInv, LoadInv,
           [DNext]_dvars
    PROVE  LoadInv'
<1>1. now \in Int /\ now <= now
  BY TypeParts, MapAssumption DEF DType, DTypeOK, MapTypeOK
<1>2. CASE Boot
  <2>1. /\ phase' = "load" /\ ~Serving /\ UNCHANGED <<now, image, known, rdb>>
    BY <1>2 DEF Boot, Serving, vars, rdbVars
  <2>2. Recovers(Loaded(rdb, now))'
    BY <1>1, <2>1, RecoversOn DEF LoadInv
  <2> QED
    BY <2>1, <2>2 DEF LoadInv
<1>3. CASE Load
  <2>1. /\ phase' = "open" /\ ~Serving /\ UNCHANGED <<now, image, known, rdb>>
        /\ items' = Loaded(rdb, now)
    BY <1>3 DEF Load, Serving, rdbVars
  <2>2. Recovers(Loaded(rdb, now))'
    BY <1>1, <2>1, RecoversOn DEF LoadInv
  <2>3. Recovers(items)'
    BY <2>1, <2>2 DEF Recovers
  <2> QED
    BY <2>1, <2>2, <2>3 DEF LoadInv
<1>4. CASE TimePasses
  <2>1. /\ UNCHANGED <<phase, image, known, rdb, items>> /\ ~Serving
        /\ now' \in Int /\ now <= now'
    BY <1>1, <1>4 DEF TimePasses, Tick, bootVars, rdbVars, mapVars
  <2>2. Recovers(Loaded(rdb, now))'
    BY <2>1, RecoversOn DEF LoadInv
  <2>3. phase = "open" => Recovers(items)'
    BY <2>1, StoreRecoversOn DEF LoadInv
  <2> QED
    BY <2>1, <2>2, <2>3 DEF LoadInv
<1>5. CASE Exit
  <2>1. /\ phase' = "down" /\ UNCHANGED <<now, rdb>>
        /\ image' = items /\ known' \subseteq Key
    BY <1>5 DEF Exit, Remember, Loading, Settled, Forget
  <2>2. Full(rdb)
    BY <1>5 DEF Exit, StopInv, RdbKept
  <2>3. \A k \in Key : Keeps(Loaded(rdb, now), k)
    BY <2>2, FullLoads
  <2>4. Recovers(Loaded(rdb, now))'
    BY <2>1, <2>3 DEF Keeps, Recovers
  <2> QED
    BY <2>1, <2>4 DEF LoadInv
<1>6. CASE Kill \/ PowerLoss
  <2>1. phase' = "down" /\ UNCHANGED <<now, rdb>> /\ phase # "down"
    BY <1>6 DEF Kill, PowerLoss, Forget
  <2>2. known' = {} \/ (Loading /\ UNCHANGED <<image, known>>)
    <3>1. CASE Kill
      BY <3>1 DEF Kill, Remember
    <3>2. CASE PowerLoss
      BY <3>2 DEF PowerLoss, Synced
    <3> QED
      BY <1>6, <3>1, <3>2
  <2>3. CASE Loading /\ UNCHANGED <<image, known>>
    <3>1. ~Serving
      BY <2>1, <2>3 DEF Loading, Serving
    <3>2. Recovers(Loaded(rdb, now))'
      BY <1>1, <2>1, <2>3, <3>1, RecoversOn DEF LoadInv
    <3> QED
      BY <2>1, <3>2 DEF LoadInv
  <2>4. CASE known' = {}
    BY <2>1, <2>4 DEF LoadInv, Recovers
  <2> QED
    BY <2>2, <2>3, <2>4
<1>7. CASE Open \/ (Shutdown /\ ~Exit) \/ Accept \/ Ticking \/ Working
  <2>1. Serving'
    BY <1>7 DEF Open, Shutdown, Signal, Drained, LoopDone, StopTtl, StopSave,
       StopSaved, StopSync, StopClose, Turn, AfterSave, Accept, Ticking,
       Working, Serving, bootVars
  <2> QED
    BY <2>1 DEF LoadInv, Serving
<1>8. CASE ReplayLine \/ ReplayTruncate \/ ReplayEnd
  BY <1>8 DEF ReplayLine, ReplayTruncate, ReplayEnd, LoadInv
<1>9. CASE UNCHANGED dvars
  BY <1>9 DEF dvars, vars, mapVars, rdbVars, bootVars, LoadInv, Serving,
     Recovers
<1> QED
  BY <1>2, <1>3, <1>4, <1>5, <1>6, <1>7, <1>8, <1>9
     DEF DNext, Startup, Shutdown

LEMMA LoadInit ==
    ASSUME DInit
    PROVE  LoadInv
<1>1. phase = "down" /\ image = Loaded(rdb, now)
  BY DEF DInit
<1> QED
  BY <1>1 DEF LoadInv, Recovers

LEMMA LoadAlways ==
    ASSUME ~AofEnabled, RdbEnabled, ~IoFaults, ~HandlersOutlive
    PROVE  DType /\ StopInv /\ LoadInv /\ [DNext]_dvars =>
               (DType /\ StopInv /\ LoadInv)'
<1>1. SUFFICES ASSUME DType, StopInv, LoadInv, [DNext]_dvars
               PROVE  (DType /\ StopInv /\ LoadInv)'
  OBVIOUS
<1>2. DType'
  BY <1>1, DNextType
<1>3. StopInv'
  BY <1>1, <1>2, StopNext
<1>4. LoadInv'
  BY <1>1, <1>2, LoadNext
<1> QED
  BY <1>2, <1>3, <1>4

\* spec.md:14, service.go:75-94, 109-116: with snapshots alone, a server that
\* was stopped gracefully comes back with every entry that has not expired and
\* with nothing that was deleted, also when a start after the stop is killed
\* while it loads, and in the first process with what was found on disk.  (A
\* process that is killed while it serves leaves no such promise: known says
\* so.)
THEOREM SnapshotRestarts ==
    ASSUME ~AofEnabled, RdbEnabled, ~IoFaults, ~HandlersOutlive, NoTtls
    PROVE  DSpec => []RestartKeeps
<1> DEFINE I == DType /\ StopInv /\ LoadInv
<1>1. DInit => I
  BY LoadInit, DInitType, NothingStopped
<1>2. I /\ [DNext]_dvars => I'
  BY LoadAlways
<1>3. I => RestartKeeps
  BY DEF LoadInv, Recovers, RestartKeeps
<1> QED
  BY <1>1, <1>2, <1>3, PTL DEF DSpec

\* What a restart must not lose, keys with TTLs included.
LiveBack ==
    phase = "open" =>
        \A k \in known : image[k] # None /\ ~Lapsed(image[k], now) =>
                             items[k] = image[k]

\* The same for requests with TTLs: nothing that can still be served is lost,
\* neither a value nor an expiry.  (What may come back is a key that expired
\* after the last snapshot had scanned it.)
THEOREM SnapshotRestartsLive ==
    ASSUME ~AofEnabled, RdbEnabled, ~IoFaults, ~HandlersOutlive
    PROVE  DSpec => []LiveBack
<1> DEFINE I == DType /\ StopInv /\ LoadInv
<1>1. DInit => I
  BY LoadInit, DInitType, NothingStopped
<1>2. I /\ [DNext]_dvars => I'
  BY LoadAlways
<1>3. I => LiveBack
  BY DEF LoadInv, Recovers, LiveBack
<1> QED
  BY <1>1, <1>2, <1>3, PTL DEF DSpec
=============================================================================
