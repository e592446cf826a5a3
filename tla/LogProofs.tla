------------------------------ MODULE LogProofs ------------------------------
(***************************************************************************)
(* Theorems about the append-only file, for any keys, goroutines and       *)
(* bounds: while nothing is rewritten the file says what the store holds,  *)
(* and the file a rewrite builds misses nothing that handlers do meanwhile.*)
(***************************************************************************)
EXTENDS ServiceProofs, SumProofs, SequenceTheorems

USE DEF Time, Expiry, Worker

-----------------------------------------------------------------------------
(* What lines say of a key *)

Names(ln, k) == ln.op # "BROKEN" /\ ln.key = k

Clean(lines) == \A i \in 1 .. Len(lines) : Parses(lines[i])

Silent(lines, k) == \A i \in 1 .. Len(lines) : ~Names(lines[i], k)

\* The last line that names k is ln.
LastIs(lines, k, ln) ==
    \E i \in 1 .. Len(lines) :
        /\ lines[i] = ln /\ Names(ln, k)
        /\ \A j \in i + 1 .. Len(lines) : ~Names(lines[j], k)

\* A line sets k to e, and what follows it is without effect at instant t.
Brings(lines, k, e, t) ==
    \E i \in 1 .. Len(lines) :
        /\ lines[i] = SetLine(k, e.val, e.exp)
        /\ \A j \in i + 1 .. Len(lines) :
               Names(lines[j], k) => ~TakesEffect(lines[j], t)

\* Every line that sets k is followed by one that deletes it.
Buried(lines, k) ==
    \A i \in 1 .. Len(lines) :
        Names(lines[i], k) =>
            \E j \in i .. Len(lines) : lines[j] = DelLine(k)

\* Where a handler has changed the map and not the file.
Writing == {"account", "append"}

\* Where a handler that set an entry has written its line.
Written == {"count", "auto", "last", "rules", "lock", "save", "reset", "arm"}

-----------------------------------------------------------------------------
(* What the handlers bring along *)

\* No key is written by two goroutines.
OneWriter ==
    \A t \in Thread, u \in Thread :
        \A r \in Workload[t], q \in Workload[u] :
            t # u /\ r.op \in {"set", "del"} /\ q.op \in {"set", "del"} =>
                r.key # q.key

\* A deadline is that of a Set with a TTL, and such a Set has one.
FrameOK(t) ==
    frame[t] # None =>
        /\ frame[t].req \in Workload[t]
        /\ frame[t].exp > 0 => frame[t].req.op = "set" /\ frame[t].req.ttl > 0
        /\ pc[t] \in {"check", "store", "account", "append"}
           /\ frame[t].req.op = "set" /\ frame[t].req.ttl > 0
               => frame[t].exp > 0

FramesOK == \A t \in Thread : FrameOK(t)

-----------------------------------------------------------------------------
(* The file while nothing is rewritten *)

LogWhole ==
    /\ aof # None /\ ~aof.cut /\ Clean(aof.lines)
    /\ rw.pc = "off" /\ ~rewriting

\* A key that may be popped has a line with an expiry.
HeapLogged ==
    /\ \A i \in Item : InHeap(i) => ~NeverTimed(i[1], aof.lines)
    /\ tmPc \in {"wait", "expire"} => ~NeverTimed(tmItem[1], aof.lines)
    /\ \A t \in Thread :
         pc[t] \in Written /\ frame[t] # None /\ frame[t].exp > 0 =>
             ~NeverTimed(frame[t].req.key, aof.lines)

\* What a handler wrote is in the map until its line is, unless it expired.
OwnWrites ==
    \A t \in Thread : pc[t] \in Writing =>
        \/ /\ frame[t].req.op = "set"
           /\ items[frame[t].req.key] =
                  [val |-> frame[t].req.val, exp |-> frame[t].exp]
        \/ /\ frame[t].req.op = "set"
           /\ items[frame[t].req.key] = None
           /\ ~NeverTimed(frame[t].req.key, aof.lines)
        \/ frame[t].req.op = "del" /\ items[frame[t].req.key] = None

Tells(k) ==
    /\ items[k] # None /\ ~Lapsed(items[k], now) =>
           Brings(aof.lines, k, items[k], now)
    /\ items[k] = None /\ NeverTimed(k, aof.lines) => Buried(aof.lines, k)

LogInv ==
    /\ LogWhole /\ HeapLogged /\ OwnWrites
    /\ \A k \in Key : InFlight(k) \/ Tells(k)

-----------------------------------------------------------------------------
(* The file a rewrite builds *)

TimedKey(k) ==
    \E t \in Thread : \E r \in Workload[t] :
        r.op = "set" /\ r.key = k /\ r.ttl > 0

\* A key is set with a TTL always or never.
Uniform ==
    \A t \in Thread, u \in Thread :
        \A r \in Workload[t], q \in Workload[u] :
            r.op = "set" /\ q.op = "set" /\ r.key = q.key =>
                (r.ttl > 0 <=> q.ttl > 0)

OnlyTimed(lines) ==
    \A i \in 1 .. Len(lines) :
        lines[i].op = "SET" /\ TimedKey(lines[i].key) => lines[i].exp > 0

\* What the new file holds, and what is still to be added to it.
NewPart  == IF rw.pc \in {"off", "open"} THEN <<>> ELSE aofTmp.lines
RestPart == IF rw.pc \in {"swap", "renaming"} THEN Unflushed ELSE incrBuf

Scanned(k) ==
    \/ rw.pc \in {"copy", "flush", "swap", "renaming"}
    \/ rw.pc = "scan" /\ ShardOf[k] < rw.shard

\* The last line for k, first among the lines to be added.
Said(p, q, k, ln) == LastIs(q, k, ln) \/ (Silent(q, k) /\ LastIs(p, k, ln))

Unsaid(p, q, k) == Silent(p, k) /\ Silent(q, k)

TimedOnly ==
    /\ \A i \in Item : InHeap(i) => TimedKey(i[1])
    /\ tmPc \in {"wait", "expire"} => TimedKey(tmItem[1])
    /\ \A k \in Key : items[k] # None /\ TimedKey(k) => items[k].exp > 0

OwnEntries ==
    \A t \in Thread : pc[t] \in Writing =>
        \/ /\ frame[t].req.op = "set"
           /\ items[frame[t].req.key] =
                  [val |-> frame[t].req.val, exp |-> frame[t].exp]
        \/ /\ frame[t].req.op = "set"
           /\ items[frame[t].req.key] = None
           /\ TimedKey(frame[t].req.key)
        \/ frame[t].req.op = "del" /\ items[frame[t].req.key] = None

NewParts ==
    /\ rw.pc # "off" <=> rewriting
    /\ rw.at <= now
    /\ rw.pc \in {"flush", "swap", "renaming"} =>
           /\ Len(rw.buf) <= Len(incrBuf)
           /\ rw.buf = SubSeq(incrBuf, 1, Len(rw.buf))
    /\ Clean(NewPart) /\ Clean(incrBuf)
    /\ OnlyTimed(NewPart) /\ OnlyTimed(incrBuf)
    /\ \A k \in Key : ~Scanned(k) => Silent(NewPart, k)
    /\ rw.pc = "open" => rw.shard = 1

Covers(k) ==
    /\ items[k] # None /\ ~Lapsed(items[k], now) =>
           \/ Said(NewPart, RestPart, k, EntryLine(k))
           \/ ~Scanned(k) /\ Unsaid(NewPart, RestPart, k)
    /\ items[k] = None /\ ~TimedKey(k) =>
           \/ Said(NewPart, RestPart, k, DelLine(k))
           \/ Unsaid(NewPart, RestPart, k)

RwInv ==
    /\ TimedOnly /\ OwnEntries /\ NewParts
    /\ rw.pc # "off" => \A k \in Key : InFlight(k) \/ Covers(k)

-----------------------------------------------------------------------------
(* Lemmas about lines *)

\* A line is a SET, a DEL, or cannot be read.
LEMMA LineIs ==
    ASSUME NEW ln \in Line
    PROVE  \/ /\ ln.op = "SET" /\ ln.key \in Key
              /\ ln.val \in Value /\ ln.exp \in Expiry
              /\ ln = SetLine(ln.key, ln.val, ln.exp)
           \/ ln.op = "DEL" /\ ln.key \in Key /\ ln = DelLine(ln.key)
           \/ ln.op = "BROKEN"
<1>1. CASE ln \in [op : {"SET"}, key : Key, val : Value, exp : Expiry]
  BY <1>1 DEF SetLine
<1>2. CASE ln \in [op : {"DEL"}, key : Key]
  BY <1>2 DEF DelLine
<1>3. CASE ln = Broken
  BY <1>3 DEF Broken
<1> QED
  BY <1>1, <1>2, <1>3 DEF Line

\* What the two kinds of lines name.
LEMMA LinesName ==
    ASSUME NEW k, NEW j, NEW v, NEW x
    PROVE  /\ Names(SetLine(k, v, x), j) <=> j = k
           /\ Names(DelLine(k), j) <=> j = k
           /\ SetLine(k, v, x).op = "SET" /\ SetLine(k, v, x).key = k
           /\ SetLine(k, v, x).exp = x /\ SetLine(k, v, x).val = v
           /\ DelLine(k).op = "DEL" /\ DelLine(k).key = k
           /\ SetLine(k, v, x) # DelLine(j)
BY DEF Names, SetLine, DelLine

\* The lines of an appended sequence.
LEMMA AppendIs ==
    ASSUME NEW a \in Seq(Line), NEW ln \in Line
    PROVE  /\ Append(a, ln) \in Seq(Line)
           /\ Len(Append(a, ln)) = Len(a) + 1
           /\ Len(a) \in Nat
           /\ \A i \in 1 .. Len(a) : Append(a, ln)[i] = a[i]
           /\ Append(a, ln)[Len(a) + 1] = ln
OBVIOUS

\* A line appended is the last one for its key,
LEMMA LastAppended ==
    ASSUME NEW a \in Seq(Line), NEW ln \in Line, NEW k, Names(ln, k)
    PROVE  LastIs(Append(a, ln), k, ln)
<1> DEFINE b == Append(a, ln)
<1>1. Len(b) = Len(a) + 1 /\ b[Len(a) + 1] = ln /\ Len(a) \in Nat
  BY AppendIs
<1> HIDE DEF b
<1>2. Len(a) + 1 \in 1 .. Len(b) /\ (Len(a) + 1) + 1 .. Len(b) = {}
  BY <1>1
<1> QED
  BY <1>1, <1>2 DEF LastIs, b

\* and changes nothing for the others.
LEMMA OthersAppended ==
    ASSUME NEW a \in Seq(Line), NEW ln \in Line, NEW k, ~Names(ln, k)
    PROVE  /\ Silent(a, k) => Silent(Append(a, ln), k)
           /\ \A x : LastIs(a, k, x) => LastIs(Append(a, ln), k, x)
           /\ \A e, t : Brings(a, k, e, t) => Brings(Append(a, ln), k, e, t)
           /\ Buried(a, k) => Buried(Append(a, ln), k)
<1> DEFINE b == Append(a, ln)
<1>1. /\ Len(b) = Len(a) + 1 /\ b[Len(a) + 1] = ln /\ Len(a) \in Nat
      /\ \A i \in 1 .. Len(a) : b[i] = a[i]
  BY AppendIs
<1> HIDE DEF b
<1>2. \A i \in 1 .. Len(b) : i \in 1 .. Len(a) \/ i = Len(a) + 1
  BY <1>1
<1>3. Silent(a, k) => Silent(b, k)
  BY <1>1, <1>2 DEF Silent
<1>4. ASSUME NEW x, LastIs(a, k, x) PROVE LastIs(b, k, x)
  <2>1. PICK i \in 1 .. Len(a) :
            /\ a[i] = x /\ Names(x, k)
            /\ \A j \in i + 1 .. Len(a) : ~Names(a[j], k)
    BY <1>4 DEF LastIs
  <2>2. i \in 1 .. Len(b) /\ b[i] = x
    BY <1>1, <2>1
  <2>3. \A j \in i + 1 .. Len(b) : ~Names(b[j], k)
    BY <1>1, <2>1
  <2> QED
    BY <2>1, <2>2, <2>3 DEF LastIs
<1>5. ASSUME NEW e, NEW t, Brings(a, k, e, t) PROVE Brings(b, k, e, t)
  <2>1. PICK i \in 1 .. Len(a) :
            /\ a[i] = SetLine(k, e.val, e.exp)
            /\ \A j \in i + 1 .. Len(a) :
                   Names(a[j], k) => ~TakesEffect(a[j], t)
    BY <1>5 DEF Brings
  <2>2. i \in 1 .. Len(b) /\ b[i] = SetLine(k, e.val, e.exp)
    BY <1>1, <2>1
  <2>3. \A j \in i + 1 .. Len(b) : Names(b[j], k) => ~TakesEffect(b[j], t)
    BY <1>1, <2>1
  <2> QED
    BY <2>2, <2>3 DEF Brings
<1>6. ASSUME Buried(a, k) PROVE Buried(b, k)
  <2>1. SUFFICES ASSUME NEW i \in 1 .. Len(b), Names(b[i], k)
                 PROVE  \E j \in i .. Len(b) : b[j] = DelLine(k)
    BY DEF Buried
  <2>2. i \in 1 .. Len(a) /\ Names(a[i], k)
    BY <1>1, <1>2, <2>1
  <2>3. PICK j \in i .. Len(a) : a[j] = DelLine(k)
    BY <1>6, <2>2 DEF Buried
  <2> QED
    BY <1>1, <2>2, <2>3
<1> QED
  BY <1>3, <1>4, <1>5, <1>6 DEF b

\* A DEL appended buries its key.
LEMMA BuriedAppended ==
    ASSUME NEW a \in Seq(Line), NEW k \in Key
    PROVE  Buried(Append(a, DelLine(k)), k)
<1> DEFINE b == Append(a, DelLine(k))
<1>1. DelLine(k) \in Line
  BY DEF DelLine, Line
<1>2. Len(b) = Len(a) + 1 /\ b[Len(a) + 1] = DelLine(k) /\ Len(a) \in Nat
  BY <1>1, AppendIs
<1> HIDE DEF b
<1>3. \A i \in 1 .. Len(b) : Len(b) \in i .. Len(b)
  BY <1>2
<1> QED
  BY <1>2, <1>3 DEF Buried, b

\* A key whose last line sets it is brought back, whatever the clock;
LEMMA LastBrings ==
    ASSUME NEW a \in Seq(Line), NEW k, NEW e, NEW t,
           LastIs(a, k, SetLine(k, e.val, e.exp))
    PROVE  Brings(a, k, e, t)
BY DEF LastIs, Brings

\* one whose last line deletes it, or that has no line, is buried.
LEMMA LastBuries ==
    ASSUME NEW a \in Seq(Line), NEW k,
           LastIs(a, k, DelLine(k)) \/ Silent(a, k)
    PROVE  Buried(a, k)
<1>1. CASE LastIs(a, k, DelLine(k))
  <2>1. PICK i \in 1 .. Len(a) :
            /\ a[i] = DelLine(k)
            /\ \A j \in i + 1 .. Len(a) : ~Names(a[j], k)
    BY <1>1 DEF LastIs
  <2>2. \A j \in 1 .. Len(a) : Names(a[j], k) => i \in j .. Len(a)
    BY <2>1
  <2> QED
    BY <2>1, <2>2 DEF Buried
<1>2. CASE Silent(a, k)
  BY <1>2 DEF Silent, Buried
<1> QED
  BY <1>1, <1>2

\* What is without effect stays so as the clock goes on.
LEMMA EffectFades ==
    ASSUME NEW a \in Seq(Line), NEW k, NEW e, NEW t \in Int, NEW u \in Int,
           t <= u, Brings(a, k, e, t)
    PROVE  Brings(a, k, e, u)
<1>1. PICK i \in 1 .. Len(a) :
          /\ a[i] = SetLine(k, e.val, e.exp)
          /\ \A j \in i + 1 .. Len(a) :
                 Names(a[j], k) => ~TakesEffect(a[j], t)
  BY DEF Brings
<1>2. ASSUME NEW j \in i + 1 .. Len(a), Names(a[j], k)
      PROVE  ~TakesEffect(a[j], u)
  <2>1. a[j] \in Line
    BY <1>1, <1>2
  <2>2. a[j].op = "SET" => a[j].exp \in Int
    BY <2>1, LineIs, MapAssumption
  <2>3. ~TakesEffect(a[j], t)
    BY <1>1, <1>2
  <2>4. a[j].op = "SET"
    BY <1>2, <2>1, <2>3, LineIs DEF TakesEffect, Names
  <2> QED
    BY <2>2, <2>3, <2>4 DEF TakesEffect, Lapsed
<1> QED
  BY <1>1, <1>2 DEF Brings

\* A run over lines that can all be read finds a key's last effect.
LEMMA CleanIsGood ==
    ASSUME NEW a \in Seq(Line), Clean(a)
    PROVE  GoodLines(a) = 1 .. Len(a) /\ Len(a) \in Nat
BY DEF GoodLines, Clean

\* The lines for k that take effect at t.
Hits(a, k, t) ==
    {i \in GoodLines(a) : a[i].key = k /\ TakesEffect(a[i], t)}

LEMMA HitsAre ==
    ASSUME NEW a \in Seq(Line), Clean(a), NEW k, NEW t
    PROVE  /\ Hits(a, k, t) \subseteq 1 .. Len(a)
           /\ \A i \in 1 .. Len(a) :
                 i \in Hits(a, k, t) <=> Names(a[i], k) /\ TakesEffect(a[i], t)
BY CleanIsGood DEF Hits, Clean, Names, Parses

LEMMA RecoveredIs ==
    ASSUME NEW a \in Seq(Line), Clean(a), NEW k \in Key, NEW t
    PROVE  /\ Hits(a, k, t) = {} => Recovered(a, t)[k] = None
           /\ \A i \in Hits(a, k, t) :
                 (\A j \in Hits(a, k, t) : j <= i) =>
                     Recovered(a, t)[k] =
                        IF a[i].op = "DEL" THEN None
                        ELSE [val |-> a[i].val, exp |-> a[i].exp]
<1> DEFINE H == Hits(a, k, t)
<1>1. Recovered(a, t)[k] =
        IF H = {} THEN None
        ELSE IF a[Max(H)].op = "DEL" THEN None
             ELSE [val |-> a[Max(H)].val, exp |-> a[Max(H)].exp]
  BY DEF Recovered, Hits
<1>2. H \subseteq 0 .. Len(a) /\ Len(a) \in Nat /\ H \subseteq Nat
  BY HitsAre, CleanIsGood
<1> HIDE DEF H
<1>3. ASSUME NEW i \in H, \A j \in H : j <= i
      PROVE  Max(H) = i
  <2>1. Max(H) \in H /\ i <= Max(H)
    BY <1>2, HasMax
  <2>2. Max(H) <= i
    BY <1>3, <2>1
  <2>3. Max(H) \in Nat /\ i \in Nat
    BY <1>2, <2>1
  <2> HIDE DEF Max
  <2> QED
    BY <2>1, <2>2, <2>3
<1>4. ASSUME NEW i \in H, \A j \in H : j <= i
      PROVE  Recovered(a, t)[k] = IF a[i].op = "DEL" THEN None
                        ELSE [val |-> a[i].val, exp |-> a[i].exp]
  BY <1>1, <1>3, <1>4
<1>5. H = {} => Recovered(a, t)[k] = None
  BY <1>1
<1> QED
  BY <1>4, <1>5 DEF H

\* What is brought back is what a replay finds,
LEMMA BroughtBack ==
    ASSUME NEW a \in Seq(Line), Clean(a), NEW k \in Key, NEW t,
           NEW e \in Entry, ~Lapsed(e, t), Brings(a, k, e, t)
    PROVE  Recovered(a, t)[k] = e
<1>1. PICK i \in 1 .. Len(a) :
          /\ a[i] = SetLine(k, e.val, e.exp)
          /\ \A j \in i + 1 .. Len(a) :
                 Names(a[j], k) => ~TakesEffect(a[j], t)
  BY DEF Brings
<1>2. i \in Hits(a, k, t)
  <2>1. Names(a[i], k) /\ TakesEffect(a[i], t)
    BY <1>1, LinesName DEF TakesEffect, Lapsed
  <2> QED
    BY <2>1, HitsAre
<1>3. \A j \in Hits(a, k, t) : j <= i
  BY <1>1, HitsAre, CleanIsGood
<1>4. Recovered(a, t)[k] = IF a[i].op = "DEL" THEN None
                           ELSE [val |-> a[i].val, exp |-> a[i].exp]
  BY <1>2, <1>3, RecoveredIs
<1> QED
  BY <1>1, <1>4, LinesName DEF Entry

\* and what is buried is not found.
LEMMA NotBroughtBack ==
    ASSUME NEW a \in Seq(Line), Clean(a), NEW k \in Key, NEW t, Buried(a, k)
    PROVE  Recovered(a, t)[k] = None
<1> DEFINE H == Hits(a, k, t)
<1>1. H \subseteq 0 .. Len(a) /\ Len(a) \in Nat
  BY HitsAre, CleanIsGood
<1>2. CASE H = {}
  BY <1>2, RecoveredIs
<1>3. CASE H # {}
  <2> HIDE DEF H
  <2>1. Max(H) \in H /\ \A j \in H : j <= Max(H)
    BY <1>1, <1>3, HasMax
  <2>2. Max(H) \in 1 .. Len(a) /\ Names(a[Max(H)], k)
    BY <2>1, HitsAre DEF H
  <2>3. PICK j \in Max(H) .. Len(a) : a[j] = DelLine(k)
    BY <2>2 DEF Buried
  <2>4. j \in 1 .. Len(a)
    BY <1>1, <2>2, <2>3
  <2>5. j \in H
    BY <2>3, <2>4, HitsAre, LinesName DEF H, TakesEffect
  <2>6. j <= Max(H) /\ Max(H) <= j
    BY <2>1, <2>3, <2>5, <2>2, <1>1
  <2>7. \A i \in H : i <= j
    BY <1>1, <2>1, <2>2, <2>4, <2>6
  <2>8. Recovered(a, t)[k] = IF a[j].op = "DEL" THEN None
                             ELSE [val |-> a[j].val, exp |-> a[j].exp]
    BY <2>5, <2>7, RecoveredIs DEF H
  <2> QED
    BY <2>3, <2>8, LinesName
<1> QED
  BY <1>2, <1>3

-----------------------------------------------------------------------------
(* The steps: all but a few are calm, they touch neither an entry nor the   *)
(* file, and a handler stays on its side of the line it has to write.       *)

Same(t) == pc'[t] = pc[t] /\ frame'[t] = frame[t]

Apart(t) ==
    /\ pc[t] \notin Writing /\ pc'[t] \notin Writing
    /\ pc'[t] \in Written /\ frame'[t] # None /\ frame'[t].exp > 0 =>
           pc[t] \in Written /\ frame'[t] = frame[t]

Goes(t) ==
    /\ pc[t] \in Writing /\ pc'[t] \in Writing
    /\ frame'[t].req = frame[t].req /\ frame'[t].exp = frame[t].exp

HeapFed ==
    /\ \A i \in Item : heap'[i] > 0 =>
           \/ InHeap(i)
           \/ \E t \in Thread :
                /\ pc[t] = "arm" /\ frame[t] # None /\ frame[t].exp > 0
                /\ i = <<frame[t].req.key, frame[t].exp>>
    /\ tmPc' \in {"wait", "expire"} =>
           \/ heap[tmItem'] > 0
           \/ tmPc \in {"wait", "expire"} /\ tmItem' = tmItem

Calm ==
    /\ UNCHANGED <<items, now, aofVars>>
    /\ \A t \in Thread : Same(t) \/ Apart(t) \/ Goes(t)
    /\ HeapFed

\* A heap and goroutine left alone are fed nothing.
LEMMA HeapStill ==
    ASSUME UNCHANGED ttlVars
    PROVE  HeapFed
BY DEF HeapFed, ttlVars, InHeap

\* A step of one worker leaves the other handlers where they were.
LEMMA OthersSame ==
    ASSUME TypeOK, NEW p \in Worker, NEW l, Goto(p, l), NEW f,
           frame' = frame \/ frame' = [frame EXCEPT ![p] = f],
           NEW u \in Thread, u # p
    PROVE  Same(u)
BY TypeParts DEF SvcTypeOK, Goto, Same

\* A handler with the frame it had, or none, has one that is as it should be.
LEMMA FrameStays ==
    ASSUME NEW u, FrameOK(u),
           frame'[u] = None \/ frame'[u] = frame[u],
           pc'[u] \in {"check", "store", "account", "append"} =>
               pc[u] \in {"check", "store", "account", "append"}
    PROVE  FrameOK(u)'
BY DEF FrameOK

LEMMA SameStays ==
    ASSUME FramesOK, \A u \in Thread : Same(u)
    PROVE  FramesOK'
BY FrameStays DEF FramesOK, Same

\* One handler steps.
LEMMA OneSteps ==
    ASSUME FramesOK, NEW t \in Thread, \A u \in Thread : u # t => Same(u),
           FrameOK(t)'
    PROVE  FramesOK'
BY FrameStays DEF FramesOK, Same

\* Where a worker is after a snapshot.
LEMMA ResumeApart ==
    ASSUME TypeOK, FramesOK, NEW p \in Worker, Resume(p),
           pc[p] \in Written
    PROVE  FramesOK' /\ \A u \in Thread : Same(u) \/ Apart(u)
<1>1. CASE p = Loop
  <2>1. \A u \in Thread : Same(u)
    BY <1>1, OthersSame, RdbAssumption DEF Resume
  <2> QED
    BY <2>1, SameStays
<1>2. CASE p \in Thread
  <2>1. \A u \in Thread : u # p => Same(u)
    BY <1>2, OthersSame, RdbAssumption DEF Resume, Return
  <2>2. \/ pc'[p] = "idle" /\ frame'[p] = None
        \/ pc'[p] = "arm" /\ frame'[p] = frame[p]
    BY <1>2, TypeParts, RdbAssumption DEF SvcTypeOK, Resume, Return, Goto
  <2>3. Apart(p)
    BY <2>2 DEF Apart, Writing, Written
  <2>4. FrameOK(p)'
    BY <1>2, <2>2, FrameStays DEF FramesOK
  <2> QED
    BY <1>2, <2>1, <2>3, <2>4, OneSteps
<1> QED
  BY <1>1, <1>2

\* A worker that goes from one point of a snapshot to the next.
LEMMA MoveApart ==
    ASSUME TypeOK, FramesOK, NEW p \in Worker, NEW l,
           Goto(p, l), UNCHANGED frame, l \in Written,
           pc[p] \in Written \/ p = Loop
    PROVE  FramesOK' /\ \A u \in Thread : Same(u) \/ Apart(u)
<1>1. \A u \in Thread : u # p => Same(u)
  BY OthersSame
<1>2. CASE p = Loop
  BY <1>1, <1>2, RdbAssumption, SameStays
<1>3. CASE p \in Thread
  <2>1. pc'[p] = l /\ frame'[p] = frame[p]
    BY TypeParts DEF SvcTypeOK, Goto
  <2>2. Apart(p)
    BY <1>3, <2>1, RdbAssumption DEF Apart, Writing, Written
  <2>3. FrameOK(p)'
    BY <1>3, <2>1, FrameStays DEF FramesOK, Written
  <2> QED
    BY <1>1, <1>3, <2>2, <2>3, OneSteps
<1> QED
  BY <1>2, <1>3

\* The steps of a snapshot are calm.
LEMMA SnapCalm ==
    ASSUME TypeOK, FramesOK, NEW p \in Worker, SnapStep(p)
    PROVE  Calm /\ FramesOK'
<1>1. UNCHANGED <<items, now, aofVars>> /\ UNCHANGED ttlVars
  BY DEF SnapStep, AutoClock, AutoAge, AutoRules, SnapLock, SnapSave, SnapSaved,
         SnapFailed, SnapReset, mapVars
<1>2. FramesOK' /\ \A u \in Thread : Same(u) \/ Apart(u)
  <2>1. CASE AutoClock(p) \/ AutoAge(p)
    BY <2>1, MoveApart DEF AutoClock, AutoAge, Written
  <2>2. CASE AutoRules(p)
    BY <2>2, MoveApart, ResumeApart DEF AutoRules, Written
  <2>3. CASE SnapLock(p)
    BY <2>3, MoveApart DEF SnapLock, Written
  <2>4. CASE SnapSave(p)
    BY <2>4, SameStays DEF SnapSave, svcVars, Same
  <2>5. CASE SnapSaved(p)
    BY <2>5, MoveApart DEF SnapSaved, Written
  <2>6. CASE SnapFailed(p)
    BY <2>6, ResumeApart DEF SnapFailed, Written
  <2>7. CASE SnapReset(p)
    BY <2>7, ResumeApart DEF SnapReset, Written
  <2> QED
    BY <2>1, <2>2, <2>3, <2>4, <2>5, <2>6, <2>7 DEF SnapStep
<1> QED
  BY <1>1, <1>2, HeapStill DEF Calm

\* A handler that takes a step of its own, calmly.
LEMMA HandlerCalm ==
    ASSUME TypeOK, FramesOK, NEW t \in Thread,
           UNCHANGED <<items, now, aofVars>>, HeapFed,
           \A u \in Thread : u # t => Same(u),
           FrameOK(t)', Apart(t) \/ Goes(t)
    PROVE  Calm /\ FramesOK'
BY OneSteps DEF Calm

LEMMA BeginCalm ==
    ASSUME TypeOK, FramesOK, NEW t \in Thread, Begin(t)
    PROVE  Calm /\ FramesOK'
<1>1. PICK r \in Workload[t] :
        /\ frame' = [frame EXCEPT ![t] = [req |-> r, copy |-> requests,
                                          exp |-> 0, delta |-> 0]]
        /\ Goto(t, IF r.op = "snapshot" THEN "lock" ELSE "record")
  BY DEF Begin
<1>2. \A u \in Thread : u # t => Same(u)
  BY <1>1, OthersSame
<1>3. /\ frame'[t].req = r /\ frame'[t].exp = 0
      /\ pc[t] = "idle" /\ pc'[t] \in {"lock", "record"}
  BY <1>1, TypeParts DEF SvcTypeOK, Goto, Begin
<1>4. FrameOK(t)'
  BY <1>3 DEF FrameOK
<1>5. Apart(t)
  BY <1>3 DEF Apart, Writing, Written
<1> QED
  BY <1>2, <1>4, <1>5, HandlerCalm, HeapStill DEF Begin, mapVars

LEMMA RecordCalm ==
    ASSUME TypeOK, FramesOK, NEW t \in Thread, Record(t)
    PROVE  Calm /\ FramesOK'
<1> DEFINE r == frame[t].req
<1>0. pc[t] = "record" /\ frame[t] # None /\ frame[t] \in Frame
  BY BusyFrame, TypeParts DEF Record
<1>1. CASE Return(t)
  <2>1. \A u \in Thread : u # t => Same(u)
    BY <1>1, OthersSame DEF Return
  <2>2. pc'[t] = "idle" /\ frame'[t] = None
    BY <1>1, TypeParts DEF SvcTypeOK, Return, Goto
  <2>3. FrameOK(t)' /\ Apart(t)
    BY <1>0, <2>2 DEF FrameOK, Apart, Writing, Written
  <2> QED
    BY <2>1, <2>3, HandlerCalm, HeapStill DEF Record, mapVars
<1>2. CASE /\ r.op = "set"
           /\ frame' = [frame EXCEPT ![t].exp = Deadline(r, now)]
           /\ Goto(t, "check")
  <2>1. \A u \in Thread : u # t => Same(u)
    BY <1>2, TypeParts DEF SvcTypeOK, Goto, Same
  <2>2. /\ pc'[t] = "check" /\ frame'[t].req = r
        /\ frame'[t].exp = Deadline(r, now)
    BY <1>0, <1>2, TypeParts DEF SvcTypeOK, Goto, Frame
  <2>3. r.ttl \in Nat /\ now \in Nat
    BY <1>0, <1>2, TypeParts, MapAssumption DEF Frame, Request, MapTypeOK
  <2>4. Deadline(r, now) > 0 <=> r.ttl > 0
    BY <2>3 DEF Deadline
  <2>5. FrameOK(t)'
    <3>1. r \in Workload[t]
      BY <1>0 DEF FramesOK, FrameOK
    <3> QED
      BY <1>2, <2>2, <2>4, <3>1 DEF FrameOK
  <2>6. Apart(t)
    BY <1>0, <2>2 DEF Apart, Writing, Written
  <2> QED
    BY <2>1, <2>5, <2>6, HandlerCalm, HeapStill DEF Record, mapVars
<1>3. CASE /\ Goto(t, IF r.op = "get" THEN "read" ELSE "remove")
           /\ UNCHANGED frame
  <2>1. \A u \in Thread : u # t => Same(u)
    BY <1>3, OthersSame
  <2>2. pc'[t] \in {"read", "remove"} /\ frame'[t] = frame[t]
    BY <1>3, TypeParts DEF SvcTypeOK, Goto
  <2>3. FrameOK(t)'
    BY <2>2, FrameStays DEF FramesOK
  <2>4. Apart(t)
    BY <1>0, <2>2 DEF Apart, Writing, Written
  <2> QED
    BY <2>1, <2>3, <2>4, HandlerCalm, HeapStill DEF Record, mapVars
<1> QED
  BY <1>1, <1>2, <1>3 DEF Record

\* The check, the account, the count, the look at the map.
LEMMA OtherCalm ==
    ASSUME TypeOK, FramesOK, AofEnabled, NEW t \in Thread,
           Check(t) \/ Account(t) \/ Count(t) \/ Read(t)
    PROVE  Calm /\ FramesOK'
<1>0. pc[t] # "idle" => frame[t] # None /\ frame[t] \in Frame
  BY BusyFrame, TypeParts
<1>1. CASE Check(t)
  <2>1. \A u \in Thread : u # t => Same(u)
    BY <1>1, OthersSame DEF Check, Return
  <2>2. \/ pc'[t] = "store" /\ frame'[t] = frame[t]
        \/ pc'[t] = "idle" /\ frame'[t] = None
    BY <1>1, TypeParts DEF SvcTypeOK, Check, Return, Goto
  <2>3. FrameOK(t)' /\ Apart(t)
    BY <1>1, <2>2, FrameStays DEF FramesOK, Check, Apart, Writing, Written
  <2> QED
    BY <1>1, <2>1, <2>3, HandlerCalm, HeapStill DEF Check, mapVars
<1>2. CASE Account(t)
  <2>1. \A u \in Thread : u # t => Same(u)
    BY <1>2, TypeParts DEF SvcTypeOK, Goto, Same, Account
  <2>2. /\ pc'[t] = "append" /\ pc[t] = "account"
        /\ frame'[t].req = frame[t].req /\ frame'[t].exp = frame[t].exp
    BY <1>0, <1>2, TypeParts DEF SvcTypeOK, Account, Goto, Frame
  <2>3. FrameOK(t)' /\ Goes(t)
    BY <1>0, <2>2 DEF FramesOK, FrameOK, Goes, Writing
  <2> QED
    BY <1>2, <2>1, <2>3, HandlerCalm, HeapStill DEF Account, mapVars
<1>3. CASE Count(t)
  <2>1. FramesOK' /\ \A u \in Thread : Same(u) \/ Apart(u)
    BY <1>3, MoveApart, ResumeApart DEF Count, Written
  <2> QED
    BY <1>3, <2>1, HeapStill DEF Calm, Count, mapVars
<1>4. CASE Read(t)
  <2>1. \A u \in Thread : u # t => Same(u)
    BY <1>4, OthersSame DEF Read, Return
  <2>2. pc'[t] = "idle" /\ frame'[t] = None /\ pc[t] = "read"
    BY <1>4, TypeParts DEF SvcTypeOK, Read, Return, Goto
  <2>3. FrameOK(t)' /\ Apart(t)
    BY <2>2 DEF FrameOK, Apart, Writing, Written
  <2> QED
    BY <1>4, <2>1, <2>3, HandlerCalm, HeapStill DEF Read, mapVars
<1> QED
  BY <1>1, <1>2, <1>3, <1>4

\* What a handler adds to the heap is the deadline in its frame.
LEMMA ArmCalm ==
    ASSUME TypeOK, FramesOK, NEW t \in Thread, Arm(t)
    PROVE  Calm /\ FramesOK'
<1>0. pc[t] = "arm" /\ frame[t] # None /\ frame[t].exp > 0
  BY BusyFrame, TypeParts DEF Arm, SvcTypeOK, ControlOK
<1>1. \A u \in Thread : u # t => Same(u)
  BY OthersSame DEF Arm, Return
<1>2. pc'[t] = "idle" /\ frame'[t] = None
  BY TypeParts DEF SvcTypeOK, Arm, Return, Goto
<1>3. FrameOK(t)' /\ Apart(t)
  BY <1>0, <1>2 DEF FrameOK, Apart, Writing, Written
<1>4. HeapFed
  <2>1. heap \in [Item -> Nat] /\ tmPc' = tmPc /\ tmItem' = tmItem
    BY TypeParts DEF Arm, TtlTypeOK
  <2>2. ASSUME NEW i \in Item, heap'[i] > 0
        PROVE  InHeap(i) \/ i = <<frame[t].req.key, frame[t].exp>>
    BY <2>1, <2>2 DEF Arm, HeapAdd, InHeap
  <2> QED
    BY <1>0, <2>1, <2>2 DEF HeapFed
<1> QED
  BY <1>1, <1>3, <1>4, HandlerCalm DEF Arm, mapVars

\* The TTL goroutine waits for, or has popped, what was in the heap.
LEMMA TtlCalm ==
    ASSUME TypeOK, FramesOK,
           UNCHANGED <<mapVars, now, aofVars, rdbVars, svcVars>>, TtlStep
    PROVE  Calm /\ FramesOK'
<1>1. HeapFed
  <2>0. heap \in [Item -> Nat]
    BY TypeParts DEF TtlTypeOK
  <2>1. CASE TtlSleep \/ TtlWake \/ TtlTimer \/ TtlExit
    BY <2>1 DEF TtlSleep, TtlWake, TtlTimer, TtlExit, HeapFed, InHeap
  <2>2. CASE TtlWait
    BY <2>2 DEF TtlWait, HeapTop, InHeap, HeapFed
  <2>3. CASE TtlPop
    <3>1. PICK i \in Item : /\ heap[i] > 0
                            /\ heap' = [heap EXCEPT ![i] = @ - 1]
                            /\ tmItem' = i
      BY <2>3 DEF TtlPop, HeapTop, InHeap
    <3>2. \A j \in Item : heap'[j] > 0 => heap[j] > 0
      BY <2>0, <3>1
    <3> QED
      BY <3>1, <3>2 DEF HeapFed, InHeap
  <2> QED
    BY <2>1, <2>2, <2>3 DEF TtlStep
<1>2. \A u \in Thread : Same(u)
  BY DEF Same, svcVars
<1> QED
  BY <1>1, <1>2, SameStays DEF Calm, mapVars

LEMMA ExpiredCalm ==
    ASSUME TypeOK, FramesOK, ExpireAccount \/ LoopTick
    PROVE  Calm /\ FramesOK'
<1>1. CASE ExpireAccount
  <2>1. HeapFed
    BY <1>1 DEF ExpireAccount, HeapFed, InHeap
  <2>2. \A u \in Thread : Same(u)
    BY <1>1 DEF ExpireAccount, Same
  <2> QED
    BY <1>1, <2>1, <2>2, SameStays DEF Calm, ExpireAccount, mapVars
<1>2. CASE LoopTick
  <2>1. FramesOK' /\ \A u \in Thread : Same(u) \/ Apart(u)
    BY <1>2, MoveApart DEF LoopTick, Written
  <2> QED
    BY <1>2, <2>1, HeapStill DEF Calm, LoopTick, mapVars
<1> QED
  BY <1>1, <1>2

\* A handler that writes, or is about to, knows what and where.
LEMMA WriterFrame ==
    ASSUME TypeOK, NEW t \in Thread,
           pc[t] \in {"store", "remove", "account", "append"}
    PROVE  /\ frame[t] \in Frame /\ frame[t] # None
           /\ frame[t].req.key \in Key /\ frame[t].exp \in Expiry
           /\ frame[t].req.op \in {"set", "del"}
           /\ frame[t].req.op = "set" => frame[t].req.val \in Value
           /\ pc[t] = "store" => frame[t].req.op = "set"
           /\ pc[t] = "remove" => frame[t].req.op = "del"
<1>1. frame[t] \in Frame /\ frame[t] # None
  BY BusyFrame, TypeParts
<1>2. frame[t].req \in Request /\ frame[t].exp \in Expiry
  BY <1>1 DEF Frame
<1>3. /\ frame[t].req.op \in {"set", "del"}
      /\ pc[t] = "store" => frame[t].req.op = "set"
      /\ pc[t] = "remove" => frame[t].req.op = "del"
  BY TypeParts DEF SvcTypeOK, ControlOK
<1> QED
  BY <1>1, <1>2, <1>3 DEF Request

\* Set and Delete change their key, which is in flight from there on,
LEMMA WriteStep ==
    ASSUME TypeOK, FramesOK, NEW t \in Thread, Store(t) \/ Remove(t)
    PROVE  /\ UNCHANGED <<now, aofVars, ttlVars>>
           /\ \A u \in Thread : u # t => Same(u)
           /\ pc[t] \in {"store", "remove"} /\ pc'[t] = "account"
           /\ frame'[t].req = frame[t].req /\ frame'[t].exp = frame[t].exp
           /\ \A j \in Key : j # frame[t].req.key => items'[j] = items[j]
           /\ items'[frame[t].req.key] =
                IF frame[t].req.op = "set"
                THEN [val |-> frame[t].req.val, exp |-> frame[t].exp]
                ELSE None
           /\ FramesOK'
<1> DEFINE r == frame[t].req
<1>0. pc[t] \in {"store", "remove"}
  BY DEF Store, Remove
<1>1. /\ frame[t] \in Frame /\ frame[t] # None /\ r.key \in Key
      /\ pc[t] = "store" => r.op = "set"
      /\ pc[t] = "remove" => r.op = "del"
  BY <1>0, WriterFrame
<1>2. items \in [Key -> Slot]
  BY TypeParts DEF MapTypeOK
<1>3. \A u \in Thread : u # t => Same(u)
  BY TypeParts DEF SvcTypeOK, Goto, Same, Store, Remove
<1>4. /\ pc'[t] = "account"
      /\ frame'[t].req = r /\ frame'[t].exp = frame[t].exp
      /\ frame'[t] # None => frame[t] # None
  BY <1>1, TypeParts DEF SvcTypeOK, Goto, Store, Remove, Frame
<1>5. FrameOK(t)'
  BY <1>0, <1>1, <1>4 DEF FramesOK, FrameOK
<1>6. CASE Store(t)
  BY <1>0, <1>1, <1>2, <1>3, <1>4, <1>5, <1>6, OneSteps DEF Store, MapSet
<1>7. CASE Remove(t)
  BY <1>0, <1>1, <1>2, <1>3, <1>4, <1>5, <1>7, OneSteps DEF Remove, MapDelete
<1> QED
  BY <1>6, <1>7

\* until the handler's line is in the file.
LEMMA LogStep ==
    ASSUME TypeOK, FramesOK, ~IoFaults, NEW t \in Thread, LogLine(t)
    PROVE  /\ UNCHANGED <<items, now, ttlVars, frame>>
           /\ \A u \in Thread : u # t => Same(u)
           /\ pc[t] = "append" /\ pc'[t] = "count"
           /\ AppendLine(LineOf(t)) /\ LineOf(t) \in Line
           /\ frame[t].req.op = "set" =>
                LineOf(t) = SetLine(frame[t].req.key, frame[t].req.val,
                                    frame[t].exp)
           /\ frame[t].req.op = "del" => LineOf(t) = DelLine(frame[t].req.key)
           /\ FramesOK'
<1> DEFINE r == frame[t].req
<1>1. /\ frame[t] \in Frame /\ frame[t] # None /\ r.key \in Key
      /\ r.op \in {"set", "del"} /\ frame[t].exp \in Expiry
      /\ r.op = "set" => r.val \in Value
  BY WriterFrame DEF LogLine
<1>2. AppendLine(LineOf(t)) /\ Goto(t, "count") /\ UNCHANGED frame
  BY DEF LogLine, AppendFails
<1>3. \A u \in Thread : u # t => Same(u)
  BY <1>2, OthersSame
<1>4. pc'[t] = "count" /\ frame'[t] = frame[t] /\ pc[t] = "append"
  BY <1>2, TypeParts DEF SvcTypeOK, Goto, LogLine
<1>5. LineOf(t) \in Line
  BY <1>1 DEF LineOf, Line, SetLine, DelLine
<1>6. FramesOK'
  BY <1>3, <1>4, FrameStays, OneSteps DEF FramesOK
<1> QED
  BY <1>1, <1>2, <1>3, <1>4, <1>5, <1>6 DEF LogLine, LineOf, mapVars

\* The expiry goroutine deletes what is under the popped key.
LEMMA ExpireStep ==
    ASSUME TypeOK, FramesOK, Expire
    PROVE  /\ UNCHANGED <<now, aofVars, heap, tmItem>>
           /\ \A u \in Thread : Same(u)
           /\ tmPc = "expire" /\ tmPc' = "account" /\ tmItem \in Item
           /\ tmItem[1] \in Key /\ items'[tmItem[1]] = None
           /\ \A j \in Key : j # tmItem[1] => items'[j] = items[j]
           /\ FramesOK'
<1>1. tmItem \in Item /\ tmItem[1] \in Key
  BY TypeParts DEF Expire, TtlTypeOK, Item
<1>2. \A u \in Thread : Same(u)
  BY DEF Expire, Same
<1>3. items \in [Key -> Slot]
  BY TypeParts DEF MapTypeOK
<1> QED
  BY <1>1, <1>2, <1>3, SameStays DEF Expire, MapDelete

\* The rewriter and the clock leave the handlers and the map alone.
LEMMA AsideStep ==
    ASSUME FramesOK, Rewriter \/ Tick
    PROVE  /\ UNCHANGED <<items, ttlVars>> /\ \A u \in Thread : Same(u)
           /\ FramesOK'
<1>1. \A u \in Thread : Same(u)
  BY DEF Rewriter, Tick, Same, svcVars
<1> QED
  BY <1>1, SameStays DEF Rewriter, Tick, mapVars

\* Every step of a serving process is one of these.
LEMMA StepKinds ==
    ASSUME TypeOK, FramesOK, AofEnabled, ~IoFaults, [Next]_vars
    PROVE  /\ FramesOK'
           /\ \/ Calm
              \/ \E t \in Thread : Store(t) \/ Remove(t) \/ LogLine(t)
              \/ Expire \/ Rewriter \/ Tick
<1>1. ASSUME NEW t \in Thread, Begin(t) PROVE Calm /\ FramesOK'
  BY <1>1, BeginCalm
<1>2. ASSUME NEW t \in Thread, Handler(t)
      PROVE  /\ FramesOK'
             /\ Calm \/ Store(t) \/ Remove(t) \/ LogLine(t)
  BY <1>2, RecordCalm, OtherCalm, ArmCalm, SnapCalm, WriteStep, LogStep
     DEF Handler
<1>3. CASE SnapStep(Loop)
  BY <1>3, SnapCalm
<1>4. CASE TtlGoroutine
  BY <1>4, TtlCalm, ExpireStep, ExpiredCalm DEF TtlGoroutine
<1>5. CASE Rewriter \/ Tick
  BY <1>5, AsideStep
<1>6. CASE LoopTick
  BY <1>6, ExpiredCalm
<1>7. CASE UNCHANGED vars
  <2>1. \A u \in Thread : Same(u)
    BY <1>7 DEF vars, svcVars, Same
  <2> QED
    BY <1>7, <2>1, SameStays, HeapStill DEF vars, mapVars, Calm
<1> QED
  BY <1>1, <1>2, <1>3, <1>4, <1>5, <1>6, <1>7 DEF Next, Run

\* A key is in flight before and after, unless its writer goes in or out.
LEMMA FlightKept ==
    ASSUME NEW k,
           \A u \in Thread :
              \/ Same(u) \/ Goes(u) \/ Apart(u)
              \/ frame[u].req.key # k /\ frame'[u].req.key # k
    PROVE  InFlight(k)' <=> InFlight(k)
BY DEF InFlight, Same, Goes, Apart, Writing

-----------------------------------------------------------------------------
(* The file says what the store holds, while nothing is rewritten *)

\* Once a line with an expiry is there, it stays.
LEMMA TimedStays ==
    ASSUME NEW a \in Seq(Line), NEW ln \in Line, NEW k,
           NeverTimed(k, Append(a, ln))
    PROVE  /\ NeverTimed(k, a)
           /\ ln.op = "SET" /\ ln.key = k => ln.exp = 0
BY AppendIs DEF NeverTimed

\* Calm steps change nothing the file is to say.
LEMMA CalmLog ==
    ASSUME TypeOK, TypeOK', LogInv, Calm
    PROVE  LogInv'
<1>1. UNCHANGED <<items, now, aof, rw, rewriting>>
  BY DEF Calm, aofVars
<1>2. LogWhole'
  BY <1>1 DEF LogInv, LogWhole
<1>3. HeapLogged'
  <2>1. ASSUME NEW i \in Item, InHeap(i)'
        PROVE  ~NeverTimed(i[1], aof.lines)
    BY <2>1 DEF Calm, HeapFed, InHeap, LogInv, HeapLogged, Written
  <2>2. ASSUME tmPc' \in {"wait", "expire"}
        PROVE  ~NeverTimed(tmItem'[1], aof.lines)
    <3>1. tmItem' \in Item
      BY <2>2, TypeParts DEF TtlTypeOK
    <3> QED
      BY <2>2, <3>1 DEF Calm, HeapFed, InHeap, LogInv, HeapLogged
  <2>3. ASSUME NEW t \in Thread, pc'[t] \in Written, frame'[t] # None,
               frame'[t].exp > 0
        PROVE  ~NeverTimed(frame'[t].req.key, aof.lines)
    BY <2>3 DEF Calm, Same, Apart, Goes, Writing, Written, LogInv, HeapLogged
  <2> QED
    BY <1>1, <2>1, <2>2, <2>3 DEF HeapLogged
<1>4. OwnWrites'
  BY <1>1 DEF Calm, Same, Apart, Goes, LogInv, OwnWrites
<1>5. ASSUME NEW k \in Key PROVE InFlight(k)' \/ Tells(k)'
  <2>1. InFlight(k)' <=> InFlight(k)
    BY FlightKept DEF Calm
  <2> QED
    BY <1>1, <2>1 DEF LogInv, Tells
<1> QED
  BY <1>2, <1>3, <1>4, <1>5 DEF LogInv

\* A Set or a Delete puts its key in flight.
LEMMA WriteLogs ==
    ASSUME TypeOK, FramesOK, OneWriter, LogInv,
           NEW t \in Thread, Store(t) \/ Remove(t)
    PROVE  LogInv'
<1> DEFINE k == frame[t].req.key
<1>0. /\ UNCHANGED <<now, aof, rw, rewriting, heap, tmPc, tmItem>>
      /\ \A u \in Thread : u # t => Same(u)
      /\ pc[t] \in {"store", "remove"} /\ pc'[t] = "account"
      /\ frame'[t].req = frame[t].req /\ frame'[t].exp = frame[t].exp
      /\ \A j \in Key : j # k => items'[j] = items[j]
      /\ items'[k] = IF frame[t].req.op = "set"
                     THEN [val |-> frame[t].req.val, exp |-> frame[t].exp]
                     ELSE None
  BY WriteStep DEF aofVars, ttlVars
<1>1. k \in Key /\ frame[t].req.op \in {"set", "del"} /\ frame[t] # None
  BY <1>0, WriterFrame
<1>2. LogWhole'
  BY <1>0 DEF LogInv, LogWhole
<1>3. HeapLogged'
  BY <1>0 DEF LogInv, HeapLogged, InHeap, Same, Written
<1>4. ASSUME NEW u \in Thread, u # t, pc[u] \in Writing
      PROVE  frame[u].req.key \in Key /\ frame[u].req.key # k
  <2>1. /\ frame[u] # None /\ frame[u].req.key \in Key
        /\ frame[u].req.op \in {"set", "del"}
    BY <1>4, WriterFrame DEF Writing
  <2>2. frame[u].req \in Workload[u] /\ frame[t].req \in Workload[t]
    BY <1>1, <2>1 DEF FramesOK, FrameOK
  <2> QED
    BY <1>1, <1>4, <2>1, <2>2 DEF OneWriter
<1>5. OwnWrites'
  <2>1. ASSUME NEW u \in Thread, pc'[u] \in Writing
        PROVE  \/ /\ frame'[u].req.op = "set"
                  /\ items'[frame'[u].req.key] =
                       [val |-> frame'[u].req.val, exp |-> frame'[u].exp]
               \/ /\ frame'[u].req.op = "set"
                  /\ items'[frame'[u].req.key] = None
                  /\ ~NeverTimed(frame'[u].req.key, aof.lines)
               \/ frame'[u].req.op = "del" /\ items'[frame'[u].req.key] = None
    <3>1. CASE u = t
      BY <1>0, <1>1, <3>1
    <3>2. CASE u # t
      <4>1. pc[u] \in Writing /\ frame'[u] = frame[u]
        BY <1>0, <2>1, <3>2 DEF Same
      <4>2. items'[frame[u].req.key] = items[frame[u].req.key]
        BY <1>0, <1>4, <3>2, <4>1
      <4> QED
        BY <4>1, <4>2 DEF LogInv, OwnWrites
    <3> QED
      BY <3>1, <3>2
  <2> QED
    BY <1>0, <2>1 DEF OwnWrites
<1>6. ASSUME NEW j \in Key PROVE InFlight(j)' \/ Tells(j)'
  <2>1. CASE j = k
    BY <1>0, <2>1 DEF InFlight
  <2>2. CASE j # k
    <3>1. InFlight(j)' <=> InFlight(j)
      BY <1>0, <2>2, FlightKept
    <3>2. items'[j] = items[j]
      BY <1>0, <2>2
    <3> QED
      BY <1>0, <3>1, <3>2 DEF LogInv, Tells
  <2> QED
    BY <2>1, <2>2
<1> QED
  BY <1>2, <1>3, <1>5, <1>6 DEF LogInv

\* Without rewriting or faults an append adds its line, and that is all.
LEMMA PlainAppend ==
    ASSUME TypeOK, TabKey = {}, RewriteThreshold = 0, LogWhole,
           NEW ln \in Line, ln.op # "BROKEN", AppendLine(ln)
    PROVE  /\ aof.lines \in Seq(Line) /\ aof'.lines = Append(aof.lines, ln)
           /\ LogWhole'
<1>1. aof \in File /\ aof' \in File
  BY TypeParts, OpenedType, ExtendType
     DEF LogWhole, AofTypeOK, AppendLine
<1>2. aof' = [aof EXCEPT !.lines = Append(@, ln)]
  BY DEF AppendLine, LogWhole, Opened, Extend
<1>3. aof.lines \in Seq(Line) /\ aof'.lines = Append(aof.lines, ln) /\ ~aof'.cut
  BY <1>1, <1>2 DEF File, LogWhole
<1>4. Clean(aof'.lines)
  <2>1. Parses(ln)
    BY DEF Parses
  <2>2. ASSUME NEW i \in 1 .. Len(aof'.lines) PROVE Parses(aof'.lines[i])
    <3>1. i \in 1 .. Len(aof.lines) \/ i = Len(aof.lines) + 1
      BY <1>3, AppendIs
    <3> QED
      BY <1>3, <2>1, <3>1, AppendIs DEF LogWhole, Clean
  <2> QED
    BY <2>2 DEF Clean
<1>5. UNCHANGED <<rw, rewriting>>
  BY DEF AppendLine, RewriteDue
<1> QED
  BY <1>1, <1>3, <1>4, <1>5, AofAssumption DEF LogWhole

\* The line of a Set or a Delete lands it.
LEMMA LineLogs ==
    ASSUME TypeOK, FramesOK, ~IoFaults, TabKey = {}, RewriteThreshold = 0,
           LogInv, OneWriter, NEW t \in Thread, LogLine(t)
    PROVE  LogInv'
<1> DEFINE k == frame[t].req.key
           ln == LineOf(t)
           a == aof.lines
<1>0. /\ UNCHANGED <<items, now, heap, tmPc, tmItem, frame>>
      /\ \A u \in Thread : u # t => Same(u)
      /\ pc[t] = "append" /\ pc'[t] = "count"
      /\ AppendLine(ln) /\ ln \in Line
      /\ frame[t].req.op = "set" => ln = SetLine(k, frame[t].req.val,
                                                 frame[t].exp)
      /\ frame[t].req.op = "del" => ln = DelLine(k)
  BY LogStep DEF ttlVars
<1>1. k \in Key /\ frame[t].req.op \in {"set", "del"} /\ frame[t] # None
  BY <1>0, WriterFrame
<1>2. ln.op \in {"SET", "DEL"} /\ ln.key = k
  BY <1>0, <1>1, LinesName
<1>3. a \in Seq(Line) /\ aof'.lines = Append(a, ln) /\ LogWhole'
  BY <1>0, <1>2, PlainAppend DEF LogInv
<1> HIDE DEF a, ln
<1>4. \A j : NeverTimed(j, aof'.lines) => NeverTimed(j, a)
  BY <1>0, <1>3, TimedStays
<1>5. HeapLogged'
  <2>1. \A i \in Item : InHeap(i)' => ~NeverTimed(i[1], aof'.lines)
    BY <1>0, <1>4 DEF LogInv, HeapLogged, InHeap, a
  <2>2. tmPc' \in {"wait", "expire"} => ~NeverTimed(tmItem'[1], aof'.lines)
    BY <1>0, <1>4 DEF LogInv, HeapLogged, a
  <2>3. ASSUME NEW u \in Thread, pc'[u] \in Written, frame'[u] # None,
               frame'[u].exp > 0
        PROVE  ~NeverTimed(frame'[u].req.key, aof'.lines)
    <3>1. CASE u = t
      <4>1. frame[t].req.op = "set" /\ frame[t].exp > 0
        BY <1>0, <1>1, <2>3, <3>1 DEF FramesOK, FrameOK
      <4>2. ln.op = "SET" /\ ln.key = k /\ ln.exp > 0
        BY <1>0, <4>1, LinesName
      <4> QED
        BY <1>0, <1>3, <3>1, <4>2, TimedStays
    <3>2. CASE u # t
      BY <1>0, <1>4, <2>3, <3>2 DEF LogInv, HeapLogged, Same, a
    <3> QED
      BY <3>1, <3>2
  <2> QED
    BY <2>1, <2>2, <2>3 DEF HeapLogged
<1>6. OwnWrites'
  BY <1>0, <1>4 DEF LogInv, OwnWrites, Same, Writing, a
<1>7. ASSUME NEW j \in Key PROVE InFlight(j)' \/ Tells(j)'
  <2>1. CASE j = k
    <3>1. CASE frame[t].req.op = "set"
      <4>1. LastIs(aof'.lines, k, ln)
        BY <1>0, <1>2, <1>3, LastAppended DEF Names
      <4>2. CASE items[k] = [val |-> frame[t].req.val, exp |-> frame[t].exp]
        <5>1. Brings(aof'.lines, k, items[k], now)
          BY <1>0, <3>1, <4>1, <4>2, <1>3, AppendIs, LastBrings
        <5>2. items[k] # None
          BY <4>2, <1>1, <1>0, WriterFrame, <3>1, MapAssumption DEF Entry
        <5> QED
          BY <1>0, <2>1, <5>1, <5>2 DEF Tells
      <4>3. CASE items[k] = None /\ ~NeverTimed(k, a)
        BY <1>0, <1>4, <2>1, <4>3 DEF Tells
      <4> QED
        BY <1>0, <3>1, <4>2, <4>3 DEF LogInv, OwnWrites, Writing, a
    <3>2. CASE frame[t].req.op = "del"
      <4>1. items[k] = None
        BY <1>0, <3>2 DEF LogInv, OwnWrites, Writing
      <4>2. Buried(aof'.lines, k)
        BY <1>0, <1>1, <1>3, <3>2, BuriedAppended
      <4> QED
        BY <1>0, <2>1, <4>1, <4>2 DEF Tells
    <3> QED
      BY <1>1, <3>1, <3>2
  <2>2. CASE j # k
    <3>1. InFlight(j)' <=> InFlight(j)
      BY <1>0, <2>2, FlightKept
    <3>2. ~Names(ln, j)
      BY <1>2, <2>2 DEF Names
    <3> QED
      BY <1>0, <1>3, <1>4, <3>1, <3>2, OthersAppended
         DEF LogInv, Tells, a
  <2> QED
    BY <2>1, <2>2
<1> QED
  BY <1>3, <1>5, <1>6, <1>7 DEF LogInv

\* A popped key has a line with an expiry: nothing is claimed of it.
LEMMA ExpireLogs ==
    ASSUME TypeOK, FramesOK, LogInv, Expire
    PROVE  LogInv'
<1> DEFINE k == tmItem[1]
<1>0. /\ UNCHANGED <<now, aof, rw, rewriting, heap, tmItem>>
      /\ \A u \in Thread : Same(u)
      /\ tmPc = "expire" /\ tmPc' = "account" /\ k \in Key
      /\ items'[k] = None
      /\ \A j \in Key : j # k => items'[j] = items[j]
  BY ExpireStep DEF aofVars
<1>1. ~NeverTimed(k, aof.lines)
  BY <1>0 DEF LogInv, HeapLogged
<1>2. LogWhole' /\ HeapLogged'
  BY <1>0 DEF LogInv, LogWhole, HeapLogged, InHeap, Same
<1>3. OwnWrites'
  <2>1. ASSUME NEW u \in Thread, pc[u] \in Writing
        PROVE  frame[u].req.key \in Key
    BY <2>1, WriterFrame DEF Writing
  <2> QED
    BY <1>0, <1>1, <2>1 DEF LogInv, OwnWrites, Same
<1>4. ASSUME NEW j \in Key PROVE InFlight(j)' \/ Tells(j)'
  <2>1. InFlight(j)' <=> InFlight(j)
    BY <1>0, FlightKept
  <2> QED
    BY <1>0, <1>1, <2>1 DEF LogInv, Tells
<1> QED
  BY <1>2, <1>3, <1>4 DEF LogInv

\* What has lapsed stays lapsed.
LEMMA LapsedStays ==
    ASSUME NEW e \in Entry, NEW t \in Int, NEW u \in Int, t <= u, Lapsed(e, t)
    PROVE  Lapsed(e, u)
BY MapAssumption DEF Lapsed, Entry

LEMMA AsideLogs ==
    ASSUME TypeOK, FramesOK, LogInv, Rewriter \/ Tick
    PROVE  LogInv'
<1>0. UNCHANGED <<items, heap, tmPc, tmItem>> /\ \A u \in Thread : Same(u)
  BY AsideStep DEF ttlVars
<1>1. CASE Rewriter
  BY <1>1 DEF Rewriter, RwStep, RwOpen, RwScan, RwCopy, RwFlush, RwRemove,
     RwRename, RwRenameFails, RwFault, LogInv, LogWhole
<1>2. CASE Tick
  <2>1. UNCHANGED <<aof, rw, rewriting>> /\ now' = now + 1
    BY <1>2 DEF Tick, aofVars
  <2>2. LogWhole' /\ HeapLogged' /\ OwnWrites'
    BY <1>0, <2>1 DEF LogInv, LogWhole, HeapLogged, OwnWrites, InHeap, Same
  <2>3. ASSUME NEW k \in Key PROVE InFlight(k)' \/ Tells(k)'
    <3>1. InFlight(k)' <=> InFlight(k)
      BY <1>0, FlightKept
    <3>2. now \in Int /\ now' \in Int /\ now <= now'
      BY <2>1, TypeParts, MapAssumption DEF MapTypeOK
    <3>3. items[k] # None => items[k] \in Entry
      BY TypeParts DEF MapTypeOK, Slot
    <3>4. aof.lines \in Seq(Line)
      BY TypeParts DEF AofTypeOK, File, LogInv, LogWhole
    <3>5. items[k] # None /\ ~Lapsed(items[k], now') =>
            ~Lapsed(items[k], now)
      BY <3>2, <3>3, LapsedStays
    <3>6. Brings(aof.lines, k, items[k], now) =>
              Brings(aof.lines, k, items[k], now')
      BY <3>2, <3>4, EffectFades
    <3> QED
      BY <1>0, <2>1, <3>1, <3>5, <3>6 DEF LogInv, Tells
  <2> QED
    BY <2>2, <2>3 DEF LogInv
<1> QED
  BY <1>1, <1>2

\* A file that says what the store holds restores it.
LEMMA LogRestores ==
    ASSUME TypeOK, LogInv
    PROVE  Restores(aof.lines)
<1>1. aof.lines \in Seq(Line) /\ Clean(aof.lines)
  BY TypeParts DEF AofTypeOK, File, LogInv, LogWhole
<1>2. ASSUME NEW k \in Key, ~InFlight(k)
      PROVE  /\ items[k] # None /\ ~Lapsed(items[k], now) =>
                    Recovered(aof.lines, now)[k] = items[k]
             /\ items[k] = None /\ NeverTimed(k, aof.lines) =>
                    Recovered(aof.lines, now)[k] = None
  <2>1. items[k] # None => items[k] \in Entry
    BY TypeParts DEF MapTypeOK, Slot
  <2> QED
    BY <1>1, <1>2, <2>1, BroughtBack, NotBroughtBack DEF LogInv, Tells
<1> QED
  BY <1>2 DEF Restores

LEMMA NothingLogged ==
    ASSUME Init, AofEnabled
    PROVE  FramesOK /\ LogInv
<1>1. /\ aof = EmptyFile /\ items = [k \in Key |-> None]
      /\ rw = RwIdle /\ rewriting = FALSE /\ heap = [i \in Item |-> 0]
      /\ tmPc = "loop" /\ pc = [p \in Worker |-> "idle"]
      /\ frame = [u \in Thread |-> None]
  BY DEF Init, MapInit, AofFresh, TtlInit, SvcFresh
<1>2. Len(aof.lines) = 0 /\ aof.lines = <<>> /\ ~aof.cut
  BY <1>1 DEF EmptyFile
<1>3. LogWhole
  <2>1. <<>> \in Seq(Line)
    OBVIOUS
  <2>2. EmptyFile \in File
    BY <2>1 DEF EmptyFile, File
  <2> QED
    BY <1>1, <1>2, <2>2, RwIdleType, AofAssumption DEF LogWhole, Clean
<1>4. HeapLogged /\ OwnWrites
  BY <1>1 DEF HeapLogged, OwnWrites, InHeap, Written, Writing
<1>5. \A k \in Key : Tells(k)
  BY <1>1, <1>2 DEF Tells, Buried
<1>6. FramesOK
  BY <1>1 DEF FramesOK, FrameOK
<1> QED
  BY <1>3, <1>4, <1>5, <1>6 DEF LogInv

\* The strengthened invariant is kept by every step of the server.
LEMMA LogNext ==
    ASSUME AofEnabled, ~IoFaults, TabKey = {}, RewriteThreshold = 0, OneWriter,
           TypeOK, TypeOK', FramesOK, LogInv, [Next]_vars
    PROVE  FramesOK' /\ LogInv'
<1>1. CASE Calm
  BY <1>1, CalmLog, StepKinds
<1>2. ASSUME NEW t \in Thread, Store(t) \/ Remove(t)
      PROVE  LogInv'
  BY <1>2, WriteLogs
<1>3. ASSUME NEW t \in Thread, LogLine(t)
      PROVE  LogInv'
  BY <1>3, LineLogs
<1>4. CASE Expire
  BY <1>4, ExpireLogs, StepKinds
<1>5. CASE Rewriter \/ Tick
  BY <1>5, AsideLogs, StepKinds
<1> QED
  BY <1>1, <1>2, <1>3, <1>4, <1>5, StepKinds

\* spec.md:14, service.go:171-175: while no rewrite replaces it, the file is at
\* every moment enough to restore every key no handler is writing, whichever
\* deadlines expire meanwhile -- if each key has one writer, its lines can be
\* parsed and the disk works.
THEOREM LogIsDurable ==
    ASSUME ~IoFaults, TabKey = {}, RewriteThreshold = 0, OneWriter
    PROVE  Spec => []Durable
<1>1. CASE AofEnabled
  <2> DEFINE I == TypeOK /\ FramesOK /\ LogInv
  <2>1. Init => I
    BY <1>1, InitType, NothingLogged
  <2>2. I /\ [Next]_vars => I'
    BY <1>1, NextType, LogNext
  <2>3. I => Durable
    BY LogRestores DEF Durable
  <2> QED
    BY <2>1, <2>2, <2>3, PTL DEF Spec
<1>2. CASE ~AofEnabled
  <2>1. Durable
    BY <1>2 DEF Durable
  <2> QED
    BY <2>1, PTL
<1> QED
  BY <1>1, <1>2

-----------------------------------------------------------------------------
(* Lines put together *)

LEMMA ConcatIs ==
    ASSUME NEW a \in Seq(Line), NEW b \in Seq(Line)
    PROVE  /\ a \o b \in Seq(Line)
           /\ Len(a) \in Nat /\ Len(b) \in Nat
           /\ Len(a \o b) = Len(a) + Len(b)
           /\ \A i \in 1 .. Len(a) : (a \o b)[i] = a[i]
           /\ \A i \in Len(a) + 1 .. Len(a) + Len(b) :
                 (a \o b)[i] = b[i - Len(a)]
OBVIOUS

\* A line of the whole is a line of one of the parts, and the other way round.
LEMMA ConcatParts ==
    ASSUME NEW a \in Seq(Line), NEW b \in Seq(Line)
    PROVE  /\ \A i \in 1 .. Len(a \o b) :
                 \/ i \in 1 .. Len(a) /\ (a \o b)[i] = a[i]
                 \/ /\ i - Len(a) \in 1 .. Len(b)
                    /\ (a \o b)[i] = b[i - Len(a)]
           /\ \A i \in 1 .. Len(a) :
                 i \in 1 .. Len(a \o b) /\ (a \o b)[i] = a[i]
           /\ \A i \in 1 .. Len(b) :
                 /\ Len(a) + i \in 1 .. Len(a \o b)
                 /\ (a \o b)[Len(a) + i] = b[i]
<1> DEFINE c == a \o b
<1>1. /\ Len(a) \in Nat /\ Len(b) \in Nat /\ Len(c) = Len(a) + Len(b)
      /\ \A i \in 1 .. Len(a) : c[i] = a[i]
      /\ \A i \in Len(a) + 1 .. Len(a) + Len(b) : c[i] = b[i - Len(a)]
  BY ConcatIs
<1> HIDE DEF c
<1>2. ASSUME NEW i \in 1 .. Len(c)
      PROVE  \/ i \in 1 .. Len(a) /\ c[i] = a[i]
             \/ i - Len(a) \in 1 .. Len(b) /\ c[i] = b[i - Len(a)]
  BY <1>1
<1>3. \A i \in 1 .. Len(a) : i \in 1 .. Len(c) /\ c[i] = a[i]
  BY <1>1
<1>4. ASSUME NEW i \in 1 .. Len(b)
      PROVE  Len(a) + i \in 1 .. Len(c) /\ c[Len(a) + i] = b[i]
  <2>1. Len(a) + i \in Len(a) + 1 .. Len(a) + Len(b) /\ (Len(a) + i) - Len(a) = i
    BY <1>1
  <2> QED
    BY <1>1, <2>1
<1> QED
  BY <1>2, <1>3, <1>4 DEF c

LEMMA ConcatSays ==
    ASSUME NEW a \in Seq(Line), NEW b \in Seq(Line), NEW k
    PROVE  /\ Silent(a \o b, k) <=> Unsaid(a, b, k)
           /\ \A ln : Said(a, b, k, ln) => LastIs(a \o b, k, ln)
           /\ \A ln : LastIs(a \o b, k, ln) => Said(a, b, k, ln)
<1> DEFINE c == a \o b
<1>1. /\ \A i \in 1 .. Len(c) :
            \/ i \in 1 .. Len(a) /\ c[i] = a[i]
            \/ i - Len(a) \in 1 .. Len(b) /\ c[i] = b[i - Len(a)]
      /\ \A i \in 1 .. Len(a) : i \in 1 .. Len(c) /\ c[i] = a[i]
      /\ \A i \in 1 .. Len(b) :
            Len(a) + i \in 1 .. Len(c) /\ c[Len(a) + i] = b[i]
      /\ Len(a) \in Nat /\ Len(b) \in Nat /\ Len(c) = Len(a) + Len(b)
  BY ConcatParts, ConcatIs
<1> HIDE DEF c
<1>2. Silent(c, k) <=> Unsaid(a, b, k)
  <2>1. ASSUME Unsaid(a, b, k) PROVE Silent(c, k)
    BY <1>1, <2>1 DEF Silent, Unsaid
  <2>2. ASSUME Silent(c, k) PROVE Unsaid(a, b, k)
    <3>1. \A i \in 1 .. Len(a) : ~Names(a[i], k)
      BY <1>1, <2>2 DEF Silent
    <3>2. \A i \in 1 .. Len(b) : ~Names(b[i], k)
      BY <1>1, <2>2 DEF Silent
    <3> QED
      BY <3>1, <3>2 DEF Silent, Unsaid
  <2> QED
    BY <2>1, <2>2
<1>3. ASSUME NEW ln, Said(a, b, k, ln) PROVE LastIs(c, k, ln)
  <2>1. CASE LastIs(b, k, ln)
    <3>1. PICK i \in 1 .. Len(b) :
            /\ b[i] = ln /\ Names(ln, k)
            /\ \A j \in i + 1 .. Len(b) : ~Names(b[j], k)
      BY <2>1 DEF LastIs
    <3>2. Len(a) + i \in 1 .. Len(c) /\ c[Len(a) + i] = ln
      BY <1>1, <3>1
    <3>3. ASSUME NEW j \in (Len(a) + i) + 1 .. Len(c) PROVE ~Names(c[j], k)
      <4>1. j \in 1 .. Len(c) /\ j \notin 1 .. Len(a)
            /\ j - Len(a) >= i + 1
        BY <1>1, <3>1
      <4>2. j - Len(a) \in 1 .. Len(b) /\ c[j] = b[j - Len(a)]
        BY <1>1, <4>1
      <4>3. j - Len(a) \in i + 1 .. Len(b)
        BY <1>1, <3>1, <4>1, <4>2
      <4> QED
        BY <3>1, <4>2, <4>3
    <3> QED
      BY <3>1, <3>2, <3>3 DEF LastIs
  <2>2. CASE Silent(b, k) /\ LastIs(a, k, ln)
    <3>1. PICK i \in 1 .. Len(a) :
            /\ a[i] = ln /\ Names(ln, k)
            /\ \A j \in i + 1 .. Len(a) : ~Names(a[j], k)
      BY <2>2 DEF LastIs
    <3>2. i \in 1 .. Len(c) /\ c[i] = ln
      BY <1>1, <3>1
    <3>3. ASSUME NEW j \in i + 1 .. Len(c) PROVE ~Names(c[j], k)
      <4>1. j \in 1 .. Len(c)
        BY <1>1, <3>1
      <4>2. CASE j \in 1 .. Len(a) /\ c[j] = a[j]
        BY <3>1, <4>2
      <4>3. CASE j - Len(a) \in 1 .. Len(b) /\ c[j] = b[j - Len(a)]
        BY <2>2, <4>3 DEF Silent
      <4> QED
        BY <1>1, <4>1, <4>2, <4>3
    <3> QED
      BY <3>1, <3>2, <3>3 DEF LastIs
  <2> QED
    BY <1>3, <2>1, <2>2 DEF Said
<1>4. ASSUME NEW ln, LastIs(c, k, ln) PROVE Said(a, b, k, ln)
  <2>1. PICK i \in 1 .. Len(c) :
          /\ c[i] = ln /\ Names(ln, k)
          /\ \A j \in i + 1 .. Len(c) : ~Names(c[j], k)
    BY <1>4 DEF LastIs
  <2>2. CASE i \in 1 .. Len(a) /\ c[i] = a[i]
    <3>1. \A j \in i + 1 .. Len(a) : ~Names(a[j], k)
      BY <1>1, <2>1, <2>2
    <3>2. ASSUME NEW j \in 1 .. Len(b) PROVE ~Names(b[j], k)
      <4>1. Len(a) + j \in i + 1 .. Len(c) /\ c[Len(a) + j] = b[j]
        BY <1>1, <2>2
      <4> QED
        BY <2>1, <4>1
    <3> QED
      BY <2>1, <2>2, <3>1, <3>2 DEF LastIs, Said, Silent
  <2>3. CASE i - Len(a) \in 1 .. Len(b) /\ c[i] = b[i - Len(a)]
    <3>1. ASSUME NEW j \in (i - Len(a)) + 1 .. Len(b) PROVE ~Names(b[j], k)
      <4>1. j \in 1 .. Len(b) /\ Len(a) + j \in i + 1 .. Len(c)
        BY <1>1, <2>1, <2>3
      <4> QED
        BY <1>1, <2>1, <4>1
    <3> QED
      BY <2>1, <2>3, <3>1 DEF LastIs, Said
  <2> QED
    BY <1>1, <2>1, <2>2, <2>3
<1> QED
  BY <1>2, <1>3, <1>4 DEF c

\* What is true of every line of the parts is true of every line.
LEMMA ConcatAll ==
    ASSUME NEW a \in Seq(Line), NEW b \in Seq(Line)
    PROVE  /\ Clean(a \o b) <=> Clean(a) /\ Clean(b)
           /\ OnlyTimed(a \o b) <=> OnlyTimed(a) /\ OnlyTimed(b)
<1> DEFINE c == a \o b
<1>1. /\ \A i \in 1 .. Len(c) :
            \/ i \in 1 .. Len(a) /\ c[i] = a[i]
            \/ i - Len(a) \in 1 .. Len(b) /\ c[i] = b[i - Len(a)]
      /\ \A i \in 1 .. Len(a) : i \in 1 .. Len(c) /\ c[i] = a[i]
      /\ \A i \in 1 .. Len(b) :
            Len(a) + i \in 1 .. Len(c) /\ c[Len(a) + i] = b[i]
  BY ConcatParts
<1> HIDE DEF c
<1>2. Clean(c) => Clean(a) /\ Clean(b)
  BY <1>1 DEF Clean
<1>3. Clean(a) /\ Clean(b) => Clean(c)
  BY <1>1 DEF Clean
<1>4. OnlyTimed(c) => OnlyTimed(a) /\ OnlyTimed(b)
  BY <1>1 DEF OnlyTimed
<1>5. OnlyTimed(a) /\ OnlyTimed(b) => OnlyTimed(c)
  BY <1>1 DEF OnlyTimed
<1> QED
  BY <1>2, <1>3, <1>4, <1>5 DEF c

\* An appended line is a part of one line.
LEMMA AppendConcat ==
    ASSUME NEW a \in Seq(Line), NEW ln \in Line
    PROVE  Append(a, ln) = a \o <<ln>> /\ <<ln>> \in Seq(Line)
OBVIOUS

\* A buffer is its first n lines and the others; appending adds to the others.
LEMMA Divided ==
    ASSUME NEW b \in Seq(Line), NEW n \in 0 .. Len(b)
    PROVE  /\ SubSeq(b, 1, n) \in Seq(Line)
           /\ SubSeq(b, n + 1, Len(b)) \in Seq(Line)
           /\ b = SubSeq(b, 1, n) \o SubSeq(b, n + 1, Len(b))
<1>1. Len(b) \in Nat /\ \A i \in 1 .. Len(b) : b[i] \in Line
  OBVIOUS
<1>2. SubSeq(b, 1, n) \in Seq(Line)
  <2>1. \A i \in 1 .. n : b[i] \in Line
    BY <1>1
  <2> QED
    BY <1>1, <2>1, SubSeqProperties
<1>3. SubSeq(b, n + 1, Len(b)) \in Seq(Line)
  <2>1. \A i \in n + 1 .. Len(b) : b[i] \in Line
    BY <1>1
  <2> QED
    BY <1>1, <2>1, SubSeqProperties
<1>4. SubSeq(b, 1, n) \o SubSeq(b, n + 1, Len(b)) = SubSeq(b, 1, Len(b))
  <2>1. 1 \in 1 .. Len(b) + 1 /\ n \in 1 - 1 .. Len(b)
        /\ Len(b) \in n .. Len(b)
    BY <1>1
  <2> QED
    BY <2>1, ConcatAdjacentSubSeq
<1> QED
  BY <1>2, <1>3, <1>4, SubSeqFull

LEMMA DividedAppend ==
    ASSUME NEW b \in Seq(Line), NEW n \in 0 .. Len(b), NEW ln \in Line,
           NEW c, c = Append(b, ln)
    PROVE  /\ SubSeq(c, 1, n) = SubSeq(b, 1, n)
           /\ SubSeq(c, n + 1, Len(c)) = Append(SubSeq(b, n + 1, Len(b)), ln)
<1>1. /\ c \in Seq(Line) /\ Len(c) = Len(b) + 1 /\ Len(b) \in Nat
      /\ \A i \in 1 .. Len(b) : c[i] = b[i]
      /\ c[Len(b) + 1] = ln
  BY AppendIs
<1> DEFINE d == SubSeq(b, n + 1, Len(b))
           e == SubSeq(c, n + 1, Len(c))
<1>2. SubSeq(c, 1, n) = SubSeq(b, 1, n)
  <2>1. SubSeq(c, 1, n) \in Seq(Line) /\ SubSeq(b, 1, n) \in Seq(Line)
    BY <1>1, Divided
  <2>2. /\ Len(SubSeq(c, 1, n)) = n /\ Len(SubSeq(b, 1, n)) = n
        /\ \A i \in 1 .. n :
              /\ SubSeq(c, 1, n)[i] = c[i]
              /\ SubSeq(b, 1, n)[i] = b[i]
    BY <1>1
  <2>3. \A i \in 1 .. n : c[i] = b[i]
    BY <1>1
  <2> QED
    BY <2>1, <2>2, <2>3, SeqEqual
<1>3. d \in Seq(Line) /\ e \in Seq(Line)
  BY <1>1, Divided
<1>4. /\ Len(d) = Len(b) - n /\ Len(e) = Len(b) - n + 1
      /\ \A i \in 1 .. Len(b) - n : d[i] = b[n + i]
      /\ \A i \in 1 .. Len(b) - n + 1 : e[i] = c[n + i]
  BY <1>1
<1> HIDE DEF d, e
<1>5. /\ Append(d, ln) \in Seq(Line) /\ Len(Append(d, ln)) = Len(e)
      /\ \A i \in 1 .. Len(d) : Append(d, ln)[i] = d[i]
      /\ Append(d, ln)[Len(d) + 1] = ln
  BY <1>1, <1>3, <1>4, AppendIs
<1>6. ASSUME NEW i \in 1 .. Len(e) PROVE e[i] = Append(d, ln)[i]
  <2>1. CASE i \in 1 .. Len(b) - n
    <3>1. e[i] = c[n + i] /\ d[i] = b[n + i] /\ n + i \in 1 .. Len(b)
      BY <1>4, <2>1, <1>1
    <3>2. i \in 1 .. Len(d)
      BY <1>4, <2>1
    <3> QED
      BY <1>1, <1>5, <3>1, <3>2
  <2>2. CASE i = Len(b) - n + 1
    <3>1. n + i = Len(b) + 1 /\ i = Len(d) + 1
      BY <1>4, <2>2, <1>1
    <3>2. e[i] = c[n + i]
      BY <1>4, <1>6
    <3> QED
      BY <1>1, <1>5, <3>1, <3>2
  <2> QED
    BY <1>1, <1>4, <2>1, <2>2
<1>7. e = Append(d, ln)
  BY <1>3, <1>5, <1>6, SeqEqual
<1> QED
  BY <1>2, <1>7 DEF d, e

\* The lines of one scanned shard: one for each of its keys, in any order.
LEMMA ScanSays ==
    ASSUME NEW keys, keys \subseteq Key, \A k \in keys : items[k] \in Entry,
           NEW order \in Injection(1 .. Cardinality(keys), keys),
           NEW s, s = [i \in DOMAIN order |-> EntryLine(order[i])]
    PROVE  /\ s \in Seq(Line)
           /\ \A i \in 1 .. Len(s) : \E k \in keys : s[i] = EntryLine(k)
           /\ \A k \in keys : LastIs(s, k, EntryLine(k))
           /\ \A k : k \notin keys => Silent(s, k)
<1> DEFINE n == Cardinality(keys)
<1>1. IsFiniteSet(keys) /\ n \in Nat
  BY FS_Subset, FS_CardinalityType, MapAssumption
<1>2. /\ order \in [1 .. n -> keys]
      /\ \A i, j \in 1 .. n : order[i] = order[j] => i = j
  BY DEF Injection, IsInjective
<1>3. \A k \in keys : \E i \in 1 .. n : order[i] = k
  <2>1. Cardinality(1 .. n) = n /\ IsFiniteSet(1 .. n)
    BY <1>1, FS_Interval
  <2>2. order \in Surjection(1 .. n, keys)
    BY <1>1, <2>1, FS_Injection
  <2> QED
    BY <2>2 DEF Surjection
<1> HIDE DEF n
<1>4. \A k \in keys : EntryLine(k) \in Line /\ Names(EntryLine(k), k)
  BY LinesName DEF EntryLine, Entry, SetLine, Line
<1>5. DOMAIN order = 1 .. n
  BY <1>2
<1>6. s \in Seq(Line) /\ Len(s) = n /\ \A i \in 1 .. n : s[i] = EntryLine(order[i])
  <2>1. s \in [1 .. n -> Line] /\ \A i \in 1 .. n : s[i] = EntryLine(order[i])
    BY <1>2, <1>4, <1>5
  <2> QED
    BY <1>1, <2>1
<1>7. ASSUME NEW i \in 1 .. n, NEW k, Names(s[i], k)
      PROVE  order[i] = k
  BY <1>2, <1>6, <1>7, LinesName DEF EntryLine
<1>8. ASSUME NEW k \in keys PROVE LastIs(s, k, EntryLine(k))
  <2>1. PICK i \in 1 .. n : order[i] = k
    BY <1>3
  <2>2. s[i] = EntryLine(k) /\ Names(EntryLine(k), k)
    BY <1>4, <1>6, <2>1
  <2>3. ASSUME NEW j \in i + 1 .. Len(s) PROVE ~Names(s[j], k)
    <3>1. j \in 1 .. n /\ j # i
      BY <1>6, <2>1, <1>1
    <3> QED
      BY <1>2, <1>7, <2>1, <3>1
  <2> QED
    BY <1>6, <2>2, <2>3 DEF LastIs
<1>9. ASSUME NEW k, k \notin keys PROVE Silent(s, k)
  BY <1>2, <1>6, <1>7, <1>9 DEF Silent
<1>10. ASSUME NEW i \in 1 .. Len(s) PROVE \E k \in keys : s[i] = EntryLine(k)
  BY <1>2, <1>6
<1> QED
  BY <1>6, <1>8, <1>9, <1>10

-----------------------------------------------------------------------------
(* The file a rewrite builds misses nothing                                 *)

\* The parts are sequences of lines.
LEMMA PartsType ==
    ASSUME TypeOK, NewParts
    PROVE  /\ NewPart \in Seq(Line) /\ RestPart \in Seq(Line)
           /\ incrBuf \in Seq(Line) /\ rw.buf \in Seq(Line)
           /\ rw.shard \in Shard /\ rw.at \in Time
           /\ rw.pc \notin {"off", "open"} => aofTmp \in File
           /\ rw.pc \in {"flush", "swap", "renaming"} =>
                 Len(rw.buf) \in 0 .. Len(incrBuf)
           /\ rw.pc \in {"swap", "renaming"} => Unflushed \in Seq(Line)
<1>1. /\ incrBuf \in Seq(Line) /\ rw.buf \in Seq(Line)
      /\ rw.shard \in Shard /\ rw.at \in Time
      /\ rw.pc \notin {"off", "open"} => aofTmp \in File
  BY TypeParts DEF AofTypeOK
<1>2. <<>> \in Seq(Line)
  OBVIOUS
<1>3. NewPart \in Seq(Line)
  BY <1>1, <1>2 DEF NewPart, File
<1>4. rw.pc \in {"flush", "swap", "renaming"} =>
          Len(rw.buf) \in 0 .. Len(incrBuf)
  <2>1. Len(rw.buf) \in Nat /\ Len(incrBuf) \in Nat
    BY <1>1
  <2> QED
    BY <2>1 DEF NewParts
<1>5. rw.pc \in {"swap", "renaming"} => Unflushed \in Seq(Line)
  BY <1>1, <1>4, Divided DEF Unflushed
<1>6. RestPart \in Seq(Line)
  BY <1>1, <1>5 DEF RestPart
<1> QED
  BY <1>1, <1>3, <1>4, <1>5, <1>6

\* A deadline a handler owes is of a key that is set with TTLs.
LEMMA OwedTimed ==
    ASSUME TypeOK, FramesOK, NEW t \in Thread, frame[t] # None, frame[t].exp > 0
    PROVE  TimedKey(frame[t].req.key)
BY DEF FramesOK, FrameOK, TimedKey

\* Under Uniform a Set of such a key always has a TTL.
LEMMA TimedWrites ==
    ASSUME TypeOK, FramesOK, Uniform, NEW t \in Thread,
           pc[t] \in {"store", "account", "append"},
           frame[t].req.op = "set", TimedKey(frame[t].req.key)
    PROVE  frame[t].exp > 0
<1>1. frame[t] # None
  BY WriterFrame
<1>2. frame[t].req \in Workload[t]
  BY <1>1 DEF FramesOK, FrameOK
<1>3. frame[t].req.ttl > 0
  <2>1. PICK u \in Thread : \E q \in Workload[u] :
          q.op = "set" /\ q.key = frame[t].req.key /\ q.ttl > 0
    BY DEF TimedKey
  <2> QED
    BY <1>2, <2>1 DEF Uniform
<1> QED
  BY <1>1, <1>3 DEF FramesOK, FrameOK

LEMMA CalmRw ==
    ASSUME TypeOK, TypeOK', FramesOK, RwInv, Calm
    PROVE  RwInv'
<1>1. UNCHANGED <<items, now, aofTmp, incrBuf, rw, rewriting>>
  BY DEF Calm, aofVars
<1>2. UNCHANGED <<NewPart, RestPart>>
  BY <1>1 DEF NewPart, RestPart, Unflushed
<1>3. TimedOnly'
  <2>1. ASSUME NEW i \in Item, InHeap(i)' PROVE TimedKey(i[1])
    BY <2>1, OwedTimed DEF Calm, HeapFed, InHeap, RwInv, TimedOnly
  <2>2. ASSUME tmPc' \in {"wait", "expire"} PROVE TimedKey(tmItem'[1])
    <3>1. tmItem' \in Item
      BY <2>2, TypeParts DEF TtlTypeOK
    <3> QED
      BY <2>2, <3>1 DEF Calm, HeapFed, InHeap, RwInv, TimedOnly
  <2> QED
    BY <1>1, <2>1, <2>2 DEF RwInv, TimedOnly
<1>4. OwnEntries'
  BY <1>1 DEF Calm, Same, Apart, Goes, RwInv, OwnEntries
<1>5. NewParts'
  BY <1>1, <1>2 DEF RwInv, NewParts, Scanned
<1>6. ASSUME rw.pc # "off", NEW k \in Key PROVE InFlight(k)' \/ Covers(k)'
  <2>1. InFlight(k)' <=> InFlight(k)
    BY FlightKept DEF Calm
  <2> QED
    BY <1>1, <1>2, <1>6, <2>1 DEF RwInv, Covers, Scanned, EntryLine
<1> QED
  BY <1>1, <1>3, <1>4, <1>5, <1>6 DEF RwInv

\* What a handler's own entry says, wherever the others are.
OwnEntry(t) ==
    \/ /\ frame[t].req.op = "set"
       /\ items[frame[t].req.key] =
              [val |-> frame[t].req.val, exp |-> frame[t].exp]
    \/ /\ frame[t].req.op = "set"
       /\ items[frame[t].req.key] = None
       /\ TimedKey(frame[t].req.key)
    \/ frame[t].req.op = "del" /\ items[frame[t].req.key] = None

LEMMA WriteRw ==
    ASSUME TypeOK, TypeOK', FramesOK, OneWriter, Uniform, RwInv,
           NEW t \in Thread, Store(t) \/ Remove(t)
    PROVE  RwInv'
<1> DEFINE k == frame[t].req.key
<1>0. /\ UNCHANGED <<now, aofTmp, incrBuf, rw, rewriting, heap, tmPc, tmItem>>
      /\ \A u \in Thread : u # t => Same(u)
      /\ pc[t] \in {"store", "remove"} /\ pc'[t] = "account"
      /\ frame'[t].req = frame[t].req /\ frame'[t].exp = frame[t].exp
      /\ \A j \in Key : j # k => items'[j] = items[j]
      /\ items'[k] = IF frame[t].req.op = "set"
                     THEN [val |-> frame[t].req.val, exp |-> frame[t].exp]
                     ELSE None
  BY WriteStep DEF aofVars, ttlVars
<1>1. /\ k \in Key /\ frame[t].req.op \in {"set", "del"} /\ frame[t] # None
      /\ frame[t].req.op = "set" => pc[t] = "store"
  BY <1>0, WriterFrame
<1>2. UNCHANGED <<NewPart, RestPart>>
  BY <1>0 DEF NewPart, RestPart, Unflushed
<1>3. TimedOnly'
  <2>1. ASSUME NEW j \in Key, items'[j] # None, TimedKey(j)
        PROVE  items'[j].exp > 0
    <3>1. CASE j = k
      <4>1. frame[t].req.op = "set"
        BY <1>0, <1>1, <2>1, <3>1
      <4> QED
        BY <1>0, <1>1, <2>1, <3>1, <4>1, TimedWrites
    <3>2. CASE j # k
      BY <1>0, <2>1, <3>2 DEF RwInv, TimedOnly
    <3> QED
      BY <3>1, <3>2
  <2> QED
    BY <1>0, <2>1 DEF RwInv, TimedOnly, InHeap
<1>4. ASSUME NEW u \in Thread, u # t, pc[u] \in Writing
      PROVE  frame[u].req.key \in Key /\ frame[u].req.key # k
  <2>1. /\ frame[u] # None /\ frame[u].req.key \in Key
        /\ frame[u].req.op \in {"set", "del"}
    BY <1>4, WriterFrame DEF Writing
  <2>2. frame[u].req \in Workload[u] /\ frame[t].req \in Workload[t]
    BY <1>1, <2>1 DEF FramesOK, FrameOK
  <2> QED
    BY <1>1, <1>4, <2>1, <2>2 DEF OneWriter
<1>5. OwnEntries'
  <2>1. ASSUME NEW u \in Thread, pc'[u] \in Writing PROVE OwnEntry(u)'
    <3>1. CASE u = t
      BY <1>0, <1>1, <3>1 DEF OwnEntry
    <3>2. CASE u # t
      <4>1. pc[u] \in Writing /\ frame'[u] = frame[u]
        BY <1>0, <2>1, <3>2 DEF Same
      <4>2. items'[frame[u].req.key] = items[frame[u].req.key]
        BY <1>0, <1>4, <3>2, <4>1
      <4> QED
        BY <4>1, <4>2 DEF RwInv, OwnEntries, OwnEntry
    <3> QED
      BY <3>1, <3>2
  <2> QED
    BY <2>1 DEF OwnEntries, OwnEntry
<1>6. NewParts'
  BY <1>0, <1>2 DEF RwInv, NewParts, Scanned
<1>7. ASSUME rw.pc # "off", NEW j \in Key PROVE InFlight(j)' \/ Covers(j)'
  <2>1. CASE j = k
    BY <1>0, <2>1 DEF InFlight
  <2>2. CASE j # k
    <3>1. InFlight(j)' <=> InFlight(j)
      BY <1>0, <2>2, FlightKept
    <3>2. items'[j] = items[j]
      BY <1>0, <2>2
    <3> QED
      BY <1>0, <1>2, <1>7, <3>1, <3>2 DEF RwInv, Covers, Scanned, EntryLine
  <2> QED
    BY <2>1, <2>2
<1> QED
  BY <1>0, <1>3, <1>5, <1>6, <1>7 DEF RwInv

\* A line added for another key leaves what is said.
LEMMA SaidStays ==
    ASSUME NEW p, NEW q \in Seq(Line), NEW ln \in Line, NEW k, ~Names(ln, k)
    PROVE  /\ \A x : Said(p, q, k, x) => Said(p, Append(q, ln), k, x)
           /\ Unsaid(p, q, k) => Unsaid(p, Append(q, ln), k)
BY OthersAppended DEF Said, Unsaid

\* The first line to be buffered, or one more.
LEMMA LineParts ==
    ASSUME TypeOK, NewParts, ~IoFaults, NEW ln \in Line, AppendLine(ln)
    PROVE  \/ /\ rw'.pc = "open" /\ rw'.shard = 1 /\ rw'.at = 0 /\ rewriting'
              /\ incrBuf' = <<>> /\ NewPart' = <<>> /\ RestPart' = <<>>
           \/ /\ rw.pc = "off" /\ UNCHANGED <<rw, rewriting, incrBuf>>
              /\ UNCHANGED NewPart
           \/ /\ rw.pc # "off" /\ UNCHANGED <<rw, rewriting, aofTmp>>
              /\ incrBuf' = Append(incrBuf, ln)
              /\ NewPart' = NewPart /\ RestPart' = Append(RestPart, ln)
              /\ rw.pc \in {"flush", "swap", "renaming"} =>
                    /\ Len(rw.buf) <= Len(incrBuf')
                    /\ rw.buf = SubSeq(incrBuf', 1, Len(rw.buf))
<1>1. CASE /\ RewriteDue(aof')
           /\ rewriting' = TRUE
           /\ incrBuf' = <<>>
           /\ rw' = [RwIdle EXCEPT !.pc = "open"]
  BY <1>1 DEF RwIdle, NewPart, RestPart
<1>2. CASE /\ incrBuf' = IF rewriting THEN Append(incrBuf, ln) ELSE incrBuf
           /\ UNCHANGED <<rewriting, rw>>
  <2>1. CASE ~rewriting
    BY <1>2, <2>1 DEF NewParts, NewPart
  <2>2. CASE rewriting
    <3>1. rw.pc # "off" /\ incrBuf' = Append(incrBuf, ln) /\ UNCHANGED aofTmp
      BY <1>2, <2>2 DEF NewParts, AppendLine
    <3>2. NewPart' = NewPart
      BY <1>2, <3>1 DEF NewPart
    <3>3. ASSUME rw.pc \in {"flush", "swap", "renaming"}
          PROVE  /\ Len(rw.buf) <= Len(incrBuf')
                 /\ rw.buf = SubSeq(incrBuf', 1, Len(rw.buf))
                 /\ Unflushed' = Append(Unflushed, ln)
      <4>1. incrBuf \in Seq(Line) /\ Len(rw.buf) \in 0 .. Len(incrBuf)
        BY <3>3, PartsType
      <4>2. /\ SubSeq(incrBuf', 1, Len(rw.buf)) = SubSeq(incrBuf, 1, Len(rw.buf))
            /\ SubSeq(incrBuf', Len(rw.buf) + 1, Len(incrBuf'))
                = Append(SubSeq(incrBuf, Len(rw.buf) + 1, Len(incrBuf)), ln)
        BY <3>1, <4>1, DividedAppend
      <4>3. Len(incrBuf') = Len(incrBuf) + 1
        BY <3>1, <4>1, AppendIs
      <4>4. Len(rw.buf) <= Len(incrBuf')
        BY <4>1, <4>3
      <4>5. rw.buf = SubSeq(incrBuf, 1, Len(rw.buf))
        BY <3>3 DEF NewParts
      <4>6. Unflushed' = Append(Unflushed, ln)
        BY <1>2, <4>2 DEF Unflushed
      <4> QED
        BY <4>2, <4>4, <4>5, <4>6
    <3>4. RestPart' = Append(RestPart, ln)
      BY <1>2, <3>1, <3>3 DEF RestPart
    <3> QED
      BY <1>2, <3>1, <3>2, <3>3, <3>4
  <2> QED
    BY <2>1, <2>2
<1> QED
  BY <1>1, <1>2 DEF AppendLine

LEMMA LineRw ==
    ASSUME TypeOK, TypeOK', FramesOK, ~IoFaults, TabKey = {}, Uniform, RwInv,
           NEW t \in Thread, LogLine(t)
    PROVE  RwInv'
<1> DEFINE k == frame[t].req.key
           ln == LineOf(t)
<1>0. /\ UNCHANGED <<items, now, heap, tmPc, tmItem, frame>>
      /\ \A u \in Thread : u # t => Same(u)
      /\ pc[t] = "append" /\ pc'[t] = "count"
      /\ AppendLine(ln) /\ ln \in Line
      /\ frame[t].req.op = "set" => ln = SetLine(k, frame[t].req.val,
                                                 frame[t].exp)
      /\ frame[t].req.op = "del" => ln = DelLine(k)
  BY LogStep DEF ttlVars
<1>1. k \in Key /\ frame[t].req.op \in {"set", "del"} /\ frame[t] # None
  BY <1>0, WriterFrame
<1>2. ln.op \in {"SET", "DEL"} /\ ln.key = k /\ Parses(ln) /\ Names(ln, k)
  BY <1>0, <1>1, LinesName DEF Parses, Names
<1>3. ln.op = "SET" /\ TimedKey(ln.key) => ln.exp > 0
  BY <1>0, <1>1, LinesName, TimedWrites
<1>4. NewParts /\ incrBuf \in Seq(Line) /\ RestPart \in Seq(Line)
  BY PartsType DEF RwInv
<1> HIDE DEF ln
<1>5. \/ /\ rw'.pc = "open" /\ rw'.shard = 1 /\ rw'.at = 0 /\ rewriting'
         /\ incrBuf' = <<>> /\ NewPart' = <<>> /\ RestPart' = <<>>
      \/ /\ rw.pc = "off" /\ UNCHANGED <<rw, rewriting, incrBuf>>
         /\ UNCHANGED NewPart
      \/ /\ rw.pc # "off" /\ UNCHANGED <<rw, rewriting, aofTmp>>
         /\ incrBuf' = Append(incrBuf, ln)
         /\ NewPart' = NewPart /\ RestPart' = Append(RestPart, ln)
         /\ rw.pc \in {"flush", "swap", "renaming"} =>
               /\ Len(rw.buf) <= Len(incrBuf')
               /\ rw.buf = SubSeq(incrBuf', 1, Len(rw.buf))
  BY <1>0, <1>4, LineParts
<1>6. TimedOnly'
  BY <1>0 DEF RwInv, TimedOnly, InHeap
<1>7. OwnEntries'
  BY <1>0 DEF RwInv, OwnEntries, Same, Writing
<1>8. \A x : Silent(<<>>, x)
  BY DEF Silent
<1>9. CASE /\ rw'.pc = "open" /\ rw'.shard = 1 /\ rw'.at = 0 /\ rewriting'
           /\ incrBuf' = <<>> /\ NewPart' = <<>> /\ RestPart' = <<>>
  <2>1. Clean(<<>>) /\ OnlyTimed(<<>>)
    BY DEF Clean, OnlyTimed
  <2>2. 0 <= now
    BY TypeParts, MapAssumption DEF MapTypeOK
  <2>3. NewParts'
    BY <1>0, <1>8, <1>9, <2>1, <2>2 DEF NewParts
  <2>4. \A j \in Key : Covers(j)'
    <3>1. \A j \in Key : ~Scanned(j)' /\ Unsaid(NewPart', RestPart', j)
      BY <1>8, <1>9 DEF Scanned, Unsaid
    <3> QED
      BY <3>1 DEF Covers
  <2> QED
    BY <1>6, <1>7, <2>3, <2>4 DEF RwInv
<1>10. CASE /\ rw.pc = "off" /\ UNCHANGED <<rw, rewriting, incrBuf>>
            /\ UNCHANGED NewPart
  <2>1. NewParts'
    BY <1>0, <1>4, <1>10 DEF NewParts, Scanned
  <2> QED
    BY <1>6, <1>7, <1>10, <2>1 DEF RwInv
<1>11. CASE /\ rw.pc # "off" /\ UNCHANGED <<rw, rewriting, aofTmp>>
            /\ incrBuf' = Append(incrBuf, ln)
            /\ NewPart' = NewPart /\ RestPart' = Append(RestPart, ln)
            /\ rw.pc \in {"flush", "swap", "renaming"} =>
                  /\ Len(rw.buf) <= Len(incrBuf')
                  /\ rw.buf = SubSeq(incrBuf', 1, Len(rw.buf))
  <2>1. Clean(incrBuf') /\ OnlyTimed(incrBuf')
    <3>1. <<ln>> \in Seq(Line) /\ incrBuf' = incrBuf \o <<ln>>
      BY <1>0, <1>4, <1>11, AppendConcat
    <3>2. Clean(<<ln>>) /\ OnlyTimed(<<ln>>)
      BY <1>2, <1>3 DEF Clean, OnlyTimed
    <3> QED
      BY <1>4, <3>1, <3>2, ConcatAll DEF NewParts
  <2>2. NewParts'
    BY <1>0, <1>4, <1>11, <2>1 DEF NewParts, Scanned
  <2>3. ASSUME NEW j \in Key PROVE InFlight(j)' \/ Covers(j)'
    <3>1. CASE j = k
      <4>1. LastIs(RestPart', k, ln)
        BY <1>0, <1>2, <1>4, <1>11, LastAppended
      <4>2. Said(NewPart', RestPart', k, ln)
        BY <4>1 DEF Said
      <4>3. CASE frame[t].req.op = "set"
        <5>1. CASE items[k] = [val |-> frame[t].req.val, exp |-> frame[t].exp]
          <6>1. EntryLine(k)' = ln /\ items[k] # None
            BY <1>0, <1>1, <4>3, <5>1, WriterFrame, MapAssumption
               DEF EntryLine, Entry
          <6> QED
            BY <1>0, <3>1, <4>2, <6>1 DEF Covers
        <5>2. CASE items[k] = None /\ TimedKey(k)
          BY <1>0, <3>1, <5>2 DEF Covers
        <5> QED
          BY <1>0, <4>3, <5>1, <5>2 DEF RwInv, OwnEntries, Writing
      <4>4. CASE frame[t].req.op = "del"
        <5>1. items[k] = None
          BY <1>0, <4>4 DEF RwInv, OwnEntries, Writing
        <5> QED
          BY <1>0, <3>1, <4>2, <4>4, <5>1 DEF Covers
      <4> QED
        BY <1>1, <4>3, <4>4
    <3>2. CASE j # k
      <4>1. InFlight(j)' <=> InFlight(j)
        BY <1>0, <3>2, FlightKept
      <4>2. ~Names(ln, j)
        BY <1>2, <3>2 DEF Names
      <4>3. Scanned(j)' <=> Scanned(j)
        BY <1>11 DEF Scanned
      <4>4. EntryLine(j)' = EntryLine(j)
        BY <1>0 DEF EntryLine
      <4>5. /\ \A x : Said(NewPart, RestPart, j, x) =>
                        Said(NewPart', RestPart', j, x)
            /\ Unsaid(NewPart, RestPart, j) => Unsaid(NewPart', RestPart', j)
        BY <1>0, <1>4, <1>11, <4>2, SaidStays
      <4> QED
        BY <1>0, <1>11, <4>1, <4>3, <4>4, <4>5 DEF RwInv, Covers
    <3> QED
      BY <3>1, <3>2
  <2> QED
    BY <1>6, <1>7, <2>2, <2>3 DEF RwInv
<1> QED
  BY <1>5, <1>9, <1>10, <1>11

LEMMA ExpireRw ==
    ASSUME TypeOK, TypeOK', FramesOK, RwInv, Expire
    PROVE  RwInv'
<1> DEFINE k == tmItem[1]
<1>0. /\ UNCHANGED <<now, aofTmp, incrBuf, rw, rewriting, heap, tmItem>>
      /\ \A u \in Thread : Same(u)
      /\ tmPc = "expire" /\ tmPc' = "account" /\ k \in Key
      /\ items'[k] = None
      /\ \A j \in Key : j # k => items'[j] = items[j]
  BY ExpireStep DEF aofVars
<1>1. TimedKey(k)
  BY <1>0 DEF RwInv, TimedOnly
<1>2. UNCHANGED <<NewPart, RestPart>>
  BY <1>0 DEF NewPart, RestPart, Unflushed
<1>3. TimedOnly' /\ NewParts'
  BY <1>0, <1>2 DEF RwInv, TimedOnly, InHeap, NewParts, Scanned
<1>4. OwnEntries'
  <2>1. ASSUME NEW u \in Thread, pc[u] \in Writing
        PROVE  frame[u].req.key \in Key
    BY <2>1, WriterFrame DEF Writing
  <2> QED
    BY <1>0, <1>1, <2>1 DEF RwInv, OwnEntries, Same
<1>5. ASSUME rw.pc # "off", NEW j \in Key PROVE InFlight(j)' \/ Covers(j)'
  <2>1. InFlight(j)' <=> InFlight(j)
    BY <1>0, FlightKept
  <2>2. CASE j = k
    BY <1>0, <1>1, <2>2 DEF Covers
  <2>3. CASE j # k
    BY <1>0, <1>2, <1>5, <2>1, <2>3 DEF RwInv, Covers, Scanned, EntryLine
  <2> QED
    BY <2>2, <2>3
<1> QED
  BY <1>0, <1>3, <1>4, <1>5 DEF RwInv

LEMMA TickRw ==
    ASSUME TypeOK, TypeOK', FramesOK, RwInv, Tick
    PROVE  RwInv'
<1>0. /\ UNCHANGED <<items, heap, tmPc, tmItem, aofTmp, incrBuf, rw, rewriting>>
      /\ \A u \in Thread : Same(u)
      /\ now' = now + 1
  BY AsideStep DEF ttlVars, aofVars, Tick
<1>1. UNCHANGED <<NewPart, RestPart>>
  BY <1>0 DEF NewPart, RestPart, Unflushed
<1>2. now \in Int /\ now' \in Int /\ now <= now' /\ rw.at \in Int
  BY <1>0, TypeParts, PartsType, MapAssumption DEF MapTypeOK, RwInv
<1>3. TimedOnly' /\ OwnEntries' /\ NewParts'
  BY <1>0, <1>1, <1>2 DEF RwInv, TimedOnly, InHeap, OwnEntries, Same,
     NewParts, Scanned
<1>4. ASSUME rw.pc # "off", NEW k \in Key PROVE InFlight(k)' \/ Covers(k)'
  <2>1. InFlight(k)' <=> InFlight(k)
    BY <1>0, FlightKept
  <2>2. items[k] # None => items[k] \in Entry
    BY TypeParts DEF MapTypeOK, Slot
  <2>3. items[k] # None /\ ~Lapsed(items[k], now') => ~Lapsed(items[k], now)
    BY <1>2, <2>2, LapsedStays
  <2> QED
    BY <1>0, <1>1, <1>4, <2>1, <2>3 DEF RwInv, Covers, Scanned, EntryLine
<1> QED
  BY <1>0, <1>3, <1>4 DEF RwInv

\* A SET or a DEL can be read back, if no key contains a tab.
LEMMA LineClean ==
    ASSUME TabKey = {}, NEW ln, ln.op \in {"SET", "DEL"}
    PROVE  Parses(ln)
BY DEF Parses

\* What a step of the rewriter leaves alone.
LEMMA RwAside ==
    ASSUME FramesOK, RwInv, Rewriter
    PROVE  /\ TimedOnly' /\ OwnEntries'
           /\ UNCHANGED <<items, now>>
           /\ \A k \in Key : /\ InFlight(k)' <=> InFlight(k)
                             /\ EntryLine(k)' = EntryLine(k)
<1>0. /\ UNCHANGED <<items, heap, tmPc, tmItem, now>>
      /\ \A u \in Thread : Same(u)
  BY AsideStep DEF ttlVars, Rewriter
<1>1. TimedOnly' /\ OwnEntries'
  BY <1>0 DEF RwInv, TimedOnly, InHeap, OwnEntries, Same
<1>2. \A k \in Key : InFlight(k)' <=> InFlight(k)
  BY <1>0, FlightKept
<1> QED
  BY <1>0, <1>1, <1>2 DEF EntryLine

\* The parts stay what they were: nothing is to be shown.
LEMMA PartsKept ==
    ASSUME FramesOK, RwInv, Rewriter, UNCHANGED <<NewPart, RestPart>>,
           rw.pc # "off", \A k \in Key : Scanned(k)' <=> Scanned(k)
    PROVE  \A k \in Key : InFlight(k)' \/ Covers(k)'
<1>1. SUFFICES ASSUME NEW k \in Key PROVE InFlight(k)' \/ Covers(k)'
  OBVIOUS
<1>2. /\ UNCHANGED <<items, now>>
      /\ InFlight(k)' <=> InFlight(k)
      /\ EntryLine(k)' = EntryLine(k)
  BY RwAside
<1>3. InFlight(k) \/ Covers(k)
  BY DEF RwInv
<1> QED
  BY <1>2, <1>3 DEF Covers

LEMMA OpenRw ==
    ASSUME TypeOK, TypeOK', FramesOK, RwInv, Rewriter, RwOpen
    PROVE  RwInv'
<1>1. /\ aofTmp' = EmptyFile /\ rw'.pc = "scan" /\ rw'.at = now
      /\ rw'.shard = rw.shard /\ rw.pc = "open"
      /\ UNCHANGED <<rewriting, incrBuf>>
  BY TypeParts DEF RwOpen, AofTypeOK
<1>2. NewPart' = <<>> /\ NewPart = <<>> /\ RestPart' = RestPart
  BY <1>1 DEF NewPart, RestPart, EmptyFile
<1>3. \A k \in Key : ~Scanned(k)' /\ ~Scanned(k)
  <2>1. rw.shard = 1 /\ \A k \in Key : ShardOf[k] \in Nat /\ ShardOf[k] >= 1
    BY <1>1, MapAssumption DEF RwInv, NewParts, Shard
  <2> QED
    BY <1>1, <2>1 DEF Scanned
<1>4. NewParts'
  <2>1. now \in Int /\ UNCHANGED now
    BY RwAside, TypeParts, MapAssumption DEF MapTypeOK
  <2> QED
    BY <1>1, <1>2, <1>3, <2>1 DEF RwInv, NewParts
<1>5. \A k \in Key : InFlight(k)' \/ Covers(k)'
  BY <1>1, <1>2, <1>3, PartsKept
<1> QED
  BY <1>4, <1>5, RwAside DEF RwInv

LEMMA ScanRw ==
    ASSUME TypeOK, TypeOK', FramesOK, TabKey = {}, RwInv, Rewriter, RwScan
    PROVE  RwInv'
<1> DEFINE keys == ShardKeys(rw.shard, rw.at)
<1>1. PICK order \in Injection(1 .. Cardinality(keys), keys) :
        aofTmp' = [aofTmp EXCEPT !.lines =
                     @ \o [i \in DOMAIN order |-> EntryLine(order[i])]]
  BY DEF RwScan
<1> DEFINE s == [i \in DOMAIN order |-> EntryLine(order[i])]
<1>2. keys \subseteq Key /\ \A k \in keys : items[k] \in Entry
  BY TypeParts DEF MapTypeOK, Slot, ShardKeys
<1>3. /\ s \in Seq(Line)
      /\ \A i \in 1 .. Len(s) : \E k \in keys : s[i] = EntryLine(k)
      /\ \A k \in keys : LastIs(s, k, EntryLine(k))
      /\ \A k : k \notin keys => Silent(s, k)
  BY <1>2, ScanSays
<1>4. /\ rw.pc = "scan" /\ rw'.pc \in {"scan", "copy"} /\ rw'.at = rw.at
      /\ rw'.pc = "scan" => rw.shard # ShardCount /\ rw'.shard = rw.shard + 1
      /\ rw'.pc = "copy" => rw.shard = ShardCount
      /\ UNCHANGED <<rewriting, incrBuf>>
      /\ rw.shard \in Shard /\ rw.at \in Time /\ aofTmp \in File
  <2>1. rw.shard \in Shard /\ rw.at \in Time
    BY PartsType DEF RwInv
  <2>2. aofTmp \in File
    BY PartsType DEF RwInv, RwScan
  <2> QED
    BY <2>1, <2>2, TypeParts DEF RwScan, AofTypeOK
<1>5. NewPart = aofTmp.lines /\ NewPart \in Seq(Line)
  BY <1>4, PartsType DEF NewPart, RwInv
<1> HIDE DEF s, keys
<1>6. NewPart' = NewPart \o s /\ RestPart' = RestPart /\ RestPart = incrBuf
  BY <1>1, <1>4, <1>5 DEF s, NewPart, RestPart, File
<1>7. \A k \in Key : Scanned(k)' <=> Scanned(k) \/ ShardOf[k] = rw.shard
  <2>1. /\ ShardCount \in Nat /\ rw.shard \in Nat
        /\ rw.shard <= ShardCount
    BY <1>4, MapAssumption DEF Shard
  <2>2. \A k \in Key : ShardOf[k] \in Nat /\ ShardOf[k] <= ShardCount
    BY <2>1, MapAssumption DEF Shard
  <2>3. CASE rw'.pc = "scan"
    BY <1>4, <2>1, <2>2, <2>3 DEF Scanned
  <2>4. CASE rw'.pc = "copy"
    BY <1>4, <2>1, <2>2, <2>4 DEF Scanned
  <2> QED
    BY <1>4, <2>3, <2>4
<1>8. \A k \in keys : ShardOf[k] = rw.shard /\ ~Scanned(k)
  BY <1>4, MapAssumption DEF keys, ShardKeys, Scanned, Shard
<1>9. NewParts'
  <2>1. Clean(s) /\ OnlyTimed(s)
    <3>1. \A k \in keys : /\ EntryLine(k).op = "SET" /\ EntryLine(k).key = k
                          /\ EntryLine(k).exp = items[k].exp
      BY <1>2, LinesName DEF EntryLine
    <3>2. Clean(s)
      BY <1>3, <3>1, LineClean DEF Clean
    <3>3. \A k \in keys : TimedKey(k) => items[k].exp > 0
      BY <1>2, MapAssumption DEF RwInv, TimedOnly, keys, ShardKeys
    <3>4. OnlyTimed(s)
      BY <1>3, <3>1, <3>3 DEF OnlyTimed
    <3> QED
      BY <3>2, <3>4
  <2>2. Clean(NewPart') /\ OnlyTimed(NewPart')
    BY <1>3, <1>5, <1>6, <2>1, ConcatAll DEF RwInv, NewParts
  <2>3. ASSUME NEW k \in Key, ~Scanned(k)' PROVE Silent(NewPart', k)
    <3>1. ~Scanned(k) /\ k \notin keys
      BY <1>7, <1>8, <2>3
    <3>2. Silent(NewPart, k) /\ Silent(s, k)
      BY <1>3, <3>1 DEF RwInv, NewParts
    <3> QED
      BY <1>3, <1>5, <1>6, <3>2, ConcatSays DEF Unsaid
  <2>4. UNCHANGED now
    BY RwAside
  <2> QED
    BY <1>4, <2>2, <2>3, <2>4 DEF RwInv, NewParts
<1>10. ASSUME NEW k \in Key PROVE InFlight(k)' \/ Covers(k)'
  <2>1. /\ UNCHANGED <<items, now>>
        /\ InFlight(k)' <=> InFlight(k)
        /\ EntryLine(k)' = EntryLine(k)
    BY RwAside
  <2>2. SUFFICES ASSUME Covers(k) PROVE Covers(k)'
    BY <1>4, <2>1 DEF RwInv
  <2>3. /\ \A ln : Said(NewPart, s, k, ln) => LastIs(NewPart', k, ln)
        /\ Silent(NewPart', k) <=> Silent(NewPart, k) /\ Silent(s, k)
    BY <1>3, <1>5, <1>6, ConcatSays DEF Unsaid
  <2>4. CASE k \in keys
    <3>1. LastIs(NewPart', k, EntryLine(k))
      BY <1>3, <2>3, <2>4 DEF Said
    <3>2. items[k] # None
      BY <1>2, <2>4, MapAssumption
    <3>3. ~Scanned(k)
      BY <1>8, <2>4
    <3>4. Silent(NewPart, k)
      BY <3>3 DEF RwInv, NewParts
    <3>5. ~Lapsed(items[k], now) => Said(NewPart', RestPart', k, EntryLine(k))
      BY <1>6, <2>2, <3>1, <3>2, <3>4 DEF Covers, Said, Unsaid
    <3> QED
      BY <2>1, <3>2, <3>5 DEF Covers
  <2>5. CASE k \notin keys
    <3>1. Silent(s, k)
      BY <1>3, <2>5
    <3>2. /\ \A ln : Said(NewPart, RestPart, k, ln) =>
                        Said(NewPart', RestPart', k, ln)
          /\ Unsaid(NewPart, RestPart, k) => Unsaid(NewPart', RestPart', k)
      BY <1>6, <2>3, <3>1 DEF Said, Unsaid
    <3>3. items[k] # None /\ ~Lapsed(items[k], now) =>
              (Scanned(k)' <=> Scanned(k))
      <4>1. SUFFICES ASSUME items[k] # None, ~Lapsed(items[k], now)
                     PROVE  ShardOf[k] # rw.shard
        BY <1>7
      <4>2. items[k] \in Entry
        BY <4>1, TypeParts DEF MapTypeOK, Slot
      <4>3. rw.at \in Int /\ now \in Int /\ rw.at <= now
        BY <1>4, TypeParts, MapAssumption DEF MapTypeOK, RwInv, NewParts
      <4>4. ~Lapsed(items[k], rw.at)
        BY <4>1, <4>2, <4>3, LapsedStays
      <4> QED
        BY <2>5, <4>1, <4>4 DEF keys, ShardKeys
    <3> QED
      BY <2>1, <2>2, <3>2, <3>3 DEF Covers
  <2> QED
    BY <2>4, <2>5
<1> QED
  BY <1>9, <1>10, RwAside DEF RwInv

LEMMA CopyRw ==
    ASSUME TypeOK, TypeOK', FramesOK, RwInv, Rewriter, RwCopy
    PROVE  RwInv'
<1>1. /\ rw.pc = "copy" /\ rw'.pc = "flush" /\ rw'.buf = incrBuf
      /\ rw'.at = rw.at /\ UNCHANGED <<rewriting, incrBuf, aofTmp>>
  BY TypeParts DEF RwCopy, AofTypeOK
<1>2. UNCHANGED <<NewPart, RestPart>>
  BY <1>1 DEF NewPart, RestPart
<1>3. \A k \in Key : Scanned(k)' <=> Scanned(k)
  BY <1>1 DEF Scanned
<1>4. NewParts'
  <2>1. incrBuf \in Seq(Line)
    BY PartsType DEF RwInv
  <2>2. Len(incrBuf) <= Len(incrBuf) /\ incrBuf = SubSeq(incrBuf, 1, Len(incrBuf))
    BY <2>1, SubSeqFull
  <2>3. UNCHANGED now
    BY RwAside
  <2> QED
    BY <1>1, <1>2, <1>3, <2>2, <2>3 DEF RwInv, NewParts
<1>5. \A k \in Key : InFlight(k)' \/ Covers(k)'
  BY <1>1, <1>2, <1>3, PartsKept
<1> QED
  BY <1>4, <1>5, RwAside DEF RwInv

LEMMA FlushRw ==
    ASSUME TypeOK, TypeOK', FramesOK, RwInv, Rewriter, RwFlush
    PROVE  RwInv'
<1>1. /\ rw.pc = "flush" /\ rw'.pc = "swap" /\ rw'.buf = rw.buf
      /\ rw'.at = rw.at /\ UNCHANGED <<rewriting, incrBuf>>
      /\ aofTmp'.lines = aofTmp.lines \o rw.buf
  BY TypeParts DEF RwFlush, AofTypeOK
<1>2. /\ incrBuf \in Seq(Line) /\ rw.buf \in Seq(Line)
      /\ NewPart \in Seq(Line) /\ Len(rw.buf) \in 0 .. Len(incrBuf)
      /\ rw.buf = SubSeq(incrBuf, 1, Len(rw.buf))
  BY <1>1, PartsType DEF RwInv, NewParts
<1> DEFINE q == SubSeq(incrBuf, Len(rw.buf) + 1, Len(incrBuf))
<1>3. q \in Seq(Line) /\ incrBuf = rw.buf \o q
  BY <1>2, Divided
<1>4. NewPart' = NewPart \o rw.buf /\ RestPart = incrBuf /\ RestPart' = q
  BY <1>1 DEF NewPart, RestPart, Unflushed
<1> HIDE DEF q
<1>5. \A k \in Key : Scanned(k)' /\ Scanned(k)
  BY <1>1 DEF Scanned
<1>6. NewParts'
  <2>1. Clean(rw.buf) /\ OnlyTimed(rw.buf)
    BY <1>2, <1>3, ConcatAll DEF RwInv, NewParts
  <2>2. Clean(NewPart') /\ OnlyTimed(NewPart')
    BY <1>2, <1>4, <2>1, ConcatAll DEF RwInv, NewParts
  <2>3. UNCHANGED now
    BY RwAside
  <2> QED
    BY <1>1, <1>5, <2>2, <2>3 DEF RwInv, NewParts
<1>7. ASSUME NEW k \in Key PROVE InFlight(k)' \/ Covers(k)'
  <2>1. /\ UNCHANGED <<items, now>>
        /\ InFlight(k)' <=> InFlight(k)
        /\ EntryLine(k)' = EntryLine(k)
    BY RwAside
  <2>2. /\ Unsaid(NewPart, RestPart, k) => Unsaid(NewPart', RestPart', k)
        /\ \A ln : Said(NewPart, RestPart, k, ln) =>
                        Said(NewPart', RestPart', k, ln)
    <3>1. /\ Silent(incrBuf, k) <=> Unsaid(rw.buf, q, k)
          /\ \A ln : LastIs(incrBuf, k, ln) => Said(rw.buf, q, k, ln)
      BY <1>2, <1>3, ConcatSays
    <3>2. /\ Silent(NewPart', k) <=> Unsaid(NewPart, rw.buf, k)
          /\ \A ln : Said(NewPart, rw.buf, k, ln) => LastIs(NewPart', k, ln)
      BY <1>2, <1>4, ConcatSays
    <3> QED
      BY <1>4, <3>1, <3>2 DEF Said, Unsaid
  <2> QED
    BY <1>1, <1>5, <2>1, <2>2 DEF RwInv, Covers
<1> QED
  BY <1>6, <1>7, RwAside DEF RwInv

LEMMA SwapRw ==
    ASSUME TypeOK, TypeOK', FramesOK, RwInv, Rewriter, RwRemove \/ RwRename
    PROVE  RwInv'
<1>0. UNCHANGED now
  BY RwAside
<1>1. CASE RwRemove
  <2>1. /\ rw.pc = "swap" /\ rw'.pc = "renaming" /\ rw'.buf = rw.buf
        /\ rw'.at = rw.at /\ UNCHANGED <<rewriting, incrBuf, aofTmp>>
    BY <1>1, TypeParts DEF RwRemove, AofTypeOK
  <2>2. UNCHANGED <<NewPart, RestPart>>
    BY <2>1 DEF NewPart, RestPart, Unflushed
  <2>3. \A k \in Key : Scanned(k)' <=> Scanned(k)
    BY <2>1 DEF Scanned
  <2>4. NewParts'
    BY <1>0, <2>1, <2>2, <2>3 DEF RwInv, NewParts
  <2>5. \A k \in Key : InFlight(k)' \/ Covers(k)'
    BY <2>1, <2>2, <2>3, PartsKept
  <2> QED
    BY <2>4, <2>5, RwAside DEF RwInv
<1>2. CASE RwRename
  <2>1. rw'.pc = "off" /\ rw'.at = 0 /\ ~rewriting' /\ incrBuf' = <<>>
    BY <1>2 DEF RwRename, RwFail, RwIdle
  <2>2. NewPart' = <<>>
    BY <2>1 DEF NewPart
  <2>3. Clean(<<>>) /\ OnlyTimed(<<>>) /\ \A k : Silent(<<>>, k)
    BY DEF Clean, OnlyTimed, Silent
  <2>4. 0 <= now
    BY TypeParts, MapAssumption DEF MapTypeOK
  <2>5. NewParts'
    BY <1>0, <2>1, <2>2, <2>3, <2>4 DEF NewParts
  <2> QED
    BY <2>1, <2>5, RwAside DEF RwInv
<1> QED
  BY <1>1, <1>2

\* The parts together are what a replay of the new file would find.
LEMMA PartsRestore ==
    ASSUME TypeOK, RwInv, rw.pc \in {"swap", "renaming"}
    PROVE  Restores(aofTmp.lines \o Unflushed)
<1> DEFINE p == aofTmp.lines
           q == Unflushed
           a == p \o q
<1>1. /\ p \in Seq(Line) /\ q \in Seq(Line) /\ NewPart = p /\ RestPart = q
      /\ rw.pc # "off"
  BY PartsType DEF RwInv, NewPart, RestPart
<1>2. Clean(q) /\ OnlyTimed(q)
  <2>1. /\ incrBuf \in Seq(Line) /\ Len(rw.buf) \in 0 .. Len(incrBuf)
    BY PartsType DEF RwInv
  <2> DEFINE b == SubSeq(incrBuf, 1, Len(rw.buf))
  <2>2. b \in Seq(Line) /\ incrBuf = b \o q
    BY <2>1, Divided DEF Unflushed
  <2>3. Clean(incrBuf) /\ OnlyTimed(incrBuf)
    BY DEF RwInv, NewParts
  <2> HIDE DEF b, q
  <2> QED
    BY <1>1, <2>2, <2>3, ConcatAll
<1>3. Clean(p) /\ OnlyTimed(p)
  BY <1>1 DEF RwInv, NewParts
<1> HIDE DEF p, q
<1>4. a \in Seq(Line) /\ Clean(a) /\ OnlyTimed(a)
  BY <1>1, <1>2, <1>3, ConcatIs, ConcatAll
<1>5. ASSUME NEW k \in Key, ~InFlight(k)
      PROVE  /\ items[k] # None /\ ~Lapsed(items[k], now) =>
                    Recovered(a, now)[k] = items[k]
             /\ items[k] = None /\ NeverTimed(k, a) =>
                    Recovered(a, now)[k] = None
  <2>1. Scanned(k)
    BY DEF Scanned
  <2>2. Covers(k)
    BY <1>1, <1>5 DEF RwInv
  <2>3. /\ Silent(a, k) <=> Unsaid(p, q, k)
        /\ \A ln : Said(p, q, k, ln) => LastIs(a, k, ln)
    BY <1>1, ConcatSays
  <2>4. ASSUME items[k] # None, ~Lapsed(items[k], now)
        PROVE  Recovered(a, now)[k] = items[k]
    <3>1. items[k] \in Entry
      BY <2>4, TypeParts DEF MapTypeOK, Slot
    <3>2. LastIs(a, k, SetLine(k, items[k].val, items[k].exp))
      BY <1>1, <2>1, <2>2, <2>3, <2>4 DEF Covers, EntryLine
    <3>3. Brings(a, k, items[k], now)
      BY <1>4, <3>2, LastBrings
    <3> QED
      BY <1>4, <2>4, <3>1, <3>3, BroughtBack
  <2>5. ASSUME items[k] = None, NeverTimed(k, a)
        PROVE  Recovered(a, now)[k] = None
    <3>1. CASE TimedKey(k)
      <4>1. ASSUME NEW i \in 1 .. Len(a), Names(a[i], k)
            PROVE  a[i] = DelLine(k)
        <5>1. a[i] \in Line /\ a[i].key = k /\ a[i].op # "BROKEN"
          BY <1>4, <4>1 DEF Names
        <5>2. a[i].op # "SET"
          BY <1>4, <2>5, <3>1, <4>1, <5>1 DEF NeverTimed, OnlyTimed
        <5> QED
          BY <5>1, <5>2, LineIs
      <4>2. Buried(a, k)
        BY <1>4, <4>1, CleanIsGood DEF Buried
      <4> QED
        BY <1>4, <4>2, NotBroughtBack
    <3>2. CASE ~TimedKey(k)
      <4>1. LastIs(a, k, DelLine(k)) \/ Silent(a, k)
        BY <1>1, <2>2, <2>3, <2>5, <3>2 DEF Covers
      <4>2. Buried(a, k)
        BY <1>4, <4>1, LastBuries
      <4> QED
        BY <1>4, <4>2, NotBroughtBack
    <3> QED
      BY <3>1, <3>2
  <2> QED
    BY <2>4, <2>5
<1>6. Restores(a)
  BY <1>5 DEF Restores
<1> QED
  BY <1>6 DEF p, q

LEMMA NothingRewritten ==
    ASSUME Init
    PROVE  FramesOK /\ RwInv
<1>1. /\ items = [k \in Key |-> None] /\ now = 0
      /\ rw = RwIdle /\ rewriting = FALSE /\ heap = [i \in Item |-> 0]
      /\ tmPc = "loop" /\ pc = [p \in Worker |-> "idle"]
      /\ frame = [u \in Thread |-> None] /\ incrBuf = <<>>
  BY DEF Init, MapInit, AofFresh, TtlInit, SvcFresh
<1>2. FramesOK
  BY <1>1 DEF FramesOK, FrameOK
<1>3. TimedOnly /\ OwnEntries
  BY <1>1 DEF TimedOnly, OwnEntries, InHeap, Writing
<1>4. NewParts
  <2>1. rw.pc = "off" /\ rw.at = 0 /\ NewPart = <<>>
    BY <1>1 DEF RwIdle, NewPart
  <2>2. Clean(<<>>) /\ OnlyTimed(<<>>) /\ \A k : Silent(<<>>, k)
    BY DEF Clean, OnlyTimed, Silent
  <2> QED
    BY <1>1, <2>1, <2>2 DEF NewParts
<1> QED
  BY <1>1, <1>2, <1>3, <1>4 DEF RwInv, RwIdle

LEMMA RwNext ==
    ASSUME AofEnabled, ~IoFaults, TabKey = {}, OneWriter, Uniform,
           TypeOK, TypeOK', FramesOK, RwInv, [Next]_vars
    PROVE  FramesOK' /\ RwInv'
<1>1. CASE Calm
  BY <1>1, CalmRw, StepKinds
<1>2. ASSUME NEW t \in Thread, Store(t) \/ Remove(t)
      PROVE  RwInv'
  BY <1>2, WriteRw
<1>3. ASSUME NEW t \in Thread, LogLine(t)
      PROVE  RwInv'
  BY <1>3, LineRw
<1>4. CASE Expire
  BY <1>4, ExpireRw, StepKinds
<1>5. CASE Rewriter
  BY <1>5, OpenRw, ScanRw, CopyRw, FlushRw, SwapRw, StepKinds
     DEF Rewriter, RwStep, RwFault, RwRenameFails
<1>6. CASE Tick
  BY <1>6, TickRw, StepKinds
<1> QED
  BY <1>1, <1>2, <1>3, <1>4, <1>5, <1>6, StepKinds

\* persistence.go:116-152: what the rewrite scans shard by shard, while the
\* handlers go on writing, together with the lines they buffer meanwhile is
\* everything the store holds, at whatever point a handler, the expiry
\* goroutine or the clock comes in between -- if each key has one writer, who
\* sets it with a TTL always or never, its lines can be parsed and the disk
\* works.
THEOREM RewriteCovers ==
    ASSUME AofEnabled, ~IoFaults, TabKey = {}, OneWriter, Uniform
    PROVE  Spec => []NewFileCovers
<1> DEFINE I == TypeOK /\ FramesOK /\ RwInv
<1>1. Init => I
  BY InitType, NothingRewritten
<1>2. I /\ [Next]_vars => I'
  BY NextType, RwNext
<1>3. I => NewFileCovers
  BY PartsRestore DEF NewFileCovers
<1> QED
  BY <1>1, <1>2, <1>3, PTL DEF Spec
=============================================================================
