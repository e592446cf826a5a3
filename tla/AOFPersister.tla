---------------------------- MODULE AOFPersister ----------------------------
(***************************************************************************)
(* The append-only file of internal/storage/persistence.go.                *)
(*                                                                         *)
(* A file is the sequence of its lines.  The mutex p.mu makes appendLine   *)
(* one step; rewrite() runs in a goroutine of its own and is one step      *)
(* between any two points where another goroutine, or a crash, can see     *)
(* what it did.  It holds p.mu over the swap (RwRemove, RwRename), so      *)
(* appendLine, Sync and Close wait while the rewriter is at "renaming".    *)
(*                                                                         *)
(* A line is parsed back by splitting it at tabs.  A key that contains a   *)
(* tab gives a line with too many fields: such keys are TabKey, and their  *)
(* lines, like Broken ones, do not parse.  "cut" says that the file does   *)
(* not end in a newline (a write that was cut short); the next append      *)
(* continues that last line, and the two together do not parse.            *)
(***************************************************************************)
EXTENDS ConcurrentMap

CONSTANTS
    TabKey,            \* the keys that contain a tab
    RewriteThreshold   \* rewrite_threshold, in lines; 0 disables Rewrite

SetLine(k, v, x) == [op |-> "SET", key |-> k, val |-> v, exp |-> x]
DelLine(k)       == [op |-> "DEL", key |-> k]
Broken           == [op |-> "BROKEN"]

Line == [op : {"SET"}, key : Key, val : Value, exp : Expiry]
            \cup [op : {"DEL"}, key : Key]
            \cup {Broken}

File == [lines : Seq(Line), cut : BOOLEAN, synced : Nat]

ASSUME AofAssumption ==
    /\ TabKey \subseteq Key
    /\ RewriteThreshold \in Nat
    /\ None \notin File

EmptyFile == [lines |-> <<>>, cut |-> FALSE, synced |-> 0]

VARIABLES
    aof,        \* the file at p.path, None when there is none
    aofTmp,     \* the file at p.path.rewrite.tmp, None when there is none
    aofOpen,    \* p.file # nil
    rewriting,  \* p.rewriting
    incrBuf,    \* p.incrBuf
    rw          \* the rewrite goroutine: pc, next shard, its clock, buf

aofVars == <<aof, aofTmp, aofOpen, rewriting, incrBuf, rw>>

RwIdle == [pc |-> "off", shard |-> 1, at |-> 0, buf |-> <<>>]

-----------------------------------------------------------------------------
(* appendLine *)

\* What a write adds to the file: a file that ends in a cut line has that
\* line and the new one fused into a line that does not parse.
Fused(lines) == [lines EXCEPT ![Len(lines)] = Broken]

Extend(f, ln) ==
    IF f.cut
    THEN [f EXCEPT !.lines = Fused(@), !.cut = FALSE]
    ELSE [f EXCEPT !.lines = Append(@, ln)]

\* Mutant: O_CREATE is missing.
OpenedExisting(f) == f

\* O_CREATE: an append that finds p.file = nil creates a missing file.
Opened(f) == IF f = None THEN EmptyFile ELSE f

\* maybeTriggerRewriteLocked, on the file just written (if its Stat succeeds).
RewriteDue(f) ==
    /\ RewriteThreshold > 0
    /\ ~rewriting
    /\ Len(f.lines) >= RewriteThreshold

AppendLine(ln) ==
    /\ rw.pc # "renaming"
    /\ aof' = Extend(Opened(aof), ln)
    /\ aofOpen' = TRUE
    /\ \/ /\ RewriteDue(aof')
          /\ rewriting' = TRUE
          /\ incrBuf' = <<>>
          /\ rw' = [RwIdle EXCEPT !.pc = "open"]
       \/ /\ ~RewriteDue(aof') \/ IoFaults
          /\ incrBuf' = IF rewriting THEN Append(incrBuf, ln) ELSE incrBuf
          /\ UNCHANGED <<rewriting, rw>>
    /\ UNCHANGED aofTmp

\* The open fails, the write fails, or the write is cut short: the caller
\* gets the error, the line is not buffered and no rewrite is triggered.
AppendFails(ln) ==
    /\ IoFaults
    /\ rw.pc # "renaming"
    /\ \/ UNCHANGED <<aof, aofOpen>>
       \/ /\ aof' \in {Opened(aof),
                       [Extend(Opened(aof), Broken) EXCEPT !.cut = TRUE]}
          /\ aofOpen' = TRUE
    /\ UNCHANGED <<aofTmp, rewriting, incrBuf, rw>>

-----------------------------------------------------------------------------
(* rewrite() *)

\* Mutant: p.mu is not released.
RwFailLocked ==
    /\ rewriting' = FALSE
    /\ incrBuf' = <<>>
    /\ rw' = [RwIdle EXCEPT !.pc = "renaming"]

\* finishRewriteWithError: the temporary file stays behind.
RwFail ==
    /\ rewriting' = FALSE
    /\ incrBuf' = <<>>
    /\ rw' = RwIdle

RwFault(pc) ==
    /\ IoFaults
    /\ rw.pc = pc
    /\ RwFail
    /\ UNCHANGED <<aof, aofTmp, aofOpen>>

\* The temporary file is created or truncated, and the clock is read once.
RwOpen ==
    /\ rw.pc = "open"
    /\ aofTmp' = EmptyFile
    /\ rw' = [rw EXCEPT !.pc = "scan", !.at = now]
    /\ UNCHANGED <<aof, aofOpen, rewriting, incrBuf>>

EntryLine(k) == SetLine(k, items[k].val, items[k].exp)

\* One shard of Iterate, in the arbitrary order of a Go map.
RwScan ==
    /\ rw.pc = "scan"
    /\ LET keys == ShardKeys(rw.shard, rw.at)
       IN  \E order \in Injection(1 .. Cardinality(keys), keys) :
             aofTmp' = [aofTmp EXCEPT !.lines =
                          @ \o [i \in DOMAIN order |-> EntryLine(order[i])]]
    /\ rw' = IF rw.shard = ShardCount
             THEN [rw EXCEPT !.pc = "copy"]
             ELSE [rw EXCEPT !.shard = @ + 1]
    /\ UNCHANGED <<aof, aofOpen, rewriting, incrBuf>>

\* The buffer is copied under p.mu, which is then released.
RwCopy ==
    /\ rw.pc = "copy"
    /\ rw' = [rw EXCEPT !.pc = "flush", !.buf = incrBuf]
    /\ UNCHANGED <<aof, aofTmp, aofOpen, rewriting, incrBuf>>

\* Mutant: the copy is written before what was scanned.
RwFlushFirst ==
    /\ rw.pc = "flush"
    /\ aofTmp' = LET all == rw.buf \o aofTmp.lines
                 IN  [lines |-> all, cut |-> FALSE, synced |-> Len(all)]
    /\ rw' = [rw EXCEPT !.pc = "swap"]
    /\ UNCHANGED <<aof, aofOpen, rewriting, incrBuf>>

\* The copy is written to the temporary file, which is synced and closed.
RwFlush ==
    /\ rw.pc = "flush"
    /\ aofTmp' = LET all == aofTmp.lines \o rw.buf
                 IN  [lines |-> all, cut |-> FALSE, synced |-> Len(all)]
    /\ rw' = [rw EXCEPT !.pc = "swap"]
    /\ UNCHANGED <<aof, aofOpen, rewriting, incrBuf>>

\* Mutant: p.file is closed but not cleared.
RwRemoveStale ==
    /\ rw.pc = "swap"
    /\ aof' = None
    /\ rw' = [rw EXCEPT !.pc = "renaming"]
    /\ UNCHANGED <<aofTmp, aofOpen, rewriting, incrBuf>>

\* p.mu is taken, the old file closed and removed, no error being looked at.
RwRemove ==
    /\ rw.pc = "swap"
    /\ aof' = None \/ (IoFaults /\ UNCHANGED aof)
    /\ aofOpen' = FALSE
    /\ rw' = [rw EXCEPT !.pc = "renaming"]
    /\ UNCHANGED <<aofTmp, rewriting, incrBuf>>

\* The temporary file takes the path and is reopened, the error of the open
\* being ignored; p.mu is released.
RwRename ==
    /\ rw.pc = "renaming"
    /\ aof' = aofTmp
    /\ aofTmp' = None
    /\ aofOpen' \in {TRUE, ~IoFaults}
    /\ RwFail

\* The rename fails: the path stays as it is, no file is open, the buffer kept.
RwRenameFails ==
    /\ IoFaults
    /\ rw.pc = "renaming"
    /\ rewriting' = FALSE
    /\ rw' = RwIdle
    /\ UNCHANGED <<aof, aofTmp, aofOpen, incrBuf>>

RwStep ==
    \/ RwOpen \/ RwScan \/ RwCopy \/ RwFlush
    \/ RwRemove \/ RwRename \/ RwRenameFails
    \/ \E pc \in {"open", "scan", "flush"} : RwFault(pc)

-----------------------------------------------------------------------------
(* Sync, Close and OpenForAppend *)

AofSync ==
    /\ rw.pc # "renaming"
    /\ \/ aofOpen /\ aof' = [aof EXCEPT !.synced = Len(aof.lines)]
       \/ (~aofOpen \/ IoFaults) /\ UNCHANGED aof
    /\ UNCHANGED <<aofTmp, aofOpen, rewriting, incrBuf, rw>>

AofClose ==
    /\ rw.pc # "renaming"
    /\ aofOpen' = FALSE
    /\ UNCHANGED <<aof, aofTmp, rewriting, incrBuf, rw>>

-----------------------------------------------------------------------------
(* Replay, as one function of the file *)

Parses(ln) == ln.op # "BROKEN" /\ ln.key \notin TabKey

\* The lines before the first that does not parse: Replay stops there.
GoodLines(lines) ==
    {i \in DOMAIN lines : \A j \in 1 .. i : Parses(lines[j])}

\* applyLine passes over a SET whose expiry is past.
TakesEffect(ln, t) == ln.op = "DEL" \/ ~Lapsed(ln, t)

\* What a Replay of these lines, all at instant t, leaves under each key:
\* the effect of the last good line for the key that takes effect.
Recovered(lines, t) ==
    [k \in Key |->
        LET hits == {i \in GoodLines(lines) :
                        lines[i].key = k /\ TakesEffect(lines[i], t)}
        IN  IF hits = {} THEN None
            ELSE LET ln == lines[Max(hits)]
                 IN  IF ln.op = "DEL" THEN None
                     ELSE [val |-> ln.val, exp |-> ln.exp]]

\* NewAOFPersister.
AofFresh ==
    /\ rewriting = FALSE
    /\ incrBuf = <<>>
    /\ rw = RwIdle

AofTypeOK ==
    /\ aof \in File \cup {None}
    /\ aofTmp \in File \cup {None}
    /\ aofOpen \in BOOLEAN
    /\ rewriting \in BOOLEAN
    /\ incrBuf \in Seq(Line)
    /\ rw \in [pc : {"off", "open", "scan", "copy", "flush", "swap", "renaming"},
               shard : Shard, at : Time, buf : Seq(Line)]
    /\ rw.pc \in {"scan", "copy", "flush", "swap", "renaming"} => aofTmp # None
    /\ aofOpen => aof # None
=============================================================================
