------------------------------- MODULE Daemon -------------------------------
(***************************************************************************)
(* The server process from start to end and again: main() of               *)
(* cmd/kvd/main.go, NewService, loadOnStartup and Stop of service.go,      *)
(* Replay of persistence.go and Load of rdb.go.  A process ends when main  *)
(* returns after Stop, when it is killed (memory is lost, the files stay), *)
(* or with its machine (the unsynced end of the AOF may be lost as well,   *)
(* its last line cut).  phase says what the main goroutine does next:      *)
(*                                                                         *)
(*   down    no process            up      waiting for a signal            *)
(*   replay  AOF Replay, by line   drain   http.Server.Shutdown            *)
(*   load    RDB Load              loop    autoSaveWG.Wait                 *)
(*   open    OpenForAppend         ttl     ttlMgr.Stop                     *)
(*   save    the last snapshot     sync, close  the AOF                    *)
(*   exit    main is about to return                                       *)
(***************************************************************************)
EXTENDS Service

CONSTANTS
    Ends,            \* how processes end: a subset of {"stop", "kill", "power"}
    HandlersOutlive, \* may Shutdown time out with requests in progress?
    Found,           \* the snapshot file the first process finds
    CutKeys,         \* the keys that each key begins with
    MaxBoots         \* BOUND: processes started in one behaviour

ASSUME DaemonAssumption ==
    /\ Ends \subseteq {"stop", "kill", "power"}
    /\ HandlersOutlive \in BOOLEAN
    /\ Found \in Snap \cup {None}
    /\ CutKeys \in [Key -> SUBSET Key]
    /\ MaxBoots \in Nat

VARIABLES
    phase,  \* what the main goroutine does next
    boots,  \* processes started so far
    pos,    \* the line Replay reads next
    image,  \* history: what the store held when the last process ended
    known   \* history: the keys of image whose last write the files must have

bootVars == <<phase, boots, pos, image, known>>
dvars    == <<vars, bootVars>>

Loading == phase \in {"replay", "load", "open"}
Serving == phase \in {"up", "drain", "loop", "ttl", "save", "sync", "close",
                      "exit"}

-----------------------------------------------------------------------------
(* NewService *)

\* loadOnStartup: a replay if there is an AOF, otherwise a Load.
Boot ==
    /\ phase = "down"
    /\ boots < MaxBoots
    /\ boots' = boots + 1
    /\ pos' = 1
    /\ phase' = IF AofEnabled /\ aof # None THEN "replay"
                ELSE IF RdbEnabled THEN "load" ELSE "open"
    /\ UNCHANGED <<vars, image, known>>

\* Mutant: only SETs are applied.
ApplySet(ln) ==
    IF ln.op = "SET" /\ ~Lapsed(ln, now) THEN MapSet(ln.key, ln.val, ln.exp)
                                         ELSE UNCHANGED mapVars

\* applyLine, on a line that parses.
ApplyLine(ln) ==
    \/ ln.op = "DEL" /\ MapDelete(ln.key)
    \/ ln.op = "SET" /\ ~Lapsed(ln, now) /\ MapSet(ln.key, ln.val, ln.exp)
    \/ ln.op = "SET" /\ Lapsed(ln, now) /\ UNCHANGED mapVars

ReplayLine ==
    /\ phase = "replay"
    /\ pos <= Len(aof.lines)
    /\ Parses(aof.lines[pos])
    /\ ApplyLine(aof.lines[pos])
    /\ pos' = pos + 1
    /\ UNCHANGED <<now, ttlVars, aofVars, rdbVars, svcVars,
                   phase, boots, image, known>>

\* The first line that does not parse is cut off, with everything after it.
ReplayTruncate ==
    /\ phase = "replay"
    /\ pos <= Len(aof.lines)
    /\ ~Parses(aof.lines[pos])
    /\ aof' = [lines |-> SubSeq(aof.lines, 1, pos - 1), cut |-> FALSE,
               synced |-> Min({aof.synced, pos - 1})]
    /\ phase' = "open"
    /\ UNCHANGED <<mapVars, now, ttlVars, aofTmp, aofOpen, rewriting, incrBuf,
                   rw, rdbVars, svcVars, boots, pos, image, known>>

\* Mutant: the last line is left out.
ReplayEndEarly ==
    /\ phase = "replay"
    /\ pos >= Len(aof.lines)
    /\ phase' = "open"
    /\ UNCHANGED <<vars, boots, pos, image, known>>

ReplayEnd ==
    /\ phase = "replay"
    /\ pos > Len(aof.lines)
    /\ phase' = "open"
    /\ UNCHANGED <<vars, boots, pos, image, known>>

ShardBytes(e, s) ==
    SumFunction([k \in {j \in Key : ShardOf[j] = s} |-> Footprint(k, e[k])])

Load ==
    /\ phase = "load"
    /\ items' = Loaded(rdb, now)
    /\ shardMem' = [s \in Shard |-> ShardBytes(Loaded(rdb, now), s)]
    /\ phase' = "open"
    /\ UNCHANGED <<now, ttlVars, aofVars, rdbVars, svcVars,
                   boots, pos, image, known>>

\* OpenForAppend, whose error is only logged; the totals; Start.
Open ==
    /\ phase = "open"
    /\ \/ AofEnabled /\ aof' = Opened(aof) /\ aofOpen' = TRUE
       \/ (IoFaults \/ ~AofEnabled) /\ UNCHANGED <<aof, aofOpen>>
    /\ memUsage' = MemUsage
    /\ lastSnap' = now
    /\ phase' = "up"
    /\ UNCHANGED <<mapVars, now, ttlVars, aofTmp, rewriting, incrBuf, rw,
                   rdbVars, statVars, changes, snapMu, age, pc, frame, tmDelta,
                   begun, boots, pos, image, known>>

-----------------------------------------------------------------------------
(* main after the signal, and Stop *)

Turn(from, to) ==
    /\ phase = from
    /\ phase' = to
    /\ UNCHANGED <<boots, pos, image, known>>

Signal == "stop" \in Ends /\ Turn("up", "drain") /\ UNCHANGED vars

\* Shutdown returns when the last request has, or when its time is up.
Drained ==
    /\ HandlersOutlive \/ \A t \in Thread : pc[t] = "idle"
    /\ Turn("drain", "loop")
    /\ UNCHANGED vars

\* Mutant: autoSaveWG is not waited for.
LoopDoneUnwaited == Turn("loop", "ttl") /\ UNCHANGED vars

LoopDone == pc[Loop] = "idle" /\ Turn("loop", "ttl") /\ UNCHANGED vars

\* Mutant: the AOF is closed without a Sync.
AfterSaveUnsynced == IF AofEnabled THEN "close" ELSE "exit"

AfterSave == IF AofEnabled THEN "sync" ELSE "exit"

StopTtl ==
    /\ Turn("ttl", IF RdbEnabled THEN "save" ELSE AfterSave)
    /\ TtlStop
    /\ IF RdbEnabled THEN SaverAt(Stopper, "open") ELSE UNCHANGED saver
    /\ UNCHANGED <<mapVars, now, aofVars, rdb, rdbTmp, svcVars>>

\* The last snapshot, which does not take snapshotMu.
StopSave ==
    /\ phase = "save"
    /\ SaveStep(Stopper)
    /\ UNCHANGED <<mapVars, now, ttlVars, aofVars, svcVars, bootVars>>

StopSaved ==
    /\ saver[Stopper].pc \in {"ok", "failed"}
    /\ Turn("save", AfterSave)
    /\ SaverAt(Stopper, "off")
    /\ UNCHANGED <<mapVars, now, ttlVars, aofVars, rdb, rdbTmp, svcVars>>

StopSync ==
    /\ Turn("sync", "close")
    /\ AofSync
    /\ UNCHANGED <<mapVars, now, ttlVars, rdbVars, svcVars>>

StopClose ==
    /\ Turn("close", "exit")
    /\ AofClose
    /\ UNCHANGED <<mapVars, now, ttlVars, rdbVars, svcVars>>

-----------------------------------------------------------------------------
(* The process ends *)

\* Its memory is gone; the next process starts from empty structures.
Forget ==
    /\ phase' = "down"
    /\ pos' = 1
    /\ items' = NoEntries
    /\ shardMem' = [s \in Shard |-> 0]
    /\ heap' = [i \in Item |-> 0] /\ ttlStopped' = FALSE
    /\ tmPc' = "loop" /\ tmItem' = None
    /\ aofOpen' = FALSE /\ rewriting' = FALSE /\ incrBuf' = <<>> /\ rw' = RwIdle
    /\ saver' = [p \in Saver |-> SaverOff]
    /\ memUsage' = 0
    /\ requests' = [o \in Op |-> 0] /\ hits' = 0 /\ misses' = 0
    /\ changes' = 0 /\ lastSnap' = 0 /\ snapMu' = None
    /\ pc' = [p \in Worker |-> "idle"]
    /\ frame' = [t \in Thread |-> None]
    /\ age' = [p \in Worker |-> 0]
    /\ tmDelta' = 0
    /\ UNCHANGED <<now, aofTmp, rdb, rdbTmp, begun, boots>>

\* A process that ends while it loads has added nothing to the history.
Remember(keys) ==
    IF Loading THEN UNCHANGED <<image, known>>
               ELSE image' = items /\ known' = keys

\* No line was fused with one that a failing machine had cut.
Whole(f) == \A i \in DOMAIN f.lines : Parses(f.lines[i])

Settled ==
    IF AofEnabled /\ aof # None /\ ~Whole(aof) THEN {}
    ELSE {k \in Key : ~InFlight(k)}

Exit ==
    /\ phase = "exit"
    /\ Remember(Settled)
    /\ Forget
    /\ UNCHANGED aof

Kill ==
    /\ "kill" \in Ends
    /\ phase # "down"
    /\ Remember(IF AofEnabled THEN Settled ELSE {})
    /\ Forget
    /\ UNCHANGED aof

\* What Replay reads in the beginning of a line: mostly nothing it can parse,
\* the line that lacks no more than its newline, a DEL of a key that the key
\* begins with, or a SET with the first digits of its expiry, which name an
\* instant long past.
CutLines(ln) ==
    {Broken, ln}
    \cup {DelLine(k) : k \in IF ln.op = "DEL" THEN CutKeys[ln.key] ELSE {}}
    \cup {SetLine(ln.key, ln.val, x) :
             x \in IF ln.op = "SET" /\ ln.exp > 0 THEN 1 .. now ELSE {}}

\* What a machine that fails leaves of a file: the synced lines, some of the
\* others, and of the last of these perhaps only the beginning.
Upto(f, n) ==
    [f EXCEPT !.lines = SubSeq(@, 1, n), !.cut = @ /\ n = Len(f.lines)]

Torn(f, ln) == [Extend(f, ln) EXCEPT !.cut = TRUE]

Remains(f) ==
    UNION {{Upto(f, n)} \cup
           (IF n = Len(f.lines) THEN {}
            ELSE {Torn(Upto(f, n), ln) : ln \in CutLines(f.lines[n + 1])}) :
               n \in f.synced .. Len(f.lines)}

\* The keys whose lines have all been synced, but for those that a cut line
\* may name.
Synced ==
    {k \in Key : AofEnabled /\ aof # None /\
        \A i \in aof.synced + 1 .. Len(aof.lines) :
            LET ln == aof.lines[i]
            IN  /\ Parses(ln)
                /\ ln.key # k
                /\ ln.op = "DEL" => k \notin CutKeys[ln.key]}

PowerLoss ==
    /\ "power" \in Ends
    /\ phase # "down"
    /\ image' = IF Loading THEN image ELSE items
    /\ known' = (IF Loading THEN known ELSE Settled) \cap Synced
    /\ Forget
    /\ aof' \in IF aof = None THEN {None} ELSE Remains(aof)

-----------------------------------------------------------------------------

DInit ==
    /\ now = 0
    /\ MapInit /\ TtlInit /\ AofFresh
    /\ aof = None /\ aofTmp = None /\ aofOpen = FALSE
    /\ rdb = Found /\ rdbTmp = None /\ saver = [p \in Saver |-> SaverOff]
    /\ SvcFresh(0)
    /\ memUsage = 0
    /\ begun = 0
    /\ phase = "down" /\ boots = 0 /\ pos = 1
    /\ image = Loaded(Found, 0)
    /\ known = IF RdbEnabled THEN Key ELSE {}

Startup == Boot \/ ReplayLine \/ ReplayTruncate \/ ReplayEnd \/ Load \/ Open

Shutdown ==
    \/ Signal \/ Drained \/ LoopDone \/ StopTtl \/ StopSave \/ StopSaved
    \/ StopSync \/ StopClose \/ Exit

Accept == phase = "up" /\ (\E t \in Thread : Begin(t)) /\ UNCHANGED bootVars

Ticking == phase \in {"up", "drain", "loop"} /\ LoopTick /\ UNCHANGED bootVars

Working == Serving /\ Run /\ UNCHANGED bootVars

TimePasses == ~Serving /\ Tick /\ UNCHANGED bootVars

DNext ==
    \/ Startup \/ Shutdown \/ Kill \/ PowerLoss
    \/ Accept \/ Ticking \/ Working \/ TimePasses

DSpec == DInit /\ [][DNext]_dvars

DTypeOK ==
    /\ TypeOK
    /\ phase \in {"down", "replay", "load", "open", "up", "drain", "loop",
                  "ttl", "save", "sync", "close", "exit"}
    /\ boots \in 0 .. MaxBoots
    /\ pos \in Nat \ {0}
    /\ image \in Snap
    /\ known \subseteq Key

-----------------------------------------------------------------------------
(* Properties *)

\* spec.md:14: the service restores its data when it starts.  Before the
\* server listens, every key whose last write had reached a file when the
\* last process ended -- and had been synced, if the machine failed -- is back,
\* with its value and its expiry, unless it has expired; and a deleted key that
\* never had a TTL is not.
RestartKeeps ==
    phase = "open" =>
        \A k \in known :
            /\ image[k] # None /\ ~Lapsed(image[k], now) => items[k] = image[k]
            /\ image[k] = None
               /\ (AofEnabled /\ aof # None => NeverTimed(k, aof.lines))
                   => items[k] = None

\* spec.md:14, persistence.go:59-93, 170-252: from the first append of a process
\* to its exit, whether it was started on a file that earlier processes wrote or
\* on none, the file restores every key no handler is writing -- as long as no
\* line of it was fused with one that a failing machine had cut.
LogServes ==
    Serving /\ AofEnabled /\ aof # None
    /\ Whole(aof) => Restores(aof.lines)

\* What a restart must not do: serve a key that had expired.
RestartForgets ==
    phase = "open" =>
        \A k \in known :
            image[k] = None \/ Lapsed(image[k], now) =>
                items[k] = None \/ Lapsed(items[k], now)

\* persistence.go:177-252: line by line, and however the clock moves on
\* meanwhile, Replay builds what the lines read so far say.
ReplayPrefix ==
    phase = "replay" =>
        LET read == SubSeq(aof.lines, 1, pos - 1)
        IN  \A k \in Key :
              /\ NeverTimed(k, read) => items[k] = Recovered(read, now)[k]
              /\ items[k] # None /\ ~Lapsed(items[k], now) =>
                     items[k] = Recovered(read, now)[k]

\* design.md:64-71, service.go:75-94: a graceful stop leaves the AOF in place
\* and synced, and a snapshot of everything.
CleanExit ==
    phase = "exit" =>
        /\ AofEnabled => aof # None /\ aof.synced = Len(aof.lines)
        /\ RdbEnabled => \A k \in Key :
               /\ items[k] # None /\ ~Lapsed(items[k], now) =>
                      Loaded(rdb, now)[k] = items[k]
               /\ items[k] = None => Loaded(rdb, now)[k] = None
=============================================================================
