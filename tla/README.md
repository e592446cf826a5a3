# GopherKV in TLA+

GopherKV is an in-memory key-value server in Go: a sharded map with per-key
expiry, an append-only log (AOF), a snapshot file (RDB), and an HTTP interface
with three users: a Go SDK, a prompt and a desktop application. These modules
model the server from the first instruction of `main` to its exit and its next
start (the goroutines that serve requests, the TTL goroutine, the auto-snapshot
loop, the AOF rewriter, the two files, crashes and restarts), and the way of a
call from a user to the store and back.
Line numbers are those of the sources under `src/`.

## The system

| Component | State | Operations | Talks to |
|---|---|---|---|
| `ConcurrentMap` (`internal/storage/concurrent_map.go`) | per shard: a lock, `items`, `mem` | Set, Get, Delete, Exists, Keys, MemUsage, Iterate | passive; called by everyone |
| `TTLManager` (`internal/core/ttl_heap.go`) | heap of (key, expiry), `stopped` | Add, Stop; the goroutine `run`/`process` | calls `onExpire`, which deletes from the map |
| `AOFPersister` (`internal/storage/persistence.go`) | the file, `file`, `rewriting`, `incrBuf`, under one mutex | AppendSet, AppendDel, Sync, Close, Replay; the goroutine `rewrite` | reads the map while it rewrites, fills it in Replay |
| `RDBManager` (`internal/storage/rdb.go`) | the snapshot file and its temporary file, no lock | Save, Load | reads the map in Save, fills it in Load |
| `Service` (`internal/core/service.go`) | `memUsage`, hits, misses, `requests`, `changes`, `lastSnapshotAt`, `snapshotMu` | Set, Get, Delete, Exists, TTL, Stats, Snapshot, Stop; the loop of automatic snapshots | all of the above |
| `kvd` (`cmd/kvd/main.go`) | the process | start, signal, Shutdown with a timeout, Stop | Service |
| HTTP server (`internal/server/http_handler.go`) | none | one handler per method | Service; answers with the codes of `pkg/protocol` |
| client SDK (`pkg/client/client.go`) | none but the timeout | Set, Get, Delete, Exists, TTL, Health, Stats, Snapshot | the HTTP server; no retry |
| `kvcli` (`cmd/kvcli/main.go`) | the prompt | Health first, then a command at a time | client SDK |
| desktop application (`cmd/kvgui/*/app.go`, `frontend/src/main.js`) | `client`; on the page the indicator and the buttons | Connect, Disconnect, seven operations | client SDK; the page calls it through Wails, a goroutine and a promise per call |
| configuration (`internal/config/config.go`) | none | read once at start | `kvd` |

What is hard in it:

* A Set is a chain of seven steps under five different locks or atomics (limit,
  map, `memUsage`, file, `changes`, snapshot, heap), and other handlers and the
  TTL goroutine act between any two of them. Nothing ties a key's order in the
  map to its order in the file.
* A heap item is never removed or updated, only popped, so stale deadlines of a
  key live on; the goroutine sleeps on a timer that nothing wakes.
* The rewriter scans the map shard by shard and shares a buffer with the
  appends; the swap is a remove and then a rename.
* Save has no lock of its own; two Saves share the temporary file's path.
* Stop waits for some goroutines and not for others.
* A restart reads one of the two files, and an expiry is recorded in neither.
* A caller gives up after a timeout and the handler goes on: no handler looks at
  its request's context, so a write reported as failed may still be done, and
  later than the writes after it.
* A lifetime passes through `time.Duration`, whole seconds in JSON,
  `time.Duration` again and milliseconds; what is left of it comes back rounded
  down by one way (Get) and up by the other (TTL).
* The goroutines of the desktop application read and write `client` without a
  lock, and its promises are resolved in any order.

What makes each component correct, and where it is stated:

| Component | Correct when | Property |
|---|---|---|
| map and accounting | `memUsage`, with the deltas under way, is what the shards hold | `MemAccounting` |
| memory limit | the limit is passed only by what concurrent Sets can pass together | `MemoryCeiling` |
| expiry | an entry with an expiry always has a deadline, and leaves in the end | `Armed`, `ExpiryHappens` |
| the store | entries come and go only by a Set, a Delete or a passed deadline | `ImplementsKV` |
| log | the file says what the store holds; a replay brings it back | `LogServes`, `ReplayPrefix`, `RestartKeeps` |
| rewrite | the new file and the buffer cover the store | `NewFileCovers` |
| snapshots | Saves do not overlap, the file decodes, rules are honoured | `SnapshotExclusive`, `RdbFileWhole`, `RulesHonoured` |
| handlers | nobody waits for ever | `RequestsReturn` |
| shutdown | a graceful stop leaves complete files | `CleanExit` |
| calls | someone who alone writes a key reads his own writes | `ReadsExplained` |
| lifetimes | what was asked for is what the entry gets; what is left is within a second of the truth | `LifetimeKept`, `RemainingTrue` |
| desktop application | whatever clicks overlap, the indicator and every operation agree with a Connect or Disconnect that no later one had replaced | `IndicatorTrue`, `OperationsFollow` |

## The modules

`ConcurrentMap` is extended by `TTLManager`, `AOFPersister` and `RDBManager`;
`Service` extends those three and composes them; `Daemon` extends `Service`.
`Service` is shown to implement `KVStore`, and the users' side is built on that
abstract store instead of the server's goroutines: `Client` extends `KVStore` and
`Durations`, `KvCli` extends `Client`. `GuiApp` stands alone: what it speaks to
is a server that answers or does not.

* **ConcurrentMap** — `items`, `shardMem` and the clock `now`. Set and Delete
  hold the shard's lock from the first read to the last write, so each is one
  operator (`MapSet`, `MapDelete`) conjoined to its caller's step. Iterate
  releases a shard before it locks the next, so its callers take one step per
  shard (`ShardKeys`). `Served` is the test of Get (served *at* the expiry
  instant), `Lapsed` that of every other reader (gone at that instant): the code
  has both, and so has the model.
* **TTLManager** — the heap is a bag of (key, expiry) whose top is any item of
  least expiry; the goroutine is at one of `loop`, `sleep`, `wait`, `expire`,
  `account`. The callback of NewService is `Expire` and `ExpireAccount` of
  `Service`.
* **AOFPersister** — a file is the sequence of its lines, with a count of the
  synced ones and a flag for a last line without its newline. A line is a
  record; `Broken` is one that does not parse, and so are the lines of keys that
  contain a tab (`TabKey`). `p.mu` makes an append one step; `rewrite` is
  `RwOpen`, `RwScan` per shard, `RwCopy`, `RwFlush`, `RwRemove`, `RwRename`, and
  a fault at any of them. The threshold is in lines, not bytes.
* **RDBManager** — a snapshot file is the entries it decodes to, or `Blank`. A
  saver remembers which path its open file now has (`fd`), because another saver
  may rename or remove the file it writes.
* **Service** — one program counter per handler and for the loop; the header of
  the module gives the line each value stands for. A step ends before the next
  access to something another goroutine writes. `Init` is a server started on an
  empty directory.
* **Daemon** — `phase` is the main goroutine: start, Replay line by line (the
  clock may move), Load, OpenForAppend, serving, signal, Shutdown, and the steps
  of Stop; `Kill` loses the memory, `PowerLoss` also any part of the unsynced end
  of the AOF, its last line possibly cut. What Replay reads of a cut line is
  `CutLines`: nothing it can parse, the whole line, a DEL of a key that the key
  begins with (`CutKeys`), or a SET that lapsed long ago. Handlers run on during Stop if Shutdown
  timed out (`HandlersOutlive`). `image` and `known` are history variables: what
  the store held when a process ended, and the keys whose last write the files
  must have: those no handler was writing (`Settled`), and after a power loss of
  these the ones with nothing but synced lines (`Synced`).
* **KVStore** — the abstract specification: a map whose entries change by Put,
  Drop, or the lapse of a pending deadline that has passed; a Put with an expiry
  makes its deadline pending at once. `Service` implements it with `Deadlines`
  (heap, popped item, and the deadlines handlers still owe).
* **Durations** — the conversions of a lifetime, each by what it computes: the
  wrapping product of `time.Duration(n) * time.Second`, the truncation to
  seconds, the milliseconds of `ExpiresAt`, the two roundings of what is left.
* **Client** — `calls` holds every call. A call has a server's half (`sent`,
  `begun`, `answered`: the handler and its method of Service, in the steps other
  requests can come between) and a caller's half (waiting, returned, given up)
  that only the network joins: `GiveUp` may happen at any point, and the other
  half goes on. `Refuse`, `Miss`, `Full` and the failing outcome of `Write` are
  the error paths. Exists and TTL of Service are modelled here.
* **KvCli** — `prompt` is the main function of kvcli: Health, lines, exit. What
  follows the value in a line is a sequence of words, so that `set k v TTL 5` is
  what handleSet makes of it. The other callers are Go programs and the App's
  SetKey, which differ in how they make a Duration.
* **GuiApp** — `client` is the App's field, `lit` the indicator, `calls` the
  bound methods clicked; an operation reads `client` twice, and the second read
  may see either value. `met` is a history variable: which Connect or Disconnect
  overlapped which call.
* **ShardIndex** — the arithmetic of NewConcurrentMap and getShard, stated for
  shard counts to 20 by assumptions that TLC evaluates (any power of two uses
  every shard, any other count leaves some empty). `MCService` selects shards
  with it; `Service` itself takes any function.
* **MCService**, **MCDaemon**, **MCClient**, **MCGui** — keys, values and
  request mixes for TLC.
* **ServiceProofs** (types, deadlines, snapshots), **StoreProofs** (the
  refinement), **AccountingProofs**, **LogProofs** (the AOF and its rewrite),
  **DaemonProofs** (the process over its lives), **SessionProofs** (lifetimes
  and a caller's reads) and **GuiProofs** — the theorems; **SumProofs** — what
  they need of `Max` and of sums over finite functions.

Operators marked "Mutant" state a plausible bug of the definition that follows
them; each property is known to catch one.

## The runs

All passing runs explore the whole state space of their instance. Deadlock is
not checked: with the clock and the requests bounded, the modelled server comes
to rest.

| Run | Checks | Instance | Shows |
|---|---|---|---|
| `core` | `MemAccounting`, `MemoryCeiling`, `Armed`, `ImplementsKV` | two handlers, 3 requests out of: set `a` with TTL 0 or 1, set two large entries, get, delete, an over-long key, an over-large value; limit = one large entry | the accounting is exact at every moment although map and counter change in different steps; the limit is passed by at most one entry per extra handler; overwriting, deleting and expiring the same key in any interleaving leaves no entry without a deadline; every step is a step of `KVStore` |
| `rewrite` | `NewFileCovers` | two shards, a rewrite after each append, 3 requests, expiry | what the scan misses or sees too early, the buffer puts right |
| `disk_faults` | `TypeOK`, `RdbFileWhole`, `SnapshotExclusive` | both files, every operation may fail, 3 sets and snapshots, automatic snapshots | no failure leaves a handle without a file or a snapshot that does not decode |
| `live_log` | `ExpiryHappens`, `RequestsReturn` | TTLs 0, 1, 2, clock to 2, a rewrite after each append | the uninterruptible timer delays an expiry and never loses it; the swap releases waiting appends |
| `live_snapshot` | `RequestsReturn`, `RulesHonoured` | two handlers and the loop | no waiter of `snapshotMu` is left behind; a rule that is met is acted on |
| `restart_aof` | `DTypeOK`, `LogServes`, `RestartKeeps`, `ReplayPrefix`, `CleanExit` | two keys, each with one writer; stop, kill, power loss at any step; two restarts | the file restores, at every moment of every process, what no handler is writing (an expiry writes no line); every key whose last write had reached the file, or been synced if the machine failed, is back; Replay is right after each line, truncation included; a stopped process leaves a synced file |
| `restart_rdb` | `RestartKeeps`, `CleanExit` | an old snapshot, a save rule, stop and restart | the last snapshot holds everything |
| `session` | `CTypeOK`, `ReadsExplained`, `LifetimeKept`, `RemainingTrue` | a prompt that sets `a` with lifetimes of 1, -1, and two that overflow, and a program that alone writes `b` (empty, refused, deleted); 3 calls, any of them may time out or fail in the server | what a read returns is what the last acknowledged write left, or a write whose outcome the caller was not told; lifetimes arrive; the time left is right by both ways |
| `gui` | `GTypeOK`, `IndicatorTrue`, `OperationsFollow` | two servers, 4 clicks | `App.client`, which has no lock, is a regular register: an operation finds what an overlapping click or the last one before it left, never a server given up before it began; the indicator is wrong only after a Connect and a Disconnect that overlapped, until the next that is alone; no panic without an overlapping Disconnect |

Three runs end in a violation, each of a property that the documents state and
the code does not have:

| Run | Property | What happens |
|---|---|---|
| `early_expiry` | `NoEarlyExpiry` | set `a` with a TTL, set `a` again without one: the first deadline deletes the second entry. `design.md:58-59` has the comparison the code lacks |
| `rewrite_gap` | `Durable` | a line appended after the copy of `incrBuf` and before the swap is lost (`persistence.go:131-167`, `design.md:39`) |
| `resurrection` | `RestartForgets` | a key's expired SET is passed over in Replay and the SET before it comes back, without expiry (`persistence.go:239-241`, `spec.md:11`) |

### Disagreements without a run

The models also exhibit these. Where a property or an instance is named, TLC
finds the counterexample; the others are a line of the model.

* Two Sets that both pass the limit test exceed `max_memory` (`service.go:161-169`,
  `spec.md:12`): `MemoryCeiling` without its second summand, two keys, limit of
  one entry. `MemoryCeiling` is the bound that does hold.
* Two handlers that set the same key can reach the map and the file in opposite
  orders (`service.go:168-175`): `Durable` with one key, two values, no rewrite.
  This is why the passing restart runs give each key one writer.
* A key with a tab is accepted and its line does not parse
  (`persistence.go:59`, `spec.md:10`): `Durable` with a key in `TabKey`.
* A Set whose append fails is stored and never armed (`service.go:172-174`):
  `AllArmed` with `IoFaults`. `Armed` is stated for a disk that does not fail.
* Restored deadlines are in no heap, so restored entries stop being served at
  their expiry and are never deleted (`service.go:96-117`, `spec.md:11`):
  `phase = "up" => Armed` with `restart_aof`'s constants and ends `{"stop"}`.
* A snapshot request that outlives Shutdown and the Save of Stop, which does not
  take `snapshotMu`, share a temporary file, and the process may leave no usable
  snapshot (`service.go:81`, `design.md:47, 68`):
  `phase = "exit" => rdb \notin {None, Blank}` with RDB only and
  `HandlersOutlive = TRUE`.
* Between remove and rename there is no AOF (`persistence.go:160-161`,
  `design.md:34`), and Stop does not wait for the rewriter: `CleanExit` with
  `RewriteThreshold = 1`.
* `changes` is set to 0 after Save, which also drops the changes the snapshot
  does not contain (`service.go:305-310`, `spec.md:22`).
* Concurrent requests overwrite each other's counters (`service.go:136-144`,
  `spec.md:21`).
* A server that loaded a snapshot and then created an AOF ignores the snapshot
  at its second start (`service.go:96-117`): `RestartKeeps` with both enabled.
* A complete last line without its newline is accepted by Replay and fused with
  the next append, which the start after that cuts off (`persistence.go:195-213`):
  `RestartKeeps` in `restart_aof` without `Whole` in `Settled`.
* A write that its caller was told had failed may be done later, over a write
  that was acknowledged after it (`client.go:48`; `design.md:80` wants the request's context passed on, and
  `design.md:88` a retry):
  `ReadsExplained` without its second set.
* A lifetime of less than a second, or one whose product overflows to less than
  a second or below 0, is answered OK and gives an entry without expiry
  (`client.go:67-69`, `http_handler.go:65-68`, `main.go:110`, `spec.md:11`): a
  TTL of 3 in the scaled word of `session`. One that overflows past the whole
  range gives another lifetime, so 7 there one second, and `ttl -4` (a huge
  negative number in kvcli) two: `LifetimeKept` without `Representable`.
* kvcli passes over words it does not know: `set k v TTL 5` and `set k v ttl`
  store without expiry and print OK (`main.go:104`).
* An empty key is refused with code 2001 (key too long) by Set and with an
  invalid parameter by the other methods (`http_handler.go:76-80`).
* An operation of the desktop application between a Disconnect's click and its
  answer may call a method of a nil client (`app.go:54`), and two overlapping
  clicks may leave the indicator wrong until the next (`main.js`, `spec.md:32`):
  `OperationsFollow` without its last disjunct, `IndicatorTrue` without its
  second.
* A DEL line of which a failing machine left only a beginning may name another
  key, and Replay deletes that one, although its own line was synced
  (`persistence.go:243-247`, `spec.md:14`): `RestartKeeps` in `restart_aof`
  without the last conjunct of `Synced`.
* A shard count that is not a power of two leaves shards unused, and 0 panics
  (`concurrent_map.go:26-48`): `ShardIndex!OthersDoNot`.

### Bounds, and why they are enough

`MaxRequests` (requests in a behaviour), `MaxTime` and `MaxTTL` (the clock) and
`MaxBoots` (processes) are the bounds. Two handlers reach every pairwise race;
three requests let a third party come between two (overwrite a key that is being
armed, append during a rewrite another append began). A clock that reaches 2
with a TTL of 1 separates an entry's expiry from that of the one that replaced
it. Two shards are needed only where Iterate's release between shards matters
(`rewrite`). Two processes are enough for what a restart rebuilds, and the third of
`restart_aof` is for lines that a stopped process synced and a later one, which
the machine cuts off, has behind its own. The ceiling
of `MemoryCeiling` is reached in `core`, and the mutant that checks without the
new entry passes it. `core`, `rewrite`, `disk_faults` and the restart runs leave
the counters of Stats out of the state's fingerprint (`VIEW`): no property of
theirs reads them. Symmetry is over handlers that are given the same requests,
or over servers, and only in runs without liveness.

`MaxCalls` and `MaxClicks` bound `session` and `gui`. Three calls are a write
that times out, one that is acknowledged, and a read, or kvcli's Health, a Set
and a TTL; four clicks are two that overlap, the one that puts things right, and an
operation, or two Connects, the Disconnect between them and an operation that
overlaps any of these. Time is scaled: a second is 2 ticks, a
millisecond as many, and a Duration ends at 5, so that 2 seconds fit, 3 wrap to
a negative Duration and 7 to one second. The clock goes to 3, past the expiry of
an entry set for a second at 0, so that deadlines lapse and `ttl` may answer -2.
The theorems hold for any scale, 2^63 - 1 nanoseconds included.

`NewFileCovers` and `RestartKeeps` speak of deleted and expired keys only if the
key was never set with a TTL, because of the resurrection above. `RestartKeeps` asks
after a power loss for the keys all of whose lines were synced, and `LogServes`
and `RestartKeeps` ask nothing of a file with a fused line (`Whole`);
`ReplayPrefix` says what is rebuilt in these cases.

### Fairness

`FairSpec` is for a disk that works. Weak fairness of each handler, the TTL
goroutine, the rewriter, the loop and the clock is the Go scheduler's (every
runnable goroutine runs, preemptively) and that of timers and tickers. Strong
fairness of taking `snapshotMu` and of an append, which takes `p.mu`, is that of
`sync.Mutex`, which hands over to a waiter of more than a millisecond. Beginning
a request is not fair: clients may stop. `ExpiryHappens` excepts a goroutine
that waits for an instant after `MaxTime`, which the bounded clock never reaches.

## The proofs

For every set of keys, values and goroutines, every workload, every bound, any
shard function and both files on or off. Where nothing else is said, the disk
may fail and the `ASSUME`s of the modules are all that is used.

In one life of the server:

* `ServiceProofs!TypeCorrect`: `Spec => []TypeOK`. It says more than types: an
  open AOF handle names a file, the rewriter past its open has a temporary file,
  and a handler is only where its request can bring it (`ControlOK`). It is
  inductive as it stands; one lemma per action. The lemmas on `Extend`,
  `Opened` and `ShardKeys` carry the files and the scan.
* `ServiceProofs!DeadlinesArmed`: `Spec => []Armed`. The invariant is
  `TypeOK`, `~ttlStopped` (nobody stops the manager in one life) and `Armed`.
  A step that stores owes the deadline at once; a handler that owes keeps owing
  until `Arm`, which puts it in the heap; a pop moves it to the goroutine's
  hand; `Expire` lets go of it only by deleting the key. The key's deadline is
  covered whichever entry the expiry hits, which is why a stale item may delete
  a newer entry without leaving a later one unarmed.
* `ServiceProofs!SavesTakeTurns`: `Spec => []SnapshotExclusive`, and
  `ServiceProofs!SnapshotDecodes`: `Spec => []RdbFileWhole`. That the file
  decodes is not inductive: it needs that the goroutine in Save is the one that
  holds `snapshotMu`, that nobody else has a file open, and that the temporary
  file is complete once Save has come to its rename. `SnapshotExclusive` is that
  strengthening, checked by TLC in `disk_faults` before it was proved.

* `StoreProofs!StoreImplemented`: `~IoFaults => (Spec => ImplementsKV)`. Every
  step of Service is a Put, Drop, Lapse or Advance of `KVStore`, or leaves
  `items`, the pending deadlines and the clock alone. The invariant is that of
  `DeadlinesArmed` with the fact that a popped deadline has passed (`PoppedDue`).
  It is stated for a disk that works, because an append that fails forgets a
  deadline.
* `AccountingProofs!CounterIsTrue`: `Spec => []MemAccounting`. What the invariant
  adds is that a delta exists only between the change of the map and its addition
  to the counter (`Settled`). A write to the map moves the sum over the shards,
  the sum over the entries and one delta by the same amount; an addition moves a
  delta into the counter; every other step leaves all of them alone (`NoByte`).
* `AccountingProofs!LimitPassedByOthersOnly`: `Spec => []MemoryCeiling`, for at
  least one handler and one entry that may be stored. The invariant (`Capped`)
  counts for each handler what it may still add: the size of the entry it was
  allowed to store, then its delta. The handler that passes the check last found
  room for its entry, and the others have one each.
  What a sum does when one value changes, and that it grows with its terms, is in
  `SumProofs`: the fold is shown to have a solution, and its facts go up from the
  empty set, by an induction stated for a set of sets (`SetInductive`), since the
  library's own takes an operator.

The log. What a file says of a key is put without recursion: the last line that
names it is such a one (`LastIs`), a line sets it and nothing after it has an
effect (`Brings`), every SET of it is followed by a DEL (`Buried`). Lemmas give
what an append, a concatenation and a passing instant do to each, and that
`Recovered` agrees with them (`RecoveredIs`, `BroughtBack`).

* `LogProofs!LogIsDurable`: `Spec => []Durable`. The invariant (`LogInv`) says
  that for every key no handler is writing the lines bring what the map holds
  or bury what it does not; that between map and file the handler's own entry is
  still in the map, unless it expired; and that a key with a deadline anywhere
  has a line with an expiry, which is why an expiry, which writes no line, does
  not falsify a file.
* `LogProofs!RewriteCovers`: `Spec => []NewFileCovers`, for any threshold. The
  invariant (`RwInv`) holds from the start of a rewrite to its swap: what is in
  the new file, followed by what is still to be added to it, says of a key what
  the map says, or says nothing of it and its shard is not scanned yet, or is
  nowhere. A SET that comes between the scan of a shard and the end is said by
  the buffer, a DEL too; an entry the scan drops because it has lapsed was not
  to be restored.

Over the lives of the server, started, stopped and killed any number of times:

* `DaemonProofs!ServerTypeCorrect`: `DSpec => []DTypeOK`. Added to it: there is a
  file as long as it is replayed.
* `DaemonProofs!ReplayBuilds`: `DSpec => []ReplayPrefix`, on any disk, for any
  file, keys with tabs and power losses included. The invariant (`ReplayInv`)
  follows the map line by line (`Built`): an entry is what its line brings at
  the present instant, an absent key has only lines without effect or deleted
  ones. A line's effect depends on the clock, and the clock moves while Replay
  reads: what had effect and lapses leaves an entry that nobody is served.
* `DaemonProofs!StopIsClean`: `DSpec => []CleanExit`. The invariant (`StopInv`)
  goes backwards from the exit: the AOF is open while anyone may append, nobody
  writes once the handlers and the loop are gone, and the last Save, shard by
  shard, has what those shards hold (`LastSave`), and it leaves a file that has all
  of it (`Full`). `LastSnapshotHasAll` is the same for requests with TTLs, with
  rewrites under way: every entry that can still be served is in the snapshot.
* `DaemonProofs!LogRestarts`: `DSpec => []RestartKeeps`, with the AOF. While a
  process serves, the invariant (`RestartInv`) is `LogInv`, and until it serves
  it is about the file it was left (`FileKeeps`): each remembered key has its
  line there, nothing after it changes it, and once Replay is past that line the
  map has it. `Kill` at any step turns the first into the second; the end of
  Replay and `OpenForAppend` turn the second into the first, `ReplayInv` giving
  what `LogInv` asks of keys that are not remembered. `LogServesAlways`
  (`DSpec => []LogServes`) has the same invariant: the file restores the store in
  every process, not only in the first.
* `DaemonProofs!SnapshotRestarts`: `DSpec => []RestartKeeps`, with snapshots
  alone: `StopInv` says that what is remembered is in the file when a process has
  stopped, `LoadInv` that it stays there and is loaded, whatever the clock does
  and also when the process that loads is killed. `SnapshotRestartsLive` is the
  part of it that holds with TTLs: nothing that can still be served is lost.

These theorems have hypotheses beyond the modules' assumptions. Each excludes a
behaviour the code has and that breaks the property, but for one: `LogServes` is
about files without a fused line and so says something after a power loss too;
`restart_aof` checks that, and its theorem leaves power losses out, because the
invariant is about files that are whole.

| Hypothesis | In | Without it |
|---|---|---|
| `~IoFaults` | all but the first two of `Daemon` | an append that fails leaves a stored entry without its line; the last Save, Sync and Close only log their errors |
| `TabKey = {}` | those on the log | a line that does not parse |
| `OneWriter`: no key is written by two goroutines | those on the log | the map and the file in opposite orders |
| `RewriteThreshold = 0` | `LogIsDurable`, `LogServesAlways`, `LogRestarts`; `StopIsClean` if there is an AOF | lines lost in the swap (`rewrite_gap`); an exit between remove and rename |
| `Uniform`: a key is set with a TTL always or never | `RewriteCovers` | a stale deadline deletes an entry without expiry; the new file has that entry's line and none of the older one's, so it brings the key back |
| `~HandlersOutlive` | `StopIsClean`, the snapshot restarts | a handler's snapshot and Stop's share a file |
| `NoTtls` | `StopIsClean` with an RDB, `SnapshotRestarts` | a deadline that fires after the last scan deletes an entry the file then has: `CleanExit` asks for the same store, `LiveSaved` and `LiveBack` for what can still be served |
| `"power" \notin Ends` | `LogServesAlways`, `LogRestarts` | unsynced lines are gone, a cut line is joined by the next, or names another key |
| `RdbEnabled => Found = None` | `LogServesAlways`, `LogRestarts` | the first start loads the snapshot that is found and the next reads the AOF |
| one of the files only | `SnapshotRestarts` | a start that finds an AOF reads no snapshot |

`rewrite` and `restart_aof` (without its power losses) satisfy the hypotheses of
the theorems on the log, `restart_rdb` those on the snapshots. The strengthened invariants (`LogInv`,
`RwInv`, `StopInv`, `RestartInv`, `LoadInv`) were checked by TLC on those
instances, and with a third process and both files, before they were proved.

The users' side:

* `SessionProofs!SessionTyped`, `LifetimesKept` and `RemainingIsTrue`: `CTypeOK`,
  `LifetimeKept` and `RemainingTrue`, for any units, word, callers and commands.
  One invariant (`SInv`) holds them: of each call, what its fields say of the
  lifetime that was meant, the deadline a Set computed and the time left that a
  read computed. The arithmetic is in lemmas on the conversions: a Duration that
  fits does not wrap (`WrapFits`), whole seconds survive the JSON field
  (`LifetimeCarried`), the deadline is within a millisecond (`DeadlineKept`).
* `SessionProofs!OwnWritesRead`: `Spec => []ReadsExplained`. To `SInv` the
  invariant (`RInv`) adds that a caller has one call at a time, that a key
  written without a lifetime has no deadline pending (so that nothing expires
  under its owner), that the store holds what the writes explain or the write
  under way, that only a lost write can have overtaken an acknowledged one, and
  that a read which has found its entry found an explained one. A step of a lost
  write changes the store and not what explains it; a write that returns moves
  from "under way" to "acknowledged" or "lost". That the last acknowledged write
  is well defined needs that a bounded set of numbers has a largest element,
  proved from the well-founded order on them (`SumProofs!HasMax`).
* `GuiProofs!GuiTyped`, `IndicatorIsTrue` and `OperationsAreTrue`: `GTypeOK`,
  `IndicatorTrue` and `OperationsFollow`, for any number of clicks. The invariant
  (`GInv`) says that a bar call that is pending has met every later call, that
  `client` is what some bar call left that no later one replaced, the indicator
  what some such call showed among those the page knows of, and what an operation
  has found so far. A Connect or Disconnect that takes effect has met
  every call after it, so it replaces nothing that these have found, and nothing
  that succeeded before has replaced it.

Every safety and action property of the passing runs has its theorem. Only
model-checked: liveness (`ExpiryHappens`, `RequestsReturn`, `RulesHonoured`),
which the prover cannot do under fairness; the arithmetic of `ShardIndex`, which
TLC evaluates for counts to 20; and that the properties of the violation runs
fail (`Durable` fails with a rewrite and is proved without). That every
pending deadline lapses in the end is `ExpiryHappens` of Service, not part of
`KVStore`.

## Not modelled

* Configuration: YAML laid over defaults once, before anything runs concurrently;
  its values are the constants of the modules.
* Keys, MemUsage and Stats: they change nothing and no property reads them.
* Bodies that are not the SDK's (bad JSON, bad base64), and answers that are not
  the server's. kvcli's help, usage messages and unknown commands make no call.
* Failures of Replay and Load other than undecodable content, and a failing
  ListenAndServe, which ends the process like `Kill`.
* Keys with a newline or a final carriage return, which the log's format
  misreads in other ways than a tab.
* The page of the desktop application beyond its connection bar: tabs, log,
  layout, and the generated bindings.

## Plan

Built so far, in the order of their importance: the storage types, `Service`,
`KVStore`, `Daemon`; the users' side, `Durations`, `Client`, `KvCli`, `GuiApp`;
and a theorem for every safety property of the passing runs. Left:

1. `LogRestarts` with a rewrite that ends before the process does: `RwInv` at the
   swap gives `LogInv` of the new file, if nothing is appended between the copy
   and the swap. It needs both invariants at once.
2. `LogServesAlways` over power losses, and `LogRestarts` after one for the keys
   whose last line was synced.
3. That a waiter of `snapshotMu` or `p.mu` has a holder that can move, as an
   invariant: the safety half of `RequestsReturn`.
4. The array heap of `container/heap` as functions, shown to give the bag's top.
