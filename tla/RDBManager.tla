----------------------------- MODULE RDBManager -----------------------------
(***************************************************************************)
(* The snapshot file of internal/storage/rdb.go.                           *)
(*                                                                         *)
(* A snapshot file is the entries encoded in it: a function from keys to   *)
(* slots, or Blank for a file gob cannot decode (just truncated, or partly *)
(* written).  Save has no lock of its own.  Two savers share the path of   *)
(* the temporary file, so what a saver writes lands wherever the file it   *)
(* opened has been moved to since: at the temporary path, at the snapshot  *)
(* path, or in a file that has no name any more.  Two writers of one file  *)
(* each write their one gob message from offset 0, and Load decodes the    *)
(* first message only: the file holds what was written last.               *)
(***************************************************************************)
EXTENDS ConcurrentMap

CONSTANTS
    Thread,    \* goroutines that serve HTTP requests
    Loop,      \* the goroutine of startAutoSnapshotLoop
    Stopper,   \* the main goroutine, in Service.Stop
    Blank      \* a snapshot file that does not decode

Saver == Thread \cup {Loop, Stopper}

Snap == [Key -> Slot]

ASSUME RdbAssumption ==
    /\ Loop \notin Thread /\ Stopper \notin Thread /\ Loop # Stopper
    /\ Blank \notin Snap \cup {None}
    /\ None \notin Snap

VARIABLES
    rdb,     \* the file at r.path, None when there is none
    rdbTmp,  \* the file at r.path.tmp, None when there is none
    saver    \* each goroutine's progress in Save

rdbVars == <<rdb, rdbTmp, saver>>

NoEntries == [k \in Key |-> None]

SaverOff == [pc |-> "off", shard |-> 1, at |-> 0, fd |-> "none",
             data |-> NoEntries]

SaverAt(p, l) == saver' = [saver EXCEPT ![p] = [SaverOff EXCEPT !.pc = l]]

-----------------------------------------------------------------------------
(* Save *)

\* O_TRUNC empties the file another saver may have open; the clock is read.
RdbOpen(p) ==
    /\ saver[p].pc = "open"
    /\ rdbTmp' = Blank
    /\ saver' = [saver EXCEPT ![p] = [@ EXCEPT !.pc = "scan", !.at = now,
                                               !.fd = "tmp"]]
    /\ UNCHANGED rdb

\* One shard of Iterate.
RdbScan(p) ==
    /\ saver[p].pc = "scan"
    /\ LET me   == saver[p]
           last == me.shard = ShardCount
           live == ShardKeys(me.shard, me.at)
           data == [k \in Key |-> IF k \in live THEN items[k] ELSE me.data[k]]
       IN  saver' = [saver EXCEPT ![p] =
                       [me EXCEPT !.pc = IF last THEN "write" ELSE "scan",
                                  !.shard = IF last THEN @ ELSE @ + 1,
                                  !.data = data]]
    /\ UNCHANGED <<rdb, rdbTmp>>

\* Encode, Sync and Close, on the file this saver opened.
RdbWrite(p) ==
    /\ saver[p].pc = "write"
    /\ rdbTmp' = IF saver[p].fd = "tmp" THEN saver[p].data ELSE rdbTmp
    /\ rdb' = IF saver[p].fd = "rdb" THEN saver[p].data ELSE rdb
    /\ SaverAt(p, "remove")

\* os.Remove(r.path): its error is ignored.
RdbRemove(p) ==
    /\ saver[p].pc = "remove"
    /\ \/ /\ rdb' = None
          /\ saver' = [q \in Saver |->
                         IF q = p THEN [saver[q] EXCEPT !.pc = "rename"]
                         ELSE IF saver[q].fd = "rdb"
                              THEN [saver[q] EXCEPT !.fd = "gone"]
                              ELSE saver[q]]
       \/ /\ IoFaults
          /\ saver' = [saver EXCEPT ![p] = [@ EXCEPT !.pc = "rename"]]
          /\ UNCHANGED rdb
    /\ UNCHANGED rdbTmp

\* os.Rename: it fails when another saver has renamed the file already.
RdbRename(p) ==
    /\ saver[p].pc = "rename"
    /\ IF rdbTmp = None
       THEN SaverAt(p, "failed") /\ UNCHANGED <<rdb, rdbTmp>>
       ELSE /\ rdb' = rdbTmp
            /\ rdbTmp' = None
            /\ saver' = [q \in Saver |->
                           IF q = p THEN [SaverOff EXCEPT !.pc = "ok"]
                           ELSE IF saver[q].fd = "tmp"
                                THEN [saver[q] EXCEPT !.fd = "rdb"]
                                ELSE IF saver[q].fd = "rdb"
                                     THEN [saver[q] EXCEPT !.fd = "gone"]
                                     ELSE saver[q]]

\* An open, write, sync, close or rename that fails; the files stay as they are,
\* save that a failed write or sync leaves its file whole or undecodable.
RdbFault(p) ==
    /\ IoFaults
    /\ saver[p].pc \in {"open", "write", "rename"}
    /\ IF saver[p].pc = "write"
       THEN \E left \in {Blank, saver[p].data} :
              /\ rdbTmp' = IF saver[p].fd = "tmp" THEN left ELSE rdbTmp
              /\ rdb' = IF saver[p].fd = "rdb" THEN left ELSE rdb
       ELSE UNCHANGED <<rdb, rdbTmp>>
    /\ SaverAt(p, "failed")

SaveStep(p) ==
    \/ RdbOpen(p) \/ RdbScan(p) \/ RdbWrite(p)
    \/ RdbRemove(p) \/ RdbRename(p) \/ RdbFault(p)

-----------------------------------------------------------------------------
(* Load *)

\* Mutant: expiry 0 is not taken for "never".
LoadedTimed(file, t) ==
    IF file \in {None, Blank} THEN NoEntries
    ELSE [k \in Key |-> IF file[k] # None /\ file[k].exp > t
                        THEN file[k] ELSE None]

\* What a Load at instant t leaves under each key of an empty map.
Loaded(file, t) ==
    IF file \in {None, Blank} THEN NoEntries
    ELSE [k \in Key |-> IF file[k] # None /\ ~Lapsed(file[k], t)
                        THEN file[k] ELSE None]

RdbInit ==
    /\ rdb = None
    /\ rdbTmp = None
    /\ saver = [p \in Saver |-> SaverOff]

RdbTypeOK ==
    /\ rdb \in Snap \cup {None, Blank}
    /\ rdbTmp \in Snap \cup {None, Blank}
    /\ saver \in [Saver ->
         [pc : {"off", "open", "scan", "write", "remove", "rename",
                "ok", "failed"},
          shard : Shard, at : Time, fd : {"none", "tmp", "rdb", "gone"},
          data : Snap]]
=============================================================================
