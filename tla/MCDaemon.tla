------------------------------ MODULE MCDaemon ------------------------------
(***************************************************************************)
(* Small instances of Daemon for TLC.                                      *)
(***************************************************************************)
EXTENDS MCService, Daemon

NothingFound == None

\* A server that ran with RDB alone left "a" in its snapshot.
OldSnapshot == [k \in Key |-> IF k = "a" THEN [val |-> "u", exp |-> 0]
                                         ELSE None]

\* "b" stands for a key that begins with "a".
FirstLetter == [k \in Key |-> IF k = "b" THEN {"a"} ELSE {}]

WlOwnedForever == [t \in Thread |->
    SetOf(Mine(t), {0}) \cup Plain("del", Mine(t))]

DNoStats == <<NoStats, bootVars>>
=============================================================================
