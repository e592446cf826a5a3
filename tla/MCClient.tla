------------------------------ MODULE MCClient ------------------------------
(***************************************************************************)
(* Small instances of KvCli for TLC.                                       *)
(***************************************************************************)
EXTENDS KvCli

Line(op, k, v, rest) == [op |-> op, key |-> k, val |-> v, rest |-> rest]

\* Lifetimes that fit (1 and -1), that wrap to a negative one (3) and to a
\* shorter one (7), and a word that names none.
MCLines ==
    {Line("set", "a", "u", rest) :
        rest \in {<<"ttl">>, <<"ttl", 1>>, <<"ttl", -1>>, <<"ttl", 3>>, <<"ttl", 7>>}}
    \cup {Line(op, "a", "u", <<>>) : op \in {"get", "ttl", "snapshot"}}

Ask(op, k, v, via, n) == [op |-> op, key |-> k, val |-> v, via |-> via, n |-> n]

\* One program alone on "b": values, an empty one, a refused one, no lifetime.
OwnWrites ==
    {Ask("set", "b", v, "sdk", 0) : v \in {"empty", "huge"}}
    \cup {Ask(op, "b", "u", "sdk", 0) : op \in {"get", "exists", "del"}}
=============================================================================
