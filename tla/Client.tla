-------------------------------- MODULE Client --------------------------------
(***************************************************************************)
(* pkg/client/client.go, internal/server/http_handler.go and the entry     *)
(* points of service.go: calls of the SDK over HTTP, on the store KVStore, *)
(* which Service implements.                                               *)
(*                                                                         *)
(* A call has two halves that nothing but the network ties together.  The  *)
(* caller's half waits for the answer and gives up when its http.Client's  *)
(* timeout is over or the connection breaks; it does not try again.  The   *)
(* server's half (at) is                                                   *)
(*                                                                         *)
(*   sent      on its way, perhaps for ever                                *)
(*   begun     validated; a Set knows its deadline, a read its entry       *)
(*   answered  done, with a code                                           *)
(*                                                                         *)
(* and goes on when the caller has given up: no handler looks at           *)
(* r.Context().  calls holds every call, in the order they were made.      *)
(***************************************************************************)
EXTENDS KVStore, Durations, Sequences, FiniteSets, FiniteSetsExt

CONSTANTS
    Caller,      \* goroutines that use the SDK, each for one call at a time
    Nil,         \* Get's nil slice: no such key
    EmptyKeys, LongKeys, HugeValues,  \* refused by handlers and Service
    Failures,    \* a subset of {"full", "append", "save"}
    MaxCalls     \* BOUND: calls made in one behaviour

ASSUME ClientAssumption ==
    /\ EmptyKeys \cup LongKeys \subseteq Key /\ HugeValues \subseteq Value
    /\ Failures \subseteq {"full", "append", "save"}
    /\ MaxCalls \in Nat
    /\ Nil \notin Value /\ None \notin Value
    /\ None \notin [val : Value, exp : Nat]

VARIABLE calls

cliVars == <<kvVars, calls>>

Writes == {"set", "del"}
Reads  == {"get", "exists", "ttl"}

Waiting(c) == c.err = "none yet"
Made == DOMAIN calls

Free(p) == \A i \in Made : calls[i].by = p => ~Waiting(calls[i])

\* doRequest: p makes a call, for a lifetime of d if it is a Set; asked is the
\* lifetime the user meant.
Issue(p, op, k, v, d, asked) ==
    /\ Len(calls) < MaxCalls
    /\ Free(p)
    /\ calls' = Append(calls,
           [by |-> p, op |-> op, key |-> k, val |-> v, ttl |-> JsonTtl(d),
            asked |-> asked, born |-> clock, at |-> "sent", entry |-> None,
            exp |-> 0, code |-> "ok", data |-> None,
            err |-> "none yet", res |-> None])

-----------------------------------------------------------------------------
(* The server's half *)

\* GetKey, DeleteKey and TTLKey refuse an empty key themselves; Service
\* refuses what validateKey and validateValue do.
Refusal(c) ==
    IF c.op \in Writes \cup Reads
    THEN IF c.key \in EmptyKeys /\ c.op # "set" THEN "invalid"
         ELSE IF c.key \in EmptyKeys \cup LongKeys THEN "tooLong"
         ELSE IF c.op = "set" /\ c.val \in HugeValues THEN "tooLarge"
         ELSE "ok"
    ELSE "ok"

Refuse(i) ==
    /\ calls[i].at = "sent"
    /\ Refusal(calls[i]) # "ok"
    /\ calls' = [calls EXCEPT ![i].at = "answered", ![i].code = Refusal(calls[i])]
    /\ UNCHANGED kvVars

Served(k) == kv[k] # None /\ ServedAt(kv[k].exp, clock)

\* The handler has come to the map: a Set with its deadline, a read with the
\* entry it found.
Begin(i) ==
    LET c == calls[i] IN
    /\ c.at = "sent"
    /\ Refusal(c) = "ok"
    /\ c.op \in Reads => Served(c.key)
    /\ calls' = [calls EXCEPT
           ![i].at = "begun",
           ![i].entry = IF c.op \in Reads THEN kv[c.key] ELSE None,
           ![i].exp = IF c.op = "set" THEN Deadline(HandlerTtl(c.ttl), clock)
                      ELSE IF c.op \in Reads THEN kv[c.key].exp ELSE 0]
    /\ UNCHANGED kvVars

\* ErrKeyNotFound
Miss(i) ==
    LET c == calls[i] IN
    /\ c.at = "sent"
    /\ Refusal(c) = "ok"
    /\ c.op \in Reads
    /\ ~Served(c.key)
    /\ calls' = [calls EXCEPT ![i].at = "answered", ![i].code = "notFound"]
    /\ UNCHANGED kvVars

Answer(i, code, data) ==
    calls' = [calls EXCEPT ![i].at = "answered", ![i].code = code,
                           ![i].data = data]

\* Mutant: the new value goes in before the limit is tested.
FullStored(i) ==
    /\ calls[i].at = "begun" /\ calls[i].op = "set"
    /\ "full" \in Failures
    /\ Put(calls[i].key, calls[i].val, calls[i].exp)
    /\ Answer(i, "full", None)

\* ErrMemoryFull: nothing was stored.
Full(i) ==
    /\ calls[i].at = "begun" /\ calls[i].op = "set"
    /\ "full" \in Failures
    /\ Answer(i, "full", None)
    /\ UNCHANGED kvVars

\* Set and Delete; an append that fails is reported, with the change made.
Write(i) ==
    LET c == calls[i] IN
    /\ c.at = "begun"
    /\ \/ c.op = "set" /\ Put(c.key, c.val, c.exp)
       \/ c.op = "del" /\ Drop(c.key)
    /\ \/ Answer(i, "ok", None)
       \/ "append" \in Failures /\ Answer(i, "internal", None)

\* What is left of the lifetime is computed after the entry was read.
Reply(i) ==
    LET c == calls[i] IN
    /\ c.at = "begun"
    /\ \/ c.op \in {"get", "exists"} /\ Answer(i, "ok", Remaining(c.exp, clock))
       \/ c.op = "ttl" /\ Answer(i, "ok", TtlAnswer(c.exp, clock))
       \/ c.op \in {"health", "stats", "snapshot"} /\ Answer(i, "ok", None)
       \/ c.op = "snapshot" /\ "save" \in Failures /\ Answer(i, "internal", None)
    /\ UNCHANGED kvVars

-----------------------------------------------------------------------------
(* The caller's half *)

\* Exists: a value that is not nil; an empty one is decoded to an empty slice.
Found(c) == c.code = "ok"

\* Get and Exists take "not found" for an answer, TTL for an error.
IsError(c) ==
    c.code # "ok" /\ ~(c.op \in {"get", "exists"} /\ c.code = "notFound")

\* What the SDK's method returns.
Result(c) ==
    IF IsError(c) THEN None
    ELSE IF c.op = "get" THEN IF Found(c) THEN c.entry.val ELSE Nil
    ELSE IF c.op = "exists" THEN Found(c) ELSE c.data

Return(i) ==
    LET c == calls[i] IN
    /\ Waiting(c)
    /\ c.at = "answered"
    /\ calls' = [calls EXCEPT ![i].err = IF IsError(c) THEN c.code ELSE "none",
                              ![i].res = Result(c)]
    /\ UNCHANGED kvVars

\* The timeout, or a connection that breaks: whatever the server's half does.
GiveUp(i) ==
    /\ Waiting(calls[i])
    /\ calls' = [calls EXCEPT ![i].err = "transport"]
    /\ UNCHANGED kvVars

-----------------------------------------------------------------------------

Serve(i) == Refuse(i) \/ Begin(i) \/ Miss(i) \/ Full(i) \/ Write(i) \/ Reply(i)

\* The store goes on by itself: deadlines lapse, time passes.
StoreStep ==
    /\ \/ \E d \in deadlines : Lapse(d[1], d[2])
       \/ clock < MaxTime /\ Advance
    /\ UNCHANGED calls

CallStep ==
    \/ StoreStep
    \/ \E i \in Made : Serve(i) \/ Return(i) \/ GiveUp(i)

ClientInit == KVInit /\ calls = <<>>

Ops == Writes \cup Reads \cup {"health", "stats", "snapshot"}

ClientTypeOK ==
    \A i \in Made :
        /\ calls[i].op \in Ops
        /\ calls[i].at \in {"sent", "begun", "answered"}
        /\ calls[i].ttl \in Nat /\ calls[i].exp \in Nat
        /\ calls[i].at = "begun" /\ calls[i].op \in Reads =>
               calls[i].entry # None
=============================================================================
