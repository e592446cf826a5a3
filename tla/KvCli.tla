-------------------------------- MODULE KvCli --------------------------------
(***************************************************************************)
(* The prompt of cmd/kvcli/main.go, beside Go programs that use the SDK:   *)
(* a Health call first, then one command at a time until exit.             *)
(***************************************************************************)
EXTENDS Client

CONSTANTS
    Cli,       \* the caller that is the prompt
    Lines,     \* what is typed: [op, key, val, rest], rest the words after val
    Programs   \* what the other callers ask: [op, key, val, via, n]

VARIABLE prompt  \* "new", "ready" for a line, or "gone"

vars == <<cliVars, prompt>>

\* handleSet: the words after the value. A lifetime is what follows the word
\* "ttl", and only there; anything else is passed over.
TypedSeconds(rest) ==
    IF Len(rest) >= 2 /\ rest[1] = "ttl" THEN rest[2] ELSE 0

ASSUME KvCliAssumption ==
    /\ Cli \in Caller
    /\ \A ln \in Lines : /\ ln.op \in Ops /\ ln.key \in Key /\ ln.val \in Value
                         /\ TypedSeconds(ln.rest) \in Int
    /\ \A q \in Programs : /\ q.op \in Ops /\ q.key \in Key /\ q.val \in Value
                           /\ q.via \in {"sdk", "gui", "cli"} /\ q.n \in Int

\* run: Health, before anything is read.
Connect ==
    /\ prompt = "new"
    /\ Made = {} \/ \A i \in Made : calls[i].by # Cli
    /\ Issue(Cli, "health", None, None, 0, 0)
    /\ UNCHANGED <<kvVars, prompt>>

Connected ==
    /\ prompt = "new"
    /\ \E i \in Made :
        /\ calls[i].by = Cli /\ ~Waiting(calls[i])
        /\ prompt' = IF calls[i].err = "none" THEN "ready" ELSE "gone"
    /\ UNCHANGED cliVars

\* A line read while no command is under way. A lifetime that is not a number
\* never gets here.
Command ==
    /\ prompt = "ready"
    /\ \E ln \in Lines :
         \/ /\ ln.op = "set"
            /\ LET n == TypedSeconds(ln.rest)
               IN  Issue(Cli, "set", ln.key, ln.val, Duration("cli", n), n * Second)
         \/ ln.op # "set" /\ Issue(Cli, ln.op, ln.key, None, 0, 0)
    /\ UNCHANGED <<kvVars, prompt>>

Exit ==
    /\ prompt = "ready"
    /\ Free(Cli)
    /\ prompt' = "gone"
    /\ UNCHANGED cliVars

\* A Go program, or SetKey of the App, uses the SDK.
Program(p) ==
    /\ \E q \in Programs :
         Issue(p, q.op, q.key, q.val, Duration(q.via, q.n),
               IF q.via = "sdk" THEN q.n ELSE q.n * Second)
    /\ UNCHANGED <<kvVars, prompt>>

Next ==
    \/ Connect \/ Connected \/ Command \/ Exit
    \/ \E p \in Caller \ {Cli} : Program(p)
    \/ CallStep /\ UNCHANGED prompt

Init == ClientInit /\ prompt = "new"

Spec == Init /\ [][Next]_vars

CTypeOK ==
    /\ ClientTypeOK
    /\ prompt \in {"new", "ready", "gone"}
    /\ prompt = "ready" => \E i \in Made : calls[i].by = Cli

-----------------------------------------------------------------------------
(* What callers may rely on *)

WriteOf(c, k) == c.op \in Writes /\ c.key = k

\* Only p writes k, and never with a lifetime.
Owns(p, k) ==
    \A i \in Made : WriteOf(calls[i], k) => calls[i].by = p /\ calls[i].ttl = 0

\* What a read finds after this write.
Leaves(c) == IF c.op = "set" THEN c.val ELSE Nil

\* What call j may find under k: what the last acknowledged write before it
\* left, or any write that was given up or failed in the server: such a write
\* may have been done, and it may be done after a later one.
Explains(j, k) ==
    LET before(err) == {i \in 1 .. j - 1 : WriteOf(calls[i], k)
                                            /\ calls[i].err \in err}
        acked == before({"none"})
    IN  {IF acked = {} THEN Nil ELSE Leaves(calls[Max(acked)])}
        \cup {Leaves(calls[i]) : i \in before({"transport", "internal"})}

\* client.go:62-132, http_handler.go:52-119: someone who alone writes a key
\* reads his own writes, an empty value and a deleted key told apart, and a
\* write that was refused is never found; the exceptions are the writes whose
\* outcome he was not told.
ReadsExplained ==
    \A j \in Made :
        LET g == calls[j]
        IN  g.err = "none" /\ Owns(g.by, g.key) =>
              /\ g.op = "get" => g.res \in Explains(j, g.key)
              /\ g.op = "exists" =>
                    \E found \in Explains(j, g.key) : g.res = (found # Nil)

Representable(d) ==
    d % Second = 0 /\ d \in -MaxDuration .. MaxDuration

\* spec.md:11, through kvcli (main.go:104-111), the App (app.go:57-60), the
\* SDK (client.go:67-69), the handler (http_handler.go:65-68) and Service
\* (service.go:156-159): a Set that succeeded with a lifetime of whole seconds
\* that fits a Duration expires, counted in milliseconds, that long after a
\* moment of the call; one without a lifetime never.
LifetimeKept ==
    \A i \in Made :
        LET c == calls[i]
        IN  c.op = "set" /\ c.err = "none" /\ Representable(c.asked) =>
              IF c.asked <= 0 THEN c.exp = 0
              ELSE c.born + c.asked < c.exp + Milli /\ c.exp <= clock + c.asked

\* http_handler.go:97-99 rounds the time left down, service.go:255-261 up: both
\* are within a second of what was left at some moment of the call, ttl never
\* reports too little and get never too much; and an entry without an expiry
\* is told from one with.
RemainingTrue ==
    \A i \in Made :
        LET c == calls[i]
            n == c.data
        IN  c.err = "none" /\ c.op \in {"get", "ttl"} /\ n # None =>
              IF c.exp = 0 THEN n = IF c.op = "get" THEN 0 ELSE -1
              ELSE IF n < 0 THEN c.exp < clock
              ELSE IF c.op = "get"
              THEN n * Second <= Max({c.exp - c.born, 0})
                   /\ c.exp - clock < (n + 1) * Second
              ELSE c.exp - clock <= n * Second
                   /\ (n - 1) * Second < Max({c.exp - c.born, 0})
=============================================================================
