-------------------------------- MODULE GuiApp --------------------------------
(***************************************************************************)
(* The desktop application: App of cmd/kvgui/macos/app.go (windows/app.go  *)
(* is the same file) and the connection bar of frontend/src/main.js.       *)
(*                                                                         *)
(* The page runs in one thread; each click that calls a bound method gives *)
(* a goroutine of its own in the App and a promise that is resolved later. *)
(* Nothing orders the goroutines, nor the promises, and a.client has no    *)
(* lock.  calls holds the calls in the order of the clicks; at is          *)
(*                                                                         *)
(*   begin    the goroutine has not read a.client yet                      *)
(*   store    Connect, after a good Health                                 *)
(*   use      an operation, after its test of a.client                     *)
(*   remote   an operation waits for the server it was sent to             *)
(*   returned, shown   before and after the promise's callback             *)
(***************************************************************************)
EXTENDS Integers, Sequences, FiniteSets

CONSTANTS
    Server,    \* the addresses a user may connect to
    None,      \* a nil client
    MaxClicks  \* BOUND: clicks in one behaviour

ASSUME GuiAssumption ==
    /\ None \notin Server
    /\ MaxClicks \in Nat

VARIABLES
    client,  \* App.client: the server it speaks to
    lit,     \* the indicator is green, and Disconnect the enabled button
    calls,   \* the bound calls
    met      \* history: <<b, i>> when call b, on the bar, overlapped call i

vars == <<client, lit, calls, met>>

Made == DOMAIN calls

Pending(c) == c.at # "shown"

Bar == {"connect", "disconnect"}

\* res: of a bar call "ok" or "error"; of an operation "answer", what the SDK
\* returned of the server or the network, "off", "not connected", or the panic
\* of a method called on a nil client.
Call == [op : Bar \cup {"op"},
         to : Server \cup {None},
         at : {"begin", "store", "use", "remote", "returned", "shown"},
         res : {"none", "ok", "error", "answer", "off", "panic"}]

-----------------------------------------------------------------------------
(* The page *)

BarPending == \E i \in Made : calls[i].op \in Bar /\ Pending(calls[i])

Click(op, s) ==
    /\ Len(calls) < MaxClicks
    /\ calls' = Append(calls, [op |-> op, to |-> s, at |-> "begin", res |-> "none"])
    /\ LET n == Len(calls) + 1
           Now == {i \in Made : Pending(calls[i])}
       IN  met' = met \cup {<<n, i>> : i \in IF op \in Bar THEN Now ELSE {}}
                      \cup {<<i, n>> : i \in {j \in Now : calls[j].op \in Bar}}
    /\ UNCHANGED <<client, lit>>

\* setConnected leaves one of the two buttons enabled.
ClickConnect    == ~lit /\ \E s \in Server : Click("connect", s)
ClickDisconnect == lit /\ Click("disconnect", None)

\* Execute, Refresh and Snapshot are never disabled.
ClickOperation == Click("op", None)

\* Mutant: the indicator is set whether or not Connect succeeded.
ShowAnyway(i) ==
    LET c == calls[i] IN
    /\ c.at = "returned"
    /\ lit' = IF c.op \in Bar THEN c.op = "connect" ELSE lit
    /\ calls' = [calls EXCEPT ![i].at = "shown"]
    /\ UNCHANGED <<client, met>>

\* The callback of the promise.
Show(i) ==
    LET c == calls[i] IN
    /\ c.at = "returned"
    /\ lit' = IF c.op \in Bar /\ c.res = "ok" THEN c.op = "connect" ELSE lit
    /\ calls' = [calls EXCEPT ![i].at = "shown"]
    /\ UNCHANGED <<client, met>>

-----------------------------------------------------------------------------
(* The App *)

Finish(i, res) == calls' = [calls EXCEPT ![i].at = "returned", ![i].res = res]

\* Mutant: the client is stored before Health is asked, and kept.
StoreFirst(i) ==
    /\ calls[i].op = "connect" /\ calls[i].at = "begin"
    /\ \/ calls' = [calls EXCEPT ![i].at = "store"]
       \/ Finish(i, "error")
    /\ client' = calls[i].to
    /\ UNCHANGED <<lit, met>>

\* Connect: Health answers, or not.
Health(i) ==
    /\ calls[i].op = "connect" /\ calls[i].at = "begin"
    /\ \/ calls' = [calls EXCEPT ![i].at = "store"]
       \/ Finish(i, "error")
    /\ UNCHANGED <<client, lit, met>>

Connect(i) ==
    /\ calls[i].op = "connect" /\ calls[i].at = "store"
    /\ client' = calls[i].to
    /\ Finish(i, "ok")
    /\ UNCHANGED <<lit, met>>

Disconnect(i) ==
    /\ calls[i].op = "disconnect" /\ calls[i].at = "begin"
    /\ client' = None
    /\ Finish(i, "ok")
    /\ UNCHANGED <<lit, met>>

\* if a.client == nil
Check(i) ==
    /\ calls[i].op = "op" /\ calls[i].at = "begin"
    /\ IF client = None THEN Finish(i, "off")
       ELSE calls' = [calls EXCEPT ![i].at = "use", ![i].to = client]
    /\ UNCHANGED <<client, lit, met>>

\* Mutant: the method is called on whatever the second read finds.
UseUnguarded(i) ==
    /\ calls[i].op = "op" /\ calls[i].at = "use"
    /\ calls' = [calls EXCEPT ![i].at = "remote", ![i].to = client]
    /\ UNCHANGED <<client, lit, met>>

\* a.client again: what the test saw, if the compiler kept it, or what is
\* there by now; the read is not synchronised with Connect and Disconnect.
Use(i) ==
    /\ calls[i].op = "op" /\ calls[i].at = "use"
    /\ \E s \in {calls[i].to, client} :
         IF s = None THEN Finish(i, "panic")
         ELSE calls' = [calls EXCEPT ![i].at = "remote", ![i].to = s]
    /\ UNCHANGED <<client, lit, met>>

\* The SDK's call returns, at the latest when its timeout is over.
Remote(i) ==
    /\ calls[i].at = "remote"
    /\ Finish(i, "answer")
    /\ UNCHANGED <<client, lit, met>>

Step(i) ==
    \/ Health(i) \/ Connect(i) \/ Disconnect(i)
    \/ Check(i) \/ Use(i) \/ Remote(i) \/ Show(i)

Init == client = None /\ lit = FALSE /\ calls = <<>> /\ met = {}

Next ==
    \/ ClickConnect \/ ClickDisconnect \/ ClickOperation
    \/ \E i \in Made : Step(i)

Spec == Init /\ [][Next]_vars

GTypeOK ==
    /\ client \in Server \cup {None}
    /\ lit \in BOOLEAN
    /\ calls \in Seq(Call)
    /\ met \subseteq Made \X Made
    /\ \A i \in Made :
        /\ calls[i].op = "connect" => calls[i].to # None
        /\ calls[i].at = "store" => calls[i].op = "connect"
        /\ calls[i].at \in {"use", "remote"} =>
               calls[i].op = "op" /\ calls[i].to # None

-----------------------------------------------------------------------------
(* Properties *)

\* Bar call b has succeeded; 0 stands for the start.
Stored(b) == b = 0 \/ (calls[b].op \in Bar /\ calls[b].res = "ok")

\* The client that it leaves.
Target(b) == IF b > 0 /\ calls[b].op = "connect" THEN calls[b].to ELSE None

\* It was over when call i began.
Before(b, i) == b < i /\ <<b, i>> \notin met

\* No other that succeeded began after it was over.
Current(b) == Stored(b) /\ ~\E k \in Made : Stored(k) /\ Before(b, k)

\* spec.md:32: whenever no Connect or Disconnect is under way, the indicator says
\* whether the App is connected, in whatever order goroutines and promises ran,
\* unless the last to succeed were a Connect and a Disconnect that overlapped;
\* the next to succeed by itself puts it right.
IndicatorTrue ==
    ~BarPending =>
        \/ lit <=> client # None
        \/ \E b, k \in Made :
              /\ Current(b) /\ calls[b].op = "connect"
              /\ Current(k) /\ calls[k].op = "disconnect"

\* Another call that succeeded lies between the two.
Replaced(b, i) ==
    \E k \in Made : Stored(k) /\ Before(b, k) /\ Before(k, i)

\* Call i may find the client s: one that overlaps it left s, or one before it
\* did which none that lies between the two replaced.
Finds(i, s) ==
    \E b \in 0 .. Len(calls) :
        /\ Stored(b) /\ Target(b) = s
        /\ <<b, i>> \in met \/ (b < i /\ ~Replaced(b, i))

\* app_test.go:27-93, app.go:52-149: whatever overlaps, an operation goes to a
\* server that Connect reached and that was not given up before the operation
\* began, or is refused because of a Disconnect or the want of a Connect; and it
\* panics only if a Disconnect overlaps it.
OperationsFollow ==
    \A i \in Made :
        LET c == calls[i]
        IN  c.op = "op" /\ c.at \in {"returned", "shown"} =>
                \/ c.res = "answer" /\ c.to # None /\ Finds(i, c.to)
                \/ c.res = "off" /\ Finds(i, None)
                \/ /\ c.res = "panic"
                   /\ \E b \in Made : <<b, i>> \in met /\ calls[b].op = "disconnect"
=============================================================================
