------------------------------ MODULE GuiProofs ------------------------------
(***************************************************************************)
(* Theorems about the desktop application, for any servers and any number  *)
(* of clicks: what the indicator shows and what an operation finds is what *)
(* a call of the connection bar left that no later one replaced.           *)
(***************************************************************************)
EXTENDS GuiApp, TLAPS

USE DEF Made, Bar

\* Of two calls that were pending together, the one on the bar met the other.
OverlapsSeen ==
    \A i, j \in Made : i < j /\ Pending(calls[i]) =>
        /\ calls[i].op \in Bar => <<i, j>> \in met
        /\ calls[j].op \in Bar => <<j, i>> \in met

\* A result comes with the return.
ResultsLate ==
    \A i \in Made : calls[i].at \notin {"returned", "shown"} =>
        calls[i].res = "none"

\* The client is one that a call of the bar left and no later one replaced.
ClientSeen ==
    \E b \in 0 .. Len(calls) :
        /\ Stored(b) /\ client = Target(b)
        /\ \A k \in Made : Stored(k) => ~Before(b, k)

\* The page knows that call b of the bar has succeeded.
Known(b) == Stored(b) /\ (b > 0 => calls[b].at = "shown")

\* So with the indicator and the calls the page knows of.
LitSeen ==
    \E b \in 0 .. Len(calls) :
        /\ Known(b) /\ (lit <=> b > 0 /\ calls[b].op = "connect")
        /\ \A k \in Made : Known(k) => ~Before(b, k)

\* What an operation has found so far, and why it may find no client any more.
OperationSeen(i) ==
    LET c == calls[i]
    IN  /\ c.at \in {"use", "remote"} => Finds(i, c.to)
        /\ c.at = "use" /\ client = None =>
               \E b \in Made : <<b, i>> \in met /\ calls[b].op = "disconnect"
        /\ c.at \in {"returned", "shown"} =>
               \/ c.res = "answer" /\ c.to # None /\ Finds(i, c.to)
               \/ c.res = "off" /\ Finds(i, None)
               \/ /\ c.res = "panic"
                  /\ \E b \in Made : <<b, i>> \in met /\ calls[b].op = "disconnect"

OperationsSeen == \A i \in Made : calls[i].op = "op" => OperationSeen(i)

GInv ==
    /\ GTypeOK /\ OverlapsSeen /\ ResultsLate
    /\ ClientSeen /\ LitSeen /\ OperationsSeen

-----------------------------------------------------------------------------
(* What a step looks like *)

\* A call that moves keeps its place, its kind and, on the bar, its server.
Moves(i) ==
    /\ Pending(calls[i])
    /\ Len(calls') = Len(calls)
    /\ DOMAIN calls' = DOMAIN calls
    /\ \A j \in Made : j # i => calls'[j] = calls[j]
    /\ calls'[i].op = calls[i].op
    /\ calls[i].op \in Bar => calls'[i].to = calls[i].to
    /\ met' = met

LEMMA TypedCalls ==
    ASSUME GTypeOK
    PROVE  /\ Len(calls) \in Nat
           /\ Made = 1 .. Len(calls)
           /\ \A i \in Made : calls[i] \in Call
  BY DEF GTypeOK

\* An update of one call.
LEMMA OneCall ==
    ASSUME GTypeOK, NEW i \in Made, NEW c \in Call,
           calls' = [calls EXCEPT ![i] = c],
           c.op = calls[i].op, calls[i].op \in Bar => c.to = calls[i].to,
           Pending(calls[i]), met' = met
    PROVE  Moves(i) /\ calls' \in Seq(Call) /\ calls'[i] = c
<1>1. /\ calls' \in Seq(Call) /\ Len(calls') = Len(calls)
      /\ DOMAIN calls' = DOMAIN calls
      /\ \A j \in Made : calls'[j] = IF j = i THEN c ELSE calls[j]
  BY DEF GTypeOK
<1> QED
  BY <1>1 DEF Moves

\* What such an update has to show of the call.
LEMMA TypeMoves ==
    ASSUME GTypeOK, NEW i \in Made, Moves(i), calls' \in Seq(Call),
           client' \in Server \cup {None}, lit' \in BOOLEAN,
           calls'[i].op = "connect" => calls'[i].to # None,
           calls'[i].at = "store" => calls'[i].op = "connect",
           calls'[i].at \in {"use", "remote"} =>
               calls'[i].op = "op" /\ calls'[i].to # None
    PROVE  GTypeOK'
  BY DEF GTypeOK, Moves

\* A call is a record of its four fields.
LEMMA CallFields ==
    ASSUME NEW c \in Call, NEW to \in Server \cup {None},
           NEW at \in {"store", "use", "remote", "returned", "shown"},
           NEW res \in {"none", "ok", "error", "answer", "off", "panic"}
    PROVE  /\ [c EXCEPT !.at = at] \in Call
           /\ [c EXCEPT !.at = at, !.res = res] \in Call
           /\ [c EXCEPT !.at = at, !.to = to] \in Call
  BY DEF Call

\* What the steps do to the call that takes them, the client and the page.
LEMMA StepMoves ==
    ASSUME GTypeOK, NEW i \in Made, Step(i)
    PROVE  Moves(i) /\ GTypeOK'
<1> DEFINE old == calls[i]
<1>0. old \in Call
  BY TypedCalls
<1>1. ASSUME Health(i)
      PROVE  Moves(i) /\ GTypeOK'
  <2>1. PICK c \in {[old EXCEPT !.at = "store"],
                    [old EXCEPT !.at = "returned", !.res = "error"]} :
            calls' = [calls EXCEPT ![i] = c]
    BY <1>0, <1>1 DEF Health, Finish
  <2>2. c \in Call /\ c.op = old.op /\ c.to = old.to /\ c.at \in {"store", "returned"}
    BY <1>0, <2>1 DEF Call
  <2>3. old.op = "connect" /\ Pending(old)
    BY <1>1 DEF Health, Pending
  <2>4. Moves(i) /\ calls' \in Seq(Call) /\ calls'[i] = c
    BY <1>1, <2>1, <2>2, <2>3, OneCall DEF Health
  <2> QED
    BY <1>1, <2>2, <2>3, <2>4 DEF Health, GTypeOK, Moves
<1>2. ASSUME Connect(i)
      PROVE  Moves(i) /\ GTypeOK'
  <2>1. PICK c \in {[old EXCEPT !.at = "returned", !.res = "ok"]} :
            calls' = [calls EXCEPT ![i] = c]
    BY <1>0, <1>2 DEF Connect, Finish
  <2>2. c \in Call /\ c.op = old.op /\ c.to = old.to /\ c.at = "returned" /\ old.to \in Server
    BY <1>0, <1>2, <2>1 DEF Call, GTypeOK, Connect
  <2>3. old.op = "connect" /\ Pending(old)
    BY <1>2 DEF Connect, Pending
  <2>4. Moves(i) /\ calls' \in Seq(Call) /\ calls'[i] = c
    BY <1>2, <2>1, <2>2, <2>3, OneCall DEF Connect
  <2> QED
    BY <1>2, <2>2, <2>3, <2>4, TypeMoves, GuiAssumption DEF Connect, GTypeOK
<1>3. ASSUME Disconnect(i)
      PROVE  Moves(i) /\ GTypeOK'
  <2>1. PICK c \in {[old EXCEPT !.at = "returned", !.res = "ok"]} :
            calls' = [calls EXCEPT ![i] = c]
    BY <1>0, <1>3 DEF Disconnect, Finish
  <2>2. c \in Call /\ c.op = old.op /\ c.to = old.to /\ c.at = "returned"
    BY <1>0, <1>3, <2>1 DEF Call, GTypeOK, Disconnect
  <2>3. old.op = "disconnect" /\ Pending(old)
    BY <1>3 DEF Disconnect, Pending
  <2>4. Moves(i) /\ calls' \in Seq(Call) /\ calls'[i] = c
    BY <1>3, <2>1, <2>2, <2>3, OneCall DEF Disconnect
  <2> QED
    BY <1>3, <2>2, <2>3, <2>4, TypeMoves, GuiAssumption DEF Disconnect, GTypeOK
<1>4. ASSUME Check(i)
      PROVE  Moves(i) /\ GTypeOK'
  <2>1. PICK c \in {[old EXCEPT !.at = "returned", !.res = "off"],
                    [old EXCEPT !.at = "use", !.to = client]} :
            calls' = [calls EXCEPT ![i] = c] /\ (c.at = "use" => c.to # None)
    BY <1>0, <1>4 DEF Check, Finish, Call, GTypeOK
  <2>2. c \in Call /\ c.op = old.op /\ c.at \in {"returned", "use"}
        /\ (c.at = "use" => c.to # None)
    <3>1. client \in Server \cup {None}
      BY DEF GTypeOK
    <3>2. ASSUME NEW to \in {old.to, client}, c = [old EXCEPT !.at = "use", !.to = to]
          PROVE  c \in Call /\ c.op = old.op /\ c.at = "use"
      BY <1>0, <3>1, <3>2 DEF Call
    <3>3. ASSUME c = [old EXCEPT !.at = "returned", !.res = "off"]
          PROVE  c \in Call /\ c.op = old.op /\ c.at = "returned"
      BY <1>0, <3>3 DEF Call
    <3> QED
      BY <2>1, <3>2, <3>3
  <2>3. old.op = "op" /\ Pending(old)
    BY <1>4 DEF Check, Pending
  <2>4. Moves(i) /\ calls' \in Seq(Call) /\ calls'[i] = c
    BY <1>4, <2>1, <2>2, <2>3, OneCall DEF Check
  <2> QED
    BY <1>4, <2>2, <2>3, <2>4, TypeMoves, GuiAssumption DEF Check, GTypeOK
<1>5. ASSUME Use(i)
      PROVE  Moves(i) /\ GTypeOK'
  <2>1. PICK c \in {[old EXCEPT !.at = "returned", !.res = "panic"],
                    [old EXCEPT !.at = "remote", !.to = old.to],
                    [old EXCEPT !.at = "remote", !.to = client]} :
            calls' = [calls EXCEPT ![i] = c] /\ (c.at = "remote" => c.to # None)
    BY <1>0, <1>5 DEF Use, Finish, Call, GTypeOK
  <2>2. c \in Call /\ c.op = old.op /\ c.at \in {"returned", "remote"}
        /\ (c.at = "remote" => c.to # None)
    <3>1. client \in Server \cup {None}
      BY DEF GTypeOK
    <3>2. ASSUME NEW to \in {old.to, client}, c = [old EXCEPT !.at = "remote", !.to = to]
          PROVE  c \in Call /\ c.op = old.op /\ c.at = "remote"
      BY <1>0, <3>1, <3>2 DEF Call
    <3>3. ASSUME c = [old EXCEPT !.at = "returned", !.res = "panic"]
          PROVE  c \in Call /\ c.op = old.op /\ c.at = "returned"
      BY <1>0, <3>3 DEF Call
    <3> QED
      BY <2>1, <3>2, <3>3
  <2>3. old.op = "op" /\ Pending(old)
    BY <1>5 DEF Use, Pending
  <2>4. Moves(i) /\ calls' \in Seq(Call) /\ calls'[i] = c
    BY <1>5, <2>1, <2>2, <2>3, OneCall DEF Use
  <2> QED
    BY <1>5, <2>2, <2>3, <2>4, TypeMoves, GuiAssumption DEF Use, GTypeOK
<1>6. ASSUME Remote(i)
      PROVE  Moves(i) /\ GTypeOK'
  <2>1. PICK c \in {[old EXCEPT !.at = "returned", !.res = "answer"]} :
            calls' = [calls EXCEPT ![i] = c]
    BY <1>0, <1>6 DEF Remote, Finish
  <2>2. c \in Call /\ c.op = old.op /\ c.to = old.to /\ c.at = "returned"
    BY <1>0, <1>6, <2>1 DEF Call, GTypeOK, Remote
  <2>3. TRUE /\ Pending(old)
    BY <1>6 DEF Remote, Pending
  <2>4. Moves(i) /\ calls' \in Seq(Call) /\ calls'[i] = c
    BY <1>6, <2>1, <2>2, <2>3, OneCall DEF Remote
  <2> QED
    BY <1>6, <2>2, <2>3, <2>4, TypeMoves, GuiAssumption DEF Remote, GTypeOK
<1>7. ASSUME Show(i)
      PROVE  Moves(i) /\ GTypeOK'
  <2>1. PICK c \in {[old EXCEPT !.at = "shown"]} :
            calls' = [calls EXCEPT ![i] = c]
    BY <1>0, <1>7 DEF Show, Finish
  <2>2. c \in Call /\ c.op = old.op /\ c.to = old.to /\ c.at = "shown"
    BY <1>0, <1>7, <2>1 DEF Call, GTypeOK, Show
  <2>3. TRUE /\ Pending(old)
    BY <1>7 DEF Show, Pending
  <2>4. Moves(i) /\ calls' \in Seq(Call) /\ calls'[i] = c
    BY <1>7, <2>1, <2>2, <2>3, OneCall DEF Show
  <2> QED
    BY <1>7, <2>2, <2>3, <2>4, TypeMoves, GuiAssumption DEF Show, GTypeOK
<1> QED
  BY <1>1, <1>2, <1>3, <1>4, <1>5, <1>6, <1>7 DEF Step

\* A click adds a call.
Grows(op, s) ==
    /\ Len(calls') = Len(calls) + 1
    /\ DOMAIN calls' = 1 .. Len(calls) + 1
    /\ \A j \in Made : calls'[j] = calls[j]
    /\ calls'[Len(calls) + 1] =
          [op |-> op, to |-> s, at |-> "begin", res |-> "none"]
    /\ met' \subseteq (DOMAIN calls') \X (DOMAIN calls')
    /\ \A i, j \in Made : <<i, j>> \in met' <=> <<i, j>> \in met
    /\ client' = client /\ lit' = lit

LEMMA ClickGrows ==
    ASSUME GTypeOK, NEW op \in Bar \cup {"op"}, NEW s \in Server \cup {None},
           op = "connect" => s # None, Click(op, s)
    PROVE  Grows(op, s) /\ GTypeOK'
<1> DEFINE c == [op |-> op, to |-> s, at |-> "begin", res |-> "none"]
<1>1. c \in Call
  BY DEF Call
<1>2. calls' = Append(calls, c)
  BY DEF Click
<1>3. /\ calls' \in Seq(Call)
      /\ Len(calls') = Len(calls) + 1
      /\ DOMAIN calls' = 1 .. Len(calls) + 1
      /\ \A j \in Made : calls'[j] = calls[j]
      /\ calls'[Len(calls) + 1] = c
  BY <1>1, <1>2, TypedCalls DEF GTypeOK
<1>4. /\ met' \subseteq (Made \cup {Len(calls) + 1}) \X (Made \cup {Len(calls) + 1})
      /\ \A i, j \in Made : <<i, j>> \in met' <=> <<i, j>> \in met
  BY TypedCalls DEF Click, GTypeOK
<1>5. met' \subseteq (DOMAIN calls') \X (DOMAIN calls')
  <2>1. Made \cup {Len(calls) + 1} = DOMAIN calls'
    BY <1>3, TypedCalls
  <2> QED
    BY <1>4, <2>1
<1>6. Grows(op, s)
  BY <1>3, <1>4, <1>5 DEF Grows, Click
<1>7. ASSUME NEW j \in DOMAIN calls'
      PROVE  /\ calls'[j].op = "connect" => calls'[j].to # None
             /\ calls'[j].at = "store" => calls'[j].op = "connect"
             /\ calls'[j].at \in {"use", "remote"} =>
                    calls'[j].op = "op" /\ calls'[j].to # None
  BY <1>3, TypedCalls DEF GTypeOK
<1> QED
  BY <1>3, <1>5, <1>6, <1>7 DEF GTypeOK, Grows

\* Every step of Next but a stutter is one of these two.
LEMMA NextCases ==
    ASSUME GTypeOK, [Next]_vars
    PROVE  \/ UNCHANGED vars
           \/ \E op \in Bar \cup {"op"}, s \in Server \cup {None} :
                 (op = "connect" => s # None) /\ Click(op, s)
           \/ \E i \in Made : Step(i)
  BY GuiAssumption DEF Next, ClickConnect, ClickDisconnect, ClickOperation

-----------------------------------------------------------------------------
(* The history of overlaps *)

LEMMA OverlapsStep ==
    ASSUME GTypeOK, OverlapsSeen, NEW i \in Made, Moves(i)
    PROVE  OverlapsSeen'
<1> SUFFICES ASSUME NEW j \in Made, NEW k \in Made, j < k, Pending(calls'[j])
             PROVE  /\ calls'[j].op \in Bar => <<j, k>> \in met
                    /\ calls'[k].op \in Bar => <<k, j>> \in met
  BY DEF OverlapsSeen, Moves
<1>1. calls'[j].op = calls[j].op /\ calls'[k].op = calls[k].op
  BY DEF Moves
<1>2. Pending(calls[j])
  BY DEF Moves
<1> QED
  BY <1>1, <1>2 DEF OverlapsSeen

LEMMA OverlapsClick ==
    ASSUME GTypeOK, OverlapsSeen,
           NEW op \in Bar \cup {"op"}, NEW s \in Server \cup {None},
           Click(op, s), Grows(op, s)
    PROVE  OverlapsSeen'
<1> DEFINE n == Len(calls) + 1
<1>0. n \in Nat /\ Made = 1 .. Len(calls) /\ DOMAIN calls' = 1 .. n /\ n - 1 = Len(calls)
  BY TypedCalls DEF Grows
<1> SUFFICES ASSUME NEW j \in DOMAIN calls', NEW k \in DOMAIN calls',
                    j < k, Pending(calls'[j])
             PROVE  /\ calls'[j].op \in Bar => <<j, k>> \in met'
                    /\ calls'[k].op \in Bar => <<k, j>> \in met'
  BY DEF OverlapsSeen
<1>1. j \in Made /\ calls'[j] = calls[j]
  BY <1>0 DEF Grows
<1>2. CASE k \in Made
  <2>1. calls'[k] = calls[k]
    BY <1>2 DEF Grows
  <2> QED
    BY <1>1, <1>2, <2>1 DEF OverlapsSeen, Grows
<1>3. CASE k = n
  <2>1. calls'[k].op = op
    BY <1>3 DEF Grows
  <2>2. calls[j].op \in Bar => <<j, k>> \in met'
    BY <1>1, <1>3 DEF Click
  <2>3. op \in Bar => <<k, j>> \in met'
    BY <1>1, <1>3 DEF Click
  <2> QED
    BY <1>1, <2>1, <2>2, <2>3
<1> QED
  BY <1>0, <1>2, <1>3

LEMMA ResultsStep ==
    ASSUME GTypeOK, ResultsLate, NEW i \in Made, Step(i), Moves(i)
    PROVE  ResultsLate'
<1>1. calls'[i].at \notin {"returned", "shown"} => calls'[i].res = "none"
  <2>1. calls[i] \in Call
    BY TypedCalls
  <2> QED
    BY <2>1 DEF Step, Health, Connect, Disconnect, Check, Use, Remote, Show, Finish,
                ResultsLate, GTypeOK, Call
<1> QED
  BY <1>1 DEF ResultsLate, Moves

LEMMA ResultsClick ==
    ASSUME GTypeOK, ResultsLate, NEW op, NEW s, Grows(op, s)
    PROVE  ResultsLate'
<1> SUFFICES ASSUME NEW j \in DOMAIN calls',
                    calls'[j].at \notin {"returned", "shown"}
             PROVE  calls'[j].res = "none"
  BY DEF ResultsLate
<1>1. CASE j \in Made
  BY <1>1 DEF ResultsLate, Grows
<1>2. CASE j = Len(calls) + 1
  BY <1>2 DEF Grows
<1> QED
  BY <1>1, <1>2, TypedCalls DEF Grows

-----------------------------------------------------------------------------
(* What a call may find *)

\* The call that moves, if it succeeds, meets every later one and every earlier
\* one that is pending, so it replaces nothing that another call has found.
LEMMA StoredMoves ==
    ASSUME GTypeOK, OverlapsSeen, NEW i \in Made, Moves(i)
    PROVE  \A j, k \in Made : Stored(k)' /\ ~Stored(k) /\ j > k => ~Before(k, j)
<1> SUFFICES ASSUME NEW j \in Made, NEW k \in Made, Stored(k)', ~Stored(k), j > k
             PROVE  ~Before(k, j)
  OBVIOUS
<1>1. k = i /\ calls[k].op \in Bar
  BY DEF Moves, Stored
<1> QED
  BY <1>1 DEF OverlapsSeen, Before, Moves

\* What has succeeded stays.
LEMMA StoredStays ==
    ASSUME GTypeOK, ResultsLate, NEW i \in Made, Step(i), Moves(i)
    PROVE  \A b \in 0 .. Len(calls) : Stored(b) => Stored(b)' /\ Target(b)' = Target(b)
<1>1. Made = 1 .. Len(calls) /\ Len(calls) \in Nat /\ calls[i] \in Call
  BY TypedCalls
<1>2. calls[i].op \in Bar /\ calls[i].res = "ok" => calls'[i].res = "ok"
  BY <1>1 DEF Step, Health, Connect, Disconnect, Check, Use, Remote, Show, Finish,
              ResultsLate, Call, GTypeOK
<1> QED
  BY <1>1, <1>2 DEF Stored, Target, Moves

LEMMA FindsMoves ==
    ASSUME GTypeOK, OverlapsSeen, ResultsLate, NEW i \in Made, Step(i), Moves(i),
           NEW j \in Made, NEW s, Finds(j, s)
    PROVE  Finds(j, s)'
<1>1. PICK b \in 0 .. Len(calls) :
          /\ Stored(b) /\ Target(b) = s
          /\ <<b, j>> \in met \/ (b < j /\ ~Replaced(b, j))
  BY DEF Finds
<1>2. b \in 0 .. Len(calls') /\ Stored(b)' /\ Target(b)' = s /\ met' = met
  BY <1>1, StoredStays DEF Moves
<1>3. b < j /\ ~Replaced(b, j) => ~Replaced(b, j)'
  <2>1. ASSUME NEW k \in Made, Stored(k)', Before(b, k), Before(k, j)
        PROVE  Replaced(b, j)
    BY <2>1, StoredMoves, TypedCalls DEF Replaced, Before
  <2> QED
    BY <1>2, <2>1 DEF Replaced, Before, Moves
<1> QED
  BY <1>1, <1>2, <1>3 DEF Finds

LEMMA FindsGrows ==
    ASSUME GTypeOK, NEW op, NEW t, Grows(op, t),
           NEW j \in Made, NEW s, Finds(j, s)
    PROVE  Finds(j, s)'
<1>0. Made = 1 .. Len(calls) /\ Len(calls) \in Nat
      /\ DOMAIN calls' = 1 .. Len(calls) + 1 /\ Len(calls') = Len(calls) + 1
  BY TypedCalls DEF Grows
<1>1. PICK b \in 0 .. Len(calls) :
          /\ Stored(b) /\ Target(b) = s
          /\ <<b, j>> \in met \/ (b < j /\ ~Replaced(b, j))
  BY DEF Finds
<1>2. b \in 0 .. Len(calls') /\ Stored(b)' /\ Target(b)' = s
  BY <1>0, <1>1 DEF Stored, Target, Grows
<1>3. <<b, j>> \in met => <<b, j>> \in met'
  BY DEF GTypeOK, Grows
<1>4. ASSUME b < j, NEW k \in DOMAIN calls', Stored(k)', Before(b, k)', Before(k, j)'
      PROVE  Replaced(b, j)
  <2>1. k \in Made
    BY <1>0, <1>4 DEF Before
  <2>2. Stored(k) /\ Before(k, j)
    BY <1>4, <2>1 DEF Stored, Before, Grows
  <2>3. Before(b, k)
    BY <1>0, <1>4, <2>1 DEF Before, Grows, GTypeOK
  <2> QED
    BY <2>1, <2>2, <2>3 DEF Replaced
<1>5. b < j /\ ~Replaced(b, j) => b < j /\ ~Replaced(b, j)'
  BY <1>4 DEF Replaced
<1> QED
  BY <1>1, <1>2, <1>3, <1>5 DEF Finds

\* An operation that reads a.client finds one that it may find.
LEMMA ClientFound ==
    ASSUME GTypeOK, OverlapsSeen, ClientSeen, NEW i \in Made,
           Pending(calls[i]), calls[i].op = "op"
    PROVE  Finds(i, client)
<1>1. PICK b \in 0 .. Len(calls) :
          /\ Stored(b) /\ client = Target(b)
          /\ \A k \in Made : Stored(k) => ~Before(b, k)
  BY DEF ClientSeen
<1>2. Made = 1 .. Len(calls) /\ Len(calls) \in Nat
  BY TypedCalls
<1>3. CASE b < i
  BY <1>1, <1>3 DEF Finds, Replaced
<1>4. CASE b > i
  <2>1. b \in Made /\ calls[b].op \in Bar
    BY <1>1, <1>2, <1>4 DEF Stored
  <2>2. <<b, i>> \in met
    BY <1>4, <2>1 DEF OverlapsSeen
  <2> QED
    BY <1>1, <2>2 DEF Finds
<1>5. b # i
  BY <1>1, <1>2 DEF Stored
<1> QED
  BY <1>2, <1>3, <1>4, <1>5

LEMMA ClientSeenStep ==
    ASSUME GTypeOK, OverlapsSeen, ResultsLate, ClientSeen,
           NEW i \in Made, Step(i), Moves(i)
    PROVE  ClientSeen'
<1>0. Made = 1 .. Len(calls) /\ Len(calls) \in Nat /\ calls[i] \in Call
      /\ Len(calls') = Len(calls) /\ DOMAIN calls' = Made
  BY TypedCalls DEF Moves
<1>1. CASE Connect(i) \/ Disconnect(i)
  <2>1. Stored(i)' /\ client' = Target(i)' /\ calls[i].op \in Bar
    BY <1>0, <1>1 DEF Connect, Disconnect, Finish, Stored, Target, Call, GTypeOK
  <2>2. ASSUME NEW k \in Made PROVE ~Before(i, k)'
    BY <1>0, <2>1 DEF Before, OverlapsSeen, Moves
  <2> QED
    BY <1>0, <2>1, <2>2 DEF ClientSeen
<1>2. CASE ~(Connect(i) \/ Disconnect(i))
  <2>1. client' = client
    BY <1>2 DEF Step, Health, Check, Use, Remote, Show
  <2>2. calls[i].op \in Bar /\ calls'[i].res = "ok" => calls[i].res = "ok"
    BY <1>0, <1>2 DEF Step, Health, Check, Use, Remote, Show, Finish, Call, GTypeOK
  <2>3. ASSUME NEW k \in Made, Stored(k)' PROVE Stored(k)
    BY <1>0, <2>2, <2>3 DEF Stored, Moves
  <2>4. PICK b \in 0 .. Len(calls) :
            /\ Stored(b) /\ client = Target(b)
            /\ \A k \in Made : Stored(k) => ~Before(b, k)
    BY DEF ClientSeen
  <2>5. Stored(b)' /\ client' = Target(b)'
    BY <2>1, <2>4, StoredStays
  <2>6. \A k \in Made : Stored(k)' => ~Before(b, k)'
    BY <2>3, <2>4 DEF Before, Moves
  <2> QED
    BY <1>0, <2>5, <2>6 DEF ClientSeen
<1> QED
  BY <1>1, <1>2

LEMMA ClientSeenClick ==
    ASSUME GTypeOK, ClientSeen, NEW op, NEW s, Grows(op, s)
    PROVE  ClientSeen'
<1>0. Made = 1 .. Len(calls) /\ Len(calls) \in Nat
      /\ DOMAIN calls' = 1 .. Len(calls) + 1 /\ Len(calls') = Len(calls) + 1
  BY TypedCalls DEF Grows
<1>1. PICK b \in 0 .. Len(calls) :
          /\ Stored(b) /\ client = Target(b)
          /\ \A k \in Made : Stored(k) => ~Before(b, k)
  BY DEF ClientSeen
<1>2. b \in 0 .. Len(calls') /\ Stored(b)' /\ client' = Target(b)'
  BY <1>0, <1>1 DEF Stored, Target, Grows
<1>3. ASSUME NEW k \in DOMAIN calls', Stored(k)'
      PROVE  ~Before(b, k)'
  <2>1. k \in Made
    BY <1>0, <1>3 DEF Stored, Grows
  <2>2. ~Before(b, k)
    BY <1>1, <1>3, <2>1 DEF Stored, Grows
  <2>3. <<b, k>> \in met => <<b, k>> \in met'
    BY <2>1 DEF GTypeOK, Grows
  <2> QED
    BY <2>2, <2>3 DEF Before
<1> QED
  BY <1>2, <1>3 DEF ClientSeen

-----------------------------------------------------------------------------
(* The indicator *)

LEMMA LitSeenStep ==
    ASSUME GTypeOK, OverlapsSeen, ResultsLate, LitSeen,
           NEW i \in Made, Step(i), Moves(i)
    PROVE  LitSeen'
<1>0. Made = 1 .. Len(calls) /\ Len(calls) \in Nat /\ calls[i] \in Call
      /\ Len(calls') = Len(calls) /\ DOMAIN calls' = Made
  BY TypedCalls DEF Moves
<1>1. CASE Show(i) /\ calls[i].op \in Bar /\ calls[i].res = "ok"
  <2>1. Known(i)' /\ (lit' <=> i > 0 /\ calls'[i].op = "connect")
    <3>1. /\ calls'[i].op = calls[i].op /\ calls'[i].res = "ok"
          /\ calls'[i].at = "shown"
      BY <1>0, <1>1 DEF Show, Call, GTypeOK
    <3>2. lit' = (calls[i].op = "connect") /\ i > 0
      BY <1>0, <1>1 DEF Show
    <3>3. lit' <=> i > 0 /\ calls'[i].op = "connect"
      BY <3>1, <3>2
    <3> QED
      BY <1>1, <3>1, <3>3 DEF Known, Stored
  <2>2. ASSUME NEW k \in Made PROVE ~Before(i, k)'
    BY <1>0, <1>1 DEF Before, OverlapsSeen, Moves
  <2> QED
    BY <1>0, <2>1, <2>2 DEF LitSeen
<1>2. CASE ~(Show(i) /\ calls[i].op \in Bar /\ calls[i].res = "ok")
  <2>1. lit' = lit
    BY <1>2 DEF Step, Health, Connect, Disconnect, Check, Use, Remote, Show
  <2>2. calls[i].op \in Bar /\ calls'[i].res = "ok" => calls'[i].at # "shown"
    BY <1>0, <1>2 DEF Step, Health, Connect, Disconnect, Check, Use, Remote, Show,
                      Finish, Call, GTypeOK
  <2>3. \A k \in Made : Known(k)' => k # i
    BY <1>0, <2>2 DEF Known, Stored, Moves
  <2>4. \A k \in Made : Known(k)' => Known(k)
    BY <1>0, <2>3 DEF Known, Stored, Moves
  <2>5. PICK b \in 0 .. Len(calls) :
            /\ Known(b) /\ (lit <=> b > 0 /\ calls[b].op = "connect")
            /\ \A k \in Made : Known(k) => ~Before(b, k)
    BY DEF LitSeen
  <2>6. b # i
    BY <1>0, <2>5 DEF Known, Moves, Pending
  <2>7. Known(b)' /\ (lit' <=> b > 0 /\ calls'[b].op = "connect")
    BY <1>0, <2>1, <2>5, <2>6 DEF Known, Stored, Moves
  <2>8. \A k \in Made : Known(k)' => ~Before(b, k)'
    BY <2>4, <2>5 DEF Before, Moves
  <2> QED
    BY <1>0, <2>7, <2>8 DEF LitSeen
<1> QED
  BY <1>1, <1>2

LEMMA LitSeenClick ==
    ASSUME GTypeOK, LitSeen, NEW op, NEW s, Grows(op, s)
    PROVE  LitSeen'
<1>0. Made = 1 .. Len(calls) /\ Len(calls) \in Nat
      /\ DOMAIN calls' = 1 .. Len(calls) + 1 /\ Len(calls') = Len(calls) + 1
  BY TypedCalls DEF Grows
<1>1. PICK b \in 0 .. Len(calls) :
          /\ Known(b) /\ (lit <=> b > 0 /\ calls[b].op = "connect")
          /\ \A k \in Made : Known(k) => ~Before(b, k)
  BY DEF LitSeen
<1>2. /\ b \in 0 .. Len(calls') /\ Known(b)'
      /\ (lit' <=> b > 0 /\ calls'[b].op = "connect")
  BY <1>0, <1>1 DEF Known, Stored, Grows
<1>3. ASSUME NEW k \in DOMAIN calls', Known(k)'
      PROVE  ~Before(b, k)'
  <2>1. k \in Made
    BY <1>0, <1>3 DEF Known, Stored, Grows
  <2>2. ~Before(b, k)
    BY <1>1, <1>3, <2>1 DEF Known, Stored, Grows
  <2>3. <<b, k>> \in met => <<b, k>> \in met'
    BY <2>1 DEF GTypeOK, Grows
  <2> QED
    BY <2>2, <2>3 DEF Before
<1> QED
  BY <1>2, <1>3 DEF LitSeen

-----------------------------------------------------------------------------
(* The operations *)

LEMMA OperationsStep ==
    ASSUME GTypeOK, OverlapsSeen, ResultsLate, ClientSeen, OperationsSeen,
           NEW i \in Made, Step(i), Moves(i)
    PROVE  OperationsSeen'
<1>0. Made = 1 .. Len(calls) /\ Len(calls) \in Nat /\ calls[i] \in Call
      /\ DOMAIN calls' = Made
  BY TypedCalls DEF Moves
<1> SUFFICES ASSUME NEW k \in Made, calls'[k].op = "op"
             PROVE  OperationSeen(k)'
  BY <1>0 DEF OperationsSeen
<1>1. calls[k].op = "op" /\ OperationSeen(k)
  BY DEF OperationsSeen, Moves
<1>2. \A b \in Made : calls'[b].op = calls[b].op
  BY DEF Moves
<1>3. \A s \in {None, client, calls[k].to} : Finds(k, s) => Finds(k, s)'
  BY FindsMoves
<1>4. CASE k # i
  <2>1. calls'[k] = calls[k]
    BY <1>4 DEF Moves
  <2>2. calls[k].at = "use" /\ client' = None =>
            \E b \in Made : <<b, k>> \in met' /\ calls'[b].op = "disconnect"
    <3>1. CASE client' = client
      BY <1>1, <1>2, <3>1 DEF OperationSeen, Moves
    <3>2. CASE client' # client /\ client' = None /\ calls[k].at = "use"
      <4>1. calls[i].op = "disconnect"
        BY <3>2 DEF Step, Health, Connect, Disconnect, Check, Use, Remote, Show, GTypeOK
      <4>2. <<i, k>> \in met
        <5>1. Pending(calls[i]) /\ Pending(calls[k])
          BY <3>2 DEF Moves, Pending
        <5>2. i < k \/ k < i
          BY <1>0, <1>4
        <5> QED
          BY <4>1, <5>1, <5>2 DEF OverlapsSeen
      <4> QED
        BY <1>2, <4>1, <4>2 DEF Moves
    <3> QED
      BY <3>1, <3>2
  <2> QED
    BY <1>0, <1>1, <1>2, <1>3, <2>1, <2>2 DEF OperationSeen, Moves
<1>5. CASE k = i
  <2>1. Finds(i, client)' /\ client' = client
    BY <1>1, <1>3, <1>5, ClientFound
       DEF Step, Health, Connect, Disconnect, Check, Use, Remote, Show, Moves
  <2>2. CASE Check(i)
    <3>1. \/ client = None /\ calls'[i].at = "returned" /\ calls'[i].res = "off"
          \/ client # None /\ calls'[i].at = "use" /\ calls'[i].to = client
      BY <1>0, <2>2 DEF Check, Finish, Call, GTypeOK
    <3> QED
      BY <1>5, <2>1, <3>1 DEF OperationSeen
  <2>3. CASE Use(i)
    <3>1. PICK s \in {calls[i].to, client} :
              \/ s = None /\ calls'[i].at = "returned" /\ calls'[i].res = "panic"
              \/ s # None /\ calls'[i].at = "remote" /\ calls'[i].to = s
      BY <1>0, <2>3 DEF Use, Finish, Call, GTypeOK
    <3>2. calls[i].at = "use" /\ calls[i].to # None
      BY <2>3 DEF Use, GTypeOK
    <3>3. Finds(i, s)'
      BY <1>1, <1>3, <1>5, <2>1, <3>2 DEF OperationSeen
    <3>4. s = None => \E b \in Made : <<b, i>> \in met /\ calls[b].op = "disconnect"
      BY <1>1, <1>5, <3>2 DEF OperationSeen
    <3> QED
      BY <1>0, <1>2, <1>5, <3>1, <3>3, <3>4 DEF OperationSeen, Moves
  <2>4. CASE Remote(i)
    <3>1. /\ calls[i].at = "remote" /\ calls[i].to # None
          /\ calls'[i].at = "returned" /\ calls'[i].res = "answer"
          /\ calls'[i].to = calls[i].to
      BY <1>0, <2>4 DEF Remote, Finish, Call, GTypeOK
    <3> QED
      BY <1>1, <1>3, <1>5, <3>1 DEF OperationSeen
  <2>5. CASE Show(i)
    <3>1. /\ calls[i].at = "returned" /\ calls'[i].at = "shown"
          /\ calls'[i].res = calls[i].res /\ calls'[i].to = calls[i].to
      BY <1>0, <2>5 DEF Show, Call, GTypeOK
    <3> QED
      BY <1>0, <1>1, <1>2, <1>3, <1>5, <3>1 DEF OperationSeen, Moves
  <2> QED
    BY <1>1, <1>5, <2>2, <2>3, <2>4, <2>5 DEF Step, Health, Connect, Disconnect
<1> QED
  BY <1>4, <1>5

LEMMA OperationsClick ==
    ASSUME GTypeOK, OperationsSeen, NEW op, NEW s, Grows(op, s)
    PROVE  OperationsSeen'
<1>0. Made = 1 .. Len(calls) /\ Len(calls) \in Nat
      /\ DOMAIN calls' = 1 .. Len(calls) + 1
  BY TypedCalls DEF Grows
<1> SUFFICES ASSUME NEW k \in DOMAIN calls', calls'[k].op = "op"
             PROVE  OperationSeen(k)'
  BY DEF OperationsSeen
<1>1. CASE k \in Made
  <2>1. calls'[k] = calls[k] /\ OperationSeen(k)
    BY <1>1 DEF OperationsSeen, Grows
  <2>2. \A t : Finds(k, t) => Finds(k, t)'
    BY <1>1, FindsGrows
  <2>3. \A b \in Made : <<b, k>> \in met /\ calls[b].op = "disconnect" =>
            b \in DOMAIN calls' /\ <<b, k>> \in met' /\ calls'[b].op = "disconnect"
    BY <1>0, <1>1 DEF Grows
  <2> QED
    BY <2>1, <2>2, <2>3 DEF OperationSeen, Grows
<1>2. CASE k = Len(calls) + 1
  <2>1. calls'[k].at = "begin"
    BY <1>2 DEF Grows
  <2> QED
    BY <2>1 DEF OperationSeen
<1> QED
  BY <1>0, <1>1, <1>2

-----------------------------------------------------------------------------

LEMMA GInvInit == Init => GInv
<1> SUFFICES ASSUME Init PROVE GInv
  OBVIOUS
<1>1. calls = <<>> /\ DOMAIN calls = {} /\ Len(calls) = 0
  BY DEF Init
<1>2. GTypeOK
  <2>1. calls \in Seq(Call)
    BY <1>1
  <2> QED
    BY <1>1, <2>1 DEF Init, GTypeOK
<1>3. Stored(0) /\ Known(0) /\ Target(0) = client /\ lit = FALSE
  BY DEF Init, Stored, Known, Target
<1>4. ClientSeen /\ LitSeen
  BY <1>1, <1>3 DEF ClientSeen, LitSeen
<1> QED
  BY <1>1, <1>2, <1>4 DEF GInv, OverlapsSeen, ResultsLate, OperationsSeen

LEMMA GInvNext == GInv /\ [Next]_vars => GInv'
<1> SUFFICES ASSUME GInv, [Next]_vars PROVE GInv'
  OBVIOUS
<1> USE DEF GInv
<1>1. CASE UNCHANGED vars
  <2>1. GTypeOK' /\ OverlapsSeen' /\ ResultsLate'
    BY <1>1 DEF vars, GTypeOK, OverlapsSeen, ResultsLate, Pending
  <2>2. LitSeen'
    BY <1>1 DEF vars, LitSeen, Known, Before, Stored
  <2>3. ClientSeen'
    BY <1>1 DEF vars, ClientSeen, Before, Stored, Target
  <2>4. \A j, s : Finds(j, s)' = Finds(j, s)
    BY <1>1 DEF vars, Finds, Replaced, Before, Stored, Target
  <2>5. OperationsSeen'
    BY <1>1, <2>4 DEF vars, OperationsSeen, OperationSeen
  <2> QED
    BY <2>1, <2>2, <2>3, <2>5
<1>2. ASSUME NEW op \in Bar \cup {"op"}, NEW s \in Server \cup {None},
             op = "connect" => s # None, Click(op, s)
      PROVE  GInv'
  <2>1. Grows(op, s) /\ GTypeOK'
    BY <1>2, ClickGrows
  <2> QED
    BY <1>2, <2>1, OverlapsClick, ResultsClick, ClientSeenClick, LitSeenClick,
       OperationsClick
<1>3. ASSUME NEW i \in Made, Step(i)
      PROVE  GInv'
  <2>1. Moves(i) /\ GTypeOK'
    BY <1>3, StepMoves
  <2> QED
    BY <1>3, <2>1, OverlapsStep, ResultsStep, ClientSeenStep, LitSeenStep,
       OperationsStep
<1> QED
  BY <1>1, <1>2, <1>3, NextCases

LEMMA GInvImplies == GInv => GTypeOK /\ IndicatorTrue /\ OperationsFollow
<1> SUFFICES ASSUME GInv PROVE IndicatorTrue /\ OperationsFollow
  BY DEF GInv
<1>0. Made = 1 .. Len(calls) /\ Len(calls) \in Nat
  BY TypedCalls DEF GInv
<1>1. ASSUME ~BarPending, ~(lit <=> client # None)
      PROVE  \E b, k \in Made :
                /\ Current(b) /\ calls[b].op = "connect"
                /\ Current(k) /\ calls[k].op = "disconnect"
  <2>1. \A k \in Made : Stored(k) => Known(k)
    BY <1>0, <1>1 DEF BarPending, Pending, Stored, Known
  <2>2. PICK b \in 0 .. Len(calls) : Current(b) /\ client = Target(b)
    BY DEF GInv, ClientSeen, Current
  <2>3. PICK k \in 0 .. Len(calls) :
            Current(k) /\ (lit <=> k > 0 /\ calls[k].op = "connect")
    BY <2>1 DEF GInv, LitSeen, Current, Known
  <2>4. b > 0 /\ k > 0
    <3>1. \A j \in Made : Before(0, j)
      BY <1>0 DEF Before, GInv, GTypeOK
    <3>2. ASSUME NEW x \in {b, k}, NEW y \in {b, k}, x = 0, y # 0
          PROVE  FALSE
      <4>1. y \in Made
        BY <1>0, <3>2
      <4> QED
        BY <2>2, <2>3, <3>1, <3>2, <4>1 DEF Current
    <3>3. b = 0 => client = None
      BY <2>2 DEF Target
    <3>4. k = 0 => ~lit
      BY <2>3
    <3>5. b # 0 \/ k # 0
      BY <1>1, <3>3, <3>4
    <3> QED
      BY <1>0, <3>2, <3>5
  <2>5. b \in Made /\ calls[b].op \in Bar /\ k \in Made /\ calls[k].op \in Bar
    BY <1>0, <2>2, <2>3, <2>4 DEF Current, Stored
  <2>6. client # None <=> calls[b].op = "connect"
    BY <2>2, <2>4, <2>5 DEF Target, GInv, GTypeOK
  <2>7. calls[b].op # calls[k].op
    BY <1>1, <2>3, <2>4, <2>6
  <2> QED
    BY <2>2, <2>3, <2>5, <2>7
<1>2. OperationsFollow
  BY DEF GInv, OperationsSeen, OperationSeen, OperationsFollow
<1>3. lit \in BOOLEAN
  BY DEF GInv, GTypeOK
<1> QED
  BY <1>1, <1>2, <1>3 DEF IndicatorTrue

\* Every call is a call, in every state.
THEOREM GuiTyped == Spec => []GTypeOK
<1> QED
  BY GInvInit, GInvNext, GInvImplies, PTL DEF Spec

\* main.js:58-89, app.go:36-50: the indicator tells whether the App is connected,
\* unless the last calls to succeed are a Connect and a Disconnect that met.
THEOREM IndicatorIsTrue == Spec => []IndicatorTrue
<1> QED
  BY GInvInit, GInvNext, GInvImplies, PTL DEF Spec

\* app.go:53-148: no operation panics without an overlapping Disconnect, and each
\* goes to a server that Connect left for it to find, or is refused.
THEOREM OperationsAreTrue == Spec => []OperationsFollow
<1> QED
  BY GInvInit, GInvNext, GInvImplies, PTL DEF Spec
=============================================================================
