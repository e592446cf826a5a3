---------------------------- MODULE SessionProofs ----------------------------
(***************************************************************************)
(* Theorems about the callers of the SDK, for any callers, keys, values,   *)
(* commands and units of time: what becomes of a lifetime on its way to an *)
(* entry and back, and what a caller's own reads tell him.                 *)
(***************************************************************************)
EXTENDS KvCli, SumProofs, SequenceTheorems, TLAPS

-----------------------------------------------------------------------------
(* The conversions *)

LEMMA WholeBounds ==
    ASSUME NEW d \in Nat
    PROVE  /\ Whole(d) \in Nat
           /\ Whole(d) * Second <= d
           /\ d < (Whole(d) + 1) * Second
BY DurationsAssumption DEF Whole

LEMMA WholeExact ==
    ASSUME NEW d \in Nat, d % Second = 0
    PROVE  Whole(d) \in Nat /\ Whole(d) * Second = d
BY DurationsAssumption DEF Whole

LEMMA WrapTyped ==
    ASSUME NEW n \in Int
    PROVE  Wrap(n) \in Int
BY DurationsAssumption DEF Wrap

LEMMA WrapFits ==
    ASSUME NEW n \in Int, n \in -MaxDuration .. MaxDuration
    PROVE  Wrap(n) = n
BY DurationsAssumption DEF Wrap

LEMMA CeilBounds ==
    ASSUME NEW d \in Nat
    PROVE  /\ CeilSeconds(d) \in Nat
           /\ d <= CeilSeconds(d) * Second
           /\ (CeilSeconds(d) - 1) * Second < d
BY DurationsAssumption DEF CeilSeconds

LEMMA MilliBounds ==
    ASSUME NEW t \in Nat
    PROVE  /\ ToMilli(t) \in Nat
           /\ ToMilli(t) <= t
           /\ t < ToMilli(t) + Milli
BY DurationsAssumption DEF ToMilli

LEMMA DeadlineTyped ==
    ASSUME NEW ttl \in Int, NEW t \in Nat
    PROVE  Deadline(ttl, t) \in Nat
<1>1. CASE ttl > 0
  <2>1. t + ttl \in Nat
    BY <1>1
  <2> QED
    BY <2>1, <1>1, MilliBounds DEF Deadline
<1>2. CASE ~(ttl > 0)
  BY <1>2 DEF Deadline
<1> QED
  BY <1>1, <1>2

LEMMA HandlerTtlTyped ==
    ASSUME NEW f \in Nat
    PROVE  HandlerTtl(f) \in Int
<1>1. f * Second \in Int
  BY DurationsAssumption
<1> QED
  BY <1>1, WrapTyped DEF HandlerTtl, FromSeconds

\* What the user means by n.
Asked(via, n) == IF via = "sdk" THEN n ELSE n * Second

Vias == {"sdk", "gui", "cli"}

LEMMA DurationTyped ==
    ASSUME NEW via \in Vias, NEW n \in Int
    PROVE  Duration(via, n) \in Int /\ Asked(via, n) \in Int
<1>1. n * Second \in Int
  BY DurationsAssumption
<1> QED
  BY <1>1, WrapTyped DEF Duration, Asked, FromSeconds

LEMMA JsonTtlTyped ==
    ASSUME NEW d \in Int
    PROVE  JsonTtl(d) \in Nat
<1>1. CASE d > 0
  <2>1. d \in Nat
    BY <1>1
  <2> QED
    BY <1>1, <2>1, WholeBounds DEF JsonTtl
<1>2. CASE ~(d > 0)
  BY <1>2 DEF JsonTtl
<1> QED
  BY <1>1, <1>2

\* The ttl field holds the lifetime that was meant, if it can be represented.
Meant(asked, f) ==
    Representable(asked) =>
        IF asked <= 0 THEN f = 0 ELSE f > 0 /\ f * Second = asked

LEMMA LifetimeCarried ==
    ASSUME NEW via \in Vias, NEW n \in Int
    PROVE  Meant(Asked(via, n), JsonTtl(Duration(via, n)))
<1> DEFINE a == Asked(via, n)
           d == Duration(via, n)
<1> SUFFICES ASSUME Representable(a)
             PROVE  IF a <= 0 THEN JsonTtl(d) = 0
                    ELSE JsonTtl(d) > 0 /\ JsonTtl(d) * Second = a
  BY DEF Meant
<1>1. a \in Int /\ d \in Int /\ a % Second = 0 /\ a \in -MaxDuration .. MaxDuration
  BY DurationTyped DEF Representable
<1>2. a <= 0 => d <= 0
  <2>1. CASE via = "sdk"
    BY <2>1 DEF Asked, Duration
  <2>2. CASE via # "sdk"
    <3>1. n * Second \in -MaxDuration .. MaxDuration
      BY <1>1, <2>2 DEF Asked
    <3>2. n * Second \in Int
      BY DurationsAssumption
    <3>3. FromSeconds(n) = n * Second
      BY <3>1, <3>2, WrapFits DEF FromSeconds
    <3> QED
      BY <2>2, <3>3 DEF Asked, Duration
  <2> QED
    BY <2>1, <2>2
<1>3. a > 0 => d = a
  <2>1. CASE via = "sdk"
    BY <2>1 DEF Asked, Duration
  <2>2. CASE via # "sdk"
    <3>1. n * Second \in -MaxDuration .. MaxDuration
      BY <1>1, <2>2 DEF Asked
    <3>2. n * Second \in Int
      BY DurationsAssumption
    <3>3. FromSeconds(n) = n * Second
      BY <3>1, <3>2, WrapFits DEF FromSeconds
    <3>4. n * Second > 0 => n > 0
      BY DurationsAssumption
    <3> QED
      BY <2>2, <3>3, <3>4 DEF Asked, Duration
  <2> QED
    BY <2>1, <2>2
<1>4. CASE a <= 0
  BY <1>1, <1>2, <1>4 DEF JsonTtl
<1>5. CASE a > 0
  <2>1. d \in Nat /\ d = a /\ d % Second = 0
    BY <1>1, <1>3, <1>5
  <2>2. JsonTtl(d) = Whole(d)
    BY <1>5, <2>1 DEF JsonTtl
  <2>3. Whole(d) \in Nat /\ Whole(d) * Second = d
    BY <2>1, WholeExact
  <2>4. Whole(d) # 0
    BY <1>5, <2>1, <2>3, DurationsAssumption
  <2> QED
    BY <1>5, <2>1, <2>2, <2>3, <2>4
<1> QED
  BY <1>1, <1>4, <1>5

-----------------------------------------------------------------------------
(* The calls *)

Codes == {"ok", "invalid", "tooLong", "tooLarge", "notFound", "full", "internal"}

Entries == [val : Value, exp : Nat] \cup {None}

Call == [by : Caller, op : Ops, key : Key \cup {None}, val : Value \cup {None},
         ttl : Nat, asked : Int, born : Nat,
         at : {"sent", "begun", "answered"}, entry : Entries, exp : Nat,
         code : Codes, data : Int \cup {None},
         err : Codes \cup {"none yet", "none", "transport"},
         res : Value \cup {Nil, None} \cup BOOLEAN \cup Int]

Typed ==
    /\ calls \in Seq(Call)
    /\ kv \in [Key -> Entries]
    /\ clock \in Nat

\* The deadline that a Set computed.
Kept(c, t) ==
    Representable(c.asked) =>
        IF c.asked <= 0 THEN c.exp = 0
        ELSE c.born + c.asked < c.exp + Milli /\ c.exp <= t + c.asked

\* The time left that a read computed.
Left(c, t) ==
    IF c.exp = 0 THEN c.data = IF c.op = "get" THEN 0 ELSE -1
    ELSE IF c.data < 0 THEN c.exp < t
    ELSE IF c.op = "get"
    THEN c.data * Second <= Max({c.exp - c.born, 0})
         /\ c.exp - t < (c.data + 1) * Second
    ELSE c.exp - t <= c.data * Second
         /\ (c.data - 1) * Second < Max({c.exp - c.born, 0})

CallOK(c, t) ==
    /\ c.born <= t
    /\ c.at # "answered" => c.code = "ok" /\ c.data = None
    /\ c.op \in Writes \cup Reads => c.key \in Key
    /\ c.op = "set" => c.val \in Value /\ Meant(c.asked, c.ttl)
    /\ c.op = "set" /\ c.at # "sent" /\ c.code = "ok" => Kept(c, t)
    /\ c.op \in Reads /\ (c.at = "begun" \/ (c.at = "answered" /\ c.code = "ok")) =>
           c.entry # None
    /\ c.op \in {"get", "ttl"} /\ c.data # None => Left(c, t)
    /\ c.err = "none" => c.at = "answered" /\ ~IsError(c)

CallsOK == \A i \in Made : CallOK(calls[i], clock)

PromptOK ==
    /\ prompt \in {"new", "ready", "gone"}
    /\ prompt = "ready" => \E i \in Made : calls[i].by = Cli

SInv == Typed /\ CallsOK /\ PromptOK

LEMMA MaxOfTwo ==
    ASSUME NEW a \in Int
    PROVE  Max({a, 0}) = IF a >= 0 THEN a ELSE 0
<1> DEFINE m == IF a >= 0 THEN a ELSE 0
<1>1. m \in {a, 0} /\ \A y \in {a, 0} : m >= y
  OBVIOUS
<1>2. \A x \in {a, 0} : (\A y \in {a, 0} : x >= y) => x = m
  OBVIOUS
<1> QED
  BY <1>1, <1>2 DEF Max

\* What was true of a call stays true as time passes.
LEMMA CallLater ==
    ASSUME NEW c \in Call, NEW t \in Nat, NEW u \in Nat, t <= u, CallOK(c, t)
    PROVE  CallOK(c, u)
<1>1. c.exp \in Nat /\ c.born \in Nat /\ c.asked \in Int /\ c.data \in Int \cup {None}
  BY DEF Call
<1>2. Kept(c, t) => Kept(c, u)
  BY <1>1 DEF Kept
<1>3. ASSUME c.data # None, Left(c, t) PROVE Left(c, u)
  <2>1. c.data \in Int /\ (c.data + 1) * Second \in Int /\ c.data * Second \in Int
    BY <1>1, <1>3, DurationsAssumption
  <2> QED
    BY <1>1, <1>3, <2>1 DEF Left
<1> QED
  BY <1>1, <1>2, <1>3 DEF CallOK

\* A Set that begins computes a deadline that keeps what was meant.
LEMMA DeadlineKept ==
    ASSUME NEW f \in Nat, NEW asked \in Int, Meant(asked, f),
           Representable(asked), NEW t \in Nat
    PROVE  LET x == Deadline(HandlerTtl(f), t)
           IN  IF asked <= 0 THEN x = 0 ELSE t + asked < x + Milli /\ x <= t + asked
<1>1. CASE asked <= 0
  BY <1>1 DEF Meant, HandlerTtl, Deadline
<1>2. CASE asked > 0
  <2>1. f > 0 /\ f * Second = asked /\ asked \in -MaxDuration .. MaxDuration
    BY <1>2 DEF Meant, Representable
  <2>2. HandlerTtl(f) = asked
    BY <2>1, WrapFits DEF HandlerTtl, FromSeconds
  <2>3. Deadline(HandlerTtl(f), t) = ToMilli(t + asked)
    BY <1>2, <2>2 DEF Deadline
  <2>4. t + asked \in Nat
    BY <1>2
  <2> QED
    BY <1>2, <2>3, <2>4, MilliBounds, DurationsAssumption
<1> QED
  BY <1>1, <1>2

\* A reply computes a time left that is true.
LEMMA LeftComputed ==
    ASSUME NEW c \in Call, NEW t \in Nat, c.born <= t,
           \/ c.op = "get" /\ c.data = Remaining(c.exp, t)
           \/ c.op = "ttl" /\ c.data = TtlAnswer(c.exp, t)
    PROVE  Left(c, t)
<1> DEFINE x == c.exp
           b == c.born
<1>1. x \in Nat /\ b \in Nat
  BY DEF Call
<1>2. Max({x - b, 0}) = IF x - b >= 0 THEN x - b ELSE 0
  BY <1>1, MaxOfTwo
<1>3. CASE c.op = "get" /\ c.data = Remaining(x, t)
  <2>1. CASE x > t
    <3>1. x - t \in Nat /\ c.data = Whole(x - t)
      BY <1>1, <1>3, <2>1 DEF Remaining
    <3>2. /\ c.data \in Nat /\ c.data * Second <= x - t
          /\ x - t < (c.data + 1) * Second
      BY <3>1, WholeBounds
    <3>3. c.data * Second \in Int
      BY <3>2, DurationsAssumption
    <3>4. c.data * Second <= Max({x - b, 0})
      BY <1>1, <1>2, <2>1, <3>2, <3>3
    <3> QED
      BY <1>1, <1>3, <2>1, <3>2, <3>4 DEF Left
  <2>2. CASE ~(x > t)
    <3>1. c.data = 0
      BY <1>3, <2>2 DEF Remaining
    <3>2. x - t < (0 + 1) * Second /\ 0 * Second = 0
      BY <1>1, <2>2, DurationsAssumption
    <3>3. 0 <= Max({x - b, 0})
      BY <1>1, <1>2
    <3> QED
      BY <1>1, <1>3, <3>1, <3>2, <3>3 DEF Left
  <2> QED
    BY <2>1, <2>2
<1>4. CASE c.op = "ttl" /\ c.data = TtlAnswer(x, t)
  <2>1. CASE x = 0
    BY <1>4, <2>1 DEF TtlAnswer, Left
  <2>2. CASE x # 0 /\ x < t
    BY <1>4, <2>2 DEF TtlAnswer, Left
  <2>3. CASE x # 0 /\ ~(x < t)
    <3>1. x - t \in Nat /\ c.data = CeilSeconds(x - t)
      BY <1>1, <1>4, <2>3 DEF TtlAnswer
    <3>2. /\ c.data \in Nat /\ x - t <= c.data * Second
          /\ (c.data - 1) * Second < x - t
      BY <3>1, CeilBounds
    <3>3. (c.data - 1) * Second \in Int /\ x - t <= x - b /\ x - b >= 0
      BY <1>1, <2>3, <3>2, DurationsAssumption
    <3>4. Max({x - b, 0}) = x - b
      BY <1>2, <3>3
    <3>5. (c.data - 1) * Second < Max({x - b, 0})
      BY <1>1, <3>2, <3>3, <3>4
    <3> QED
      BY <1>1, <1>4, <2>3, <3>2, <3>5 DEF Left
  <2> QED
    BY <2>1, <2>2, <2>3
<1> QED
  BY <1>3, <1>4
-----------------------------------------------------------------------------
(* What a step does to a call *)

\* Call i becomes c, and the others stay.
Becomes(i, c) ==
    /\ calls' \in Seq(Call)
    /\ Len(calls') = Len(calls)
    /\ DOMAIN calls' = DOMAIN calls
    /\ calls'[i] = c
    /\ \A j \in Made : j # i => calls'[j] = calls[j]

LEMMA Moved ==
    ASSUME Typed, NEW i \in Made, NEW c \in Call, calls' = [calls EXCEPT ![i] = c]
    PROVE  Becomes(i, c)
BY DEF Typed, Made, Becomes

LEMMA CallTyped ==
    ASSUME Typed, NEW i \in Made
    PROVE  calls[i] \in Call
BY DEF Typed, Made

LEMMA RefuseMoves ==
    ASSUME Typed, NEW i \in Made, Refuse(i)
    PROVE  Becomes(i, [calls[i] EXCEPT !.at = "answered", !.code = Refusal(calls[i])])
<1> DEFINE c == [calls[i] EXCEPT !.at = "answered", !.code = Refusal(calls[i])]
<1>1. calls[i] \in Call
  BY CallTyped
<1>2. Refusal(calls[i]) \in Codes
  BY DEF Refusal, Codes
<1>3. c \in Call
  BY <1>1, <1>2 DEF Call
<1>4. calls' = [calls EXCEPT ![i] = c]
  BY <1>1 DEF Refuse, Typed, Made, Call
<1> QED
  BY <1>3, <1>4, Moved

LEMMA BeginMoves ==
    ASSUME Typed, NEW i \in Made, Begin(i),
           calls[i].op \in Writes \cup Reads => calls[i].key \in Key
    PROVE  Becomes(i, [calls[i] EXCEPT
               !.at = "begun",
               !.entry = IF calls[i].op \in Reads THEN kv[calls[i].key] ELSE None,
               !.exp = IF calls[i].op = "set"
                       THEN Deadline(HandlerTtl(calls[i].ttl), clock)
                       ELSE IF calls[i].op \in Reads THEN kv[calls[i].key].exp ELSE 0])
<1> DEFINE e == IF calls[i].op \in Reads THEN kv[calls[i].key] ELSE None
           x == IF calls[i].op = "set" THEN Deadline(HandlerTtl(calls[i].ttl), clock)
                ELSE IF calls[i].op \in Reads THEN kv[calls[i].key].exp ELSE 0
           c == [calls[i] EXCEPT !.at = "begun", !.entry = e, !.exp = x]
<1>1. calls[i] \in Call
  BY CallTyped
<1>2. calls[i].op \in Reads => kv[calls[i].key] \in Entries /\ kv[calls[i].key] # None
  BY DEF Begin, Served, Typed
<1>3. e \in Entries /\ x \in Nat
  <2>1. calls[i].op \in Reads => calls[i].op # "set"
    BY DEF Reads
  <2>2. Deadline(HandlerTtl(calls[i].ttl), clock) \in Nat
    BY <1>1, HandlerTtlTyped, DeadlineTyped DEF Call, Typed
  <2> QED
    BY <1>2, <2>1, <2>2 DEF Entries
<1>4. c \in Call
  <2> HIDE DEF e, x
  <2> QED
    BY <1>1, <1>3 DEF Call
<1>5. calls' = [calls EXCEPT ![i] = c]
  BY <1>1 DEF Begin, Typed, Made, Call
<1> QED
  BY <1>4, <1>5, Moved

LEMMA MissMoves ==
    ASSUME Typed, NEW i \in Made, Miss(i)
    PROVE  Becomes(i, [calls[i] EXCEPT !.at = "answered", !.code = "notFound"])
<1> DEFINE c == [calls[i] EXCEPT !.at = "answered", !.code = "notFound"]
<1>1. calls[i] \in Call
  BY CallTyped
<1>2. c \in Call
  BY <1>1 DEF Call, Codes
<1>3. calls' = [calls EXCEPT ![i] = c]
  BY <1>1 DEF Miss, Typed, Made, Call
<1> QED
  BY <1>2, <1>3, Moved

LEMMA AnswerMoves ==
    ASSUME Typed, NEW i \in Made, NEW code \in Codes, NEW data \in Int \cup {None},
           Answer(i, code, data)
    PROVE  Becomes(i, [calls[i] EXCEPT !.at = "answered", !.code = code, !.data = data])
<1> DEFINE c == [calls[i] EXCEPT !.at = "answered", !.code = code, !.data = data]
<1>1. calls[i] \in Call
  BY CallTyped
<1>2. c \in Call
  BY <1>1 DEF Call
<1>3. calls' = [calls EXCEPT ![i] = c]
  BY <1>1 DEF Answer, Typed, Made, Call
<1> QED
  BY <1>2, <1>3, Moved

LEMMA ReturnMoves ==
    ASSUME Typed, NEW i \in Made, Return(i),
           calls[i].op \in Reads => calls[i].entry # None \/ calls[i].code # "ok"
    PROVE  Becomes(i, [calls[i] EXCEPT
               !.err = IF IsError(calls[i]) THEN calls[i].code ELSE "none",
               !.res = Result(calls[i])])
<1> DEFINE e == IF IsError(calls[i]) THEN calls[i].code ELSE "none"
           r == Result(calls[i])
           c == [calls[i] EXCEPT !.err = e, !.res = r]
<1>1. calls[i] \in Call
  BY CallTyped
<1>2. e \in Codes \cup {"none yet", "none", "transport"}
  BY <1>1 DEF Call
<1>3. r \in Value \cup {Nil, None} \cup BOOLEAN \cup Int
  <2>1. CASE IsError(calls[i])
    BY <2>1 DEF Result
  <2>2. CASE ~IsError(calls[i]) /\ calls[i].op = "get"
    <3>1. Found(calls[i]) => calls[i].entry.val \in Value
      BY <1>1, <2>2 DEF Found, Call, Entries, Reads
    <3> QED
      BY <2>2, <3>1 DEF Result
  <2>3. CASE ~IsError(calls[i]) /\ calls[i].op = "exists"
    <3>1. Found(calls[i]) \in BOOLEAN
      BY Zenon DEF Found
    <3> QED
      BY <2>3, <3>1 DEF Result
  <2>4. CASE ~IsError(calls[i]) /\ calls[i].op \notin {"get", "exists"}
    BY <1>1, <2>4 DEF Result, Call
  <2> QED
    BY <2>1, <2>2, <2>3, <2>4
<1>4. c \in Call
  <2> HIDE DEF e, r
  <2> QED
    BY <1>1, <1>2, <1>3 DEF Call
<1>5. calls' = [calls EXCEPT ![i] = c]
  BY <1>1 DEF Return, Typed, Made, Call
<1> QED
  BY <1>4, <1>5, Moved

LEMMA GiveUpMoves ==
    ASSUME Typed, NEW i \in Made, GiveUp(i)
    PROVE  Becomes(i, [calls[i] EXCEPT !.err = "transport"])
<1> DEFINE c == [calls[i] EXCEPT !.err = "transport"]
<1>1. calls[i] \in Call
  BY CallTyped
<1>2. c \in Call
  BY <1>1 DEF Call
<1>3. calls' = [calls EXCEPT ![i] = c]
  BY <1>1 DEF GiveUp, Typed, Made, Call
<1> QED
  BY <1>2, <1>3, Moved
\* The call that p makes.
Asking(p, op, k, v, d, asked) ==
    [by |-> p, op |-> op, key |-> k, val |-> v, ttl |-> JsonTtl(d),
     asked |-> asked, born |-> clock, at |-> "sent", entry |-> None,
     exp |-> 0, code |-> "ok", data |-> None, err |-> "none yet", res |-> None]

LEMMA IssueAdds ==
    ASSUME SInv, NEW p \in Caller, NEW op \in Ops, NEW k \in Key \cup {None},
           NEW v \in Value \cup {None}, NEW d \in Int, NEW asked \in Int,
           Issue(p, op, k, v, d, asked), clock' = clock,
           op \in Writes \cup Reads => k \in Key,
           op = "set" => v \in Value /\ Meant(asked, JsonTtl(d))
    PROVE  /\ calls' \in Seq(Call)
           /\ Len(calls') = Len(calls) + 1
           /\ \A i \in Made : i \in Made' /\ calls'[i] = calls[i]
           /\ calls'[Len(calls) + 1] = Asking(p, op, k, v, d, asked)
           /\ CallsOK'
<1> DEFINE c == Asking(p, op, k, v, d, asked)
<1>1. JsonTtl(d) \in Nat
  BY JsonTtlTyped
<1>2. c \in Call
  BY <1>1 DEF SInv, Typed, Call, Codes, Asking, Entries
<1>3. CallOK(c, clock)
  <2>1. clock \in Nat
    BY DEF SInv, Typed
  <2> QED
    BY <2>1 DEF CallOK, Asking
<1>4. calls' = Append(calls, c)
  BY DEF Issue, Asking
<1>5. calls \in Seq(Call) /\ Len(calls) \in Nat /\ DOMAIN calls = 1 .. Len(calls)
  BY DEF SInv, Typed
<1> HIDE DEF c
<1>6. /\ calls' \in Seq(Call)
      /\ Len(calls') = Len(calls) + 1
      /\ \A i \in 1 .. Len(calls) : calls'[i] = calls[i]
      /\ calls'[Len(calls) + 1] = c
  BY <1>2, <1>4, <1>5, AppendProperties
<1>7. DOMAIN calls' = 1 .. Len(calls) + 1
  BY <1>5, <1>6
<1>8. ASSUME NEW i \in DOMAIN calls' PROVE CallOK(calls'[i], clock)
  <2>1. CASE i = Len(calls) + 1
    BY <1>3, <1>6, <2>1
  <2>2. CASE i # Len(calls) + 1
    <3>1. i \in 1 .. Len(calls)
      BY <1>5, <1>7, <2>2
    <3> QED
      BY <1>5, <1>6, <3>1 DEF SInv, CallsOK, Made
  <2> QED
    BY <2>1, <2>2
<1>9. CallsOK'
  BY <1>8 DEF CallsOK, Made
<1> QED
  BY <1>5, <1>6, <1>7, <1>9 DEF c, Made

\* If the call that moved is fine, all are, and the prompt's is still there.
LEMMA OthersFine ==
    ASSUME Typed, CallsOK, NEW i \in Made, NEW c, Becomes(i, c), CallOK(c, clock),
           clock' = clock, c.by = calls[i].by
    PROVE  CallsOK' /\ \A j \in Made : j \in Made' /\ calls'[j].by = calls[j].by
BY DEF CallsOK, Made, Becomes

-----------------------------------------------------------------------------
(* The store *)

LEMMA PutTyped ==
    ASSUME Typed, NEW k \in Key, NEW v \in Value, NEW x \in Nat, Put(k, v, x)
    PROVE  kv' \in [Key -> Entries] /\ clock' = clock
BY DEF Typed, Put, Entries

LEMMA DropTyped ==
    ASSUME Typed, NEW k, Drop(k)
    PROVE  kv' \in [Key -> Entries] /\ clock' = clock
BY DEF Typed, Drop, Entries

-----------------------------------------------------------------------------
(* The steps keep the invariant *)

LEMMA RefuseKeeps ==
    ASSUME SInv, NEW i \in Made, Refuse(i)
    PROVE  Typed' /\ CallsOK' /\ \A j \in Made : j \in Made' /\ calls'[j].by = calls[j].by
<1> DEFINE c == [calls[i] EXCEPT !.at = "answered", !.code = Refusal(calls[i])]
<1>1. calls[i] \in Call /\ CallOK(calls[i], clock) /\ Typed /\ CallsOK
  BY CallTyped DEF SInv, CallsOK
<1>2. Becomes(i, c)
  BY <1>1, RefuseMoves
<1>3. clock' = clock /\ kv' = kv
  BY DEF Refuse, kvVars
<1>4. CallOK(c, clock)
  <2>1. calls[i].at = "sent" /\ Refusal(calls[i]) # "ok"
    BY DEF Refuse
  <2> QED
    BY <1>1, <2>1 DEF CallOK, Call, Left, IsError
<1>5. c.by = calls[i].by
  BY <1>1 DEF Call
<1> HIDE DEF c
<1> QED
  BY <1>1, <1>2, <1>3, <1>4, <1>5, OthersFine DEF Typed, Becomes
LEMMA BeginKeeps ==
    ASSUME SInv, NEW i \in Made, Begin(i)
    PROVE  Typed' /\ CallsOK' /\ \A j \in Made : j \in Made' /\ calls'[j].by = calls[j].by
<1> DEFINE e == IF calls[i].op \in Reads THEN kv[calls[i].key] ELSE None
           x == IF calls[i].op = "set" THEN Deadline(HandlerTtl(calls[i].ttl), clock)
                ELSE IF calls[i].op \in Reads THEN kv[calls[i].key].exp ELSE 0
           c == [calls[i] EXCEPT !.at = "begun", !.entry = e, !.exp = x]
<1>1. calls[i] \in Call /\ CallOK(calls[i], clock) /\ Typed /\ CallsOK
  BY CallTyped DEF SInv, CallsOK
<1>2. Becomes(i, c)
  BY <1>1, BeginMoves DEF CallOK
<1>3. clock' = clock /\ kv' = kv
  BY DEF Begin, kvVars
<1>4. calls[i].at = "sent" /\ (calls[i].op \in Reads => e # None)
  BY DEF Begin, Served
<1>5. ASSUME calls[i].op = "set" PROVE Kept(c, clock)
  <2>1. Meant(calls[i].asked, calls[i].ttl) /\ calls[i].ttl \in Nat
        /\ calls[i].asked \in Int /\ clock \in Nat
    BY <1>1, <1>5 DEF CallOK, Call, Typed
  <2>2. x = Deadline(HandlerTtl(calls[i].ttl), clock) /\ x \in Nat
    BY <1>5, <2>1, HandlerTtlTyped, DeadlineTyped
  <2>3. calls[i].born \in Nat /\ calls[i].born <= clock
    BY <1>1 DEF Call, CallOK
  <2>4. c.asked = calls[i].asked /\ c.born = calls[i].born /\ c.exp = x
    BY <1>1 DEF Call
  <2>5. Representable(calls[i].asked) =>
            IF calls[i].asked <= 0 THEN x = 0
            ELSE clock + calls[i].asked < x + Milli /\ x <= clock + calls[i].asked
    BY <2>1, <2>2, DeadlineKept
  <2> HIDE DEF x, c
  <2> QED
    BY <2>1, <2>2, <2>3, <2>4, <2>5, DurationsAssumption DEF Kept
<1>6. calls[i].op \in {"get", "ttl"} => calls[i].data = None
  BY <1>1, <1>4 DEF CallOK
<1>7. CallOK(c, clock)
  <2> HIDE DEF e, x
  <2> QED
    BY <1>1, <1>4, <1>5, <1>6 DEF CallOK, Call, IsError
<1>8. c.by = calls[i].by
  BY <1>1 DEF Call
<1> HIDE DEF c
<1> QED
  BY <1>1, <1>2, <1>3, <1>7, <1>8, OthersFine DEF Typed, Becomes

LEMMA MissKeeps ==
    ASSUME SInv, NEW i \in Made, Miss(i)
    PROVE  Typed' /\ CallsOK' /\ \A j \in Made : j \in Made' /\ calls'[j].by = calls[j].by
<1> DEFINE c == [calls[i] EXCEPT !.at = "answered", !.code = "notFound"]
<1>1. calls[i] \in Call /\ CallOK(calls[i], clock) /\ Typed /\ CallsOK
  BY CallTyped DEF SInv, CallsOK
<1>2. Becomes(i, c)
  BY <1>1, MissMoves
<1>3. clock' = clock /\ kv' = kv
  BY DEF Miss, kvVars
<1>4. CallOK(c, clock)
  <2>1. calls[i].at = "sent"
    BY DEF Miss
  <2> QED
    BY <1>1, <2>1 DEF CallOK, Call, Left, IsError
<1>5. c.by = calls[i].by
  BY <1>1 DEF Call
<1> HIDE DEF c
<1> QED
  BY <1>1, <1>2, <1>3, <1>4, <1>5, OthersFine DEF Typed, Becomes

\* An answer without data to a call that had begun.
LEMMA AnswerKeeps ==
    ASSUME SInv, NEW i \in Made, NEW code \in Codes, Answer(i, code, None),
           calls[i].at = "begun", clock' = clock, kv' \in [Key -> Entries]
    PROVE  Typed' /\ CallsOK' /\ \A j \in Made : j \in Made' /\ calls'[j].by = calls[j].by
<1> DEFINE c == [calls[i] EXCEPT !.at = "answered", !.code = code, !.data = None]
<1>1. calls[i] \in Call /\ CallOK(calls[i], clock) /\ Typed /\ CallsOK
  BY CallTyped DEF SInv, CallsOK
<1>2. Becomes(i, c)
  BY <1>1, AnswerMoves
<1>3. calls[i].op = "set" /\ calls[i].code = "ok" => Kept(c, clock)
  BY <1>1 DEF CallOK, Kept, Call
<1>4. CallOK(c, clock)
  BY <1>1, <1>3 DEF CallOK, Call, Left, IsError
<1>5. c.by = calls[i].by
  BY <1>1 DEF Call
<1> HIDE DEF c
<1> QED
  BY <1>1, <1>2, <1>4, <1>5, OthersFine DEF Typed, Becomes
LEMMA FullKeeps ==
    ASSUME SInv, NEW i \in Made, Full(i)
    PROVE  Typed' /\ CallsOK' /\ \A j \in Made : j \in Made' /\ calls'[j].by = calls[j].by
<1>1. Answer(i, "full", None) /\ "full" \in Codes /\ calls[i].at = "begun"
  BY DEF Full, Codes
<1>2. clock' = clock /\ kv' \in [Key -> Entries]
  BY DEF Full, kvVars, SInv, Typed
<1> QED
  BY <1>1, <1>2, AnswerKeeps

LEMMA WriteKeeps ==
    ASSUME SInv, NEW i \in Made, Write(i)
    PROVE  Typed' /\ CallsOK' /\ \A j \in Made : j \in Made' /\ calls'[j].by = calls[j].by
<1>1. calls[i] \in Call /\ CallOK(calls[i], clock) /\ Typed
  BY CallTyped DEF SInv, CallsOK
<1>2. PICK code \in {"ok", "internal"} : Answer(i, code, None)
  BY DEF Write
<1>3. code \in Codes /\ calls[i].at = "begun"
  BY DEF Codes, Write
<1>4. clock' = clock /\ kv' \in [Key -> Entries]
  <2>1. CASE calls[i].op = "set" /\ Put(calls[i].key, calls[i].val, calls[i].exp)
    <3>1. calls[i].key \in Key /\ calls[i].val \in Value /\ calls[i].exp \in Nat
      BY <1>1, <2>1 DEF CallOK, Call, Writes
    <3> QED
      BY <1>1, <2>1, <3>1, PutTyped
  <2>2. CASE calls[i].op = "del" /\ Drop(calls[i].key)
    BY <1>1, <2>2, DropTyped
  <2> QED
    BY <2>1, <2>2 DEF Write
<1> QED
  BY <1>2, <1>3, <1>4, AnswerKeeps

LEMMA AnswersTyped ==
    ASSUME NEW x \in Nat, NEW t \in Nat
    PROVE  Remaining(x, t) \in Int /\ TtlAnswer(x, t) \in Int
<1>1. ASSUME x > t PROVE Whole(x - t) \in Nat
  <2>1. x - t \in Nat
    BY <1>1
  <2> QED
    BY <2>1, WholeBounds
<1>2. ASSUME ~(x < t) PROVE CeilSeconds(x - t) \in Nat
  <2>1. x - t \in Nat
    BY <1>2
  <2> QED
    BY <2>1, CeilBounds
<1> QED
  BY <1>1, <1>2 DEF Remaining, TtlAnswer

LEMMA ReplyKeeps ==
    ASSUME SInv, NEW i \in Made, Reply(i)
    PROVE  Typed' /\ CallsOK' /\ \A j \in Made : j \in Made' /\ calls'[j].by = calls[j].by
<1>1. calls[i] \in Call /\ CallOK(calls[i], clock) /\ Typed /\ CallsOK /\ clock \in Nat
  BY CallTyped DEF SInv, CallsOK, Typed
<1>2. clock' = clock /\ kv' = kv /\ kv' \in [Key -> Entries] /\ calls[i].at = "begun"
  BY DEF Reply, kvVars, SInv, Typed
<1>3. CASE \E code \in {"ok", "internal"} : Answer(i, code, None)
  BY <1>2, <1>3, AnswerKeeps DEF Codes
<1>4. ASSUME NEW data \in Int, Answer(i, "ok", data), calls[i].op \in Reads,
             calls[i].op = "get" => data = Remaining(calls[i].exp, clock),
             calls[i].op = "ttl" => data = TtlAnswer(calls[i].exp, clock)
      PROVE  Typed' /\ CallsOK' /\ \A j \in Made : j \in Made' /\ calls'[j].by = calls[j].by
  <2> DEFINE c == [calls[i] EXCEPT !.at = "answered", !.code = "ok", !.data = data]
  <2>1. Becomes(i, c)
    BY <1>1, <1>4, AnswerMoves DEF Codes
  <2>2. c \in Call
    BY <1>1 DEF Call, Codes
  <2>3. /\ c.op = calls[i].op /\ c.exp = calls[i].exp /\ c.born = calls[i].born
        /\ c.data = data /\ c.by = calls[i].by /\ c.at = "answered" /\ c.code = "ok"
        /\ c.key = calls[i].key /\ c.entry = calls[i].entry /\ c.err = calls[i].err
    BY <1>1 DEF Call
  <2>4. c.born <= clock
    BY <1>1, <2>3 DEF CallOK
  <2> HIDE DEF c
  <2>5. ASSUME c.op \in {"get", "ttl"} PROVE Left(c, clock)
    BY <1>1, <1>4, <2>2, <2>3, <2>4, <2>5, LeftComputed
  <2>6. CallOK(c, clock)
    <3>1. c.op # "set" /\ c.op \in Reads
      BY <1>4, <2>3 DEF Reads
    <3>2. c.key \in Key /\ c.entry # None
      BY <1>1, <1>2, <2>3, <3>1 DEF CallOK
    <3>3. ~IsError(c)
      BY <2>3 DEF IsError
    <3> QED
      BY <2>3, <2>4, <2>5, <3>1, <3>2, <3>3 DEF CallOK
  <2> QED
    BY <1>1, <1>2, <2>1, <2>3, <2>6, OthersFine DEF Typed, Becomes
<1>5. CASE calls[i].op \in {"get", "exists"} /\ Answer(i, "ok", Remaining(calls[i].exp, clock))
  <2>1. calls[i].exp \in Nat
    BY <1>1 DEF Call
  <2>2. Remaining(calls[i].exp, clock) \in Int
    BY <1>1, <2>1, AnswersTyped
  <2> QED
    BY <1>4, <1>5, <2>2 DEF Reads
<1>6. CASE calls[i].op = "ttl" /\ Answer(i, "ok", TtlAnswer(calls[i].exp, clock))
  <2>1. calls[i].exp \in Nat
    BY <1>1 DEF Call
  <2>2. TtlAnswer(calls[i].exp, clock) \in Int
    BY <1>1, <2>1, AnswersTyped
  <2> QED
    BY <1>4, <1>6, <2>2 DEF Reads
<1> QED
  BY <1>3, <1>5, <1>6 DEF Reply

LEMMA ReturnKeeps ==
    ASSUME SInv, NEW i \in Made, Return(i)
    PROVE  Typed' /\ CallsOK' /\ \A j \in Made : j \in Made' /\ calls'[j].by = calls[j].by
<1> DEFINE e == IF IsError(calls[i]) THEN calls[i].code ELSE "none"
           r == Result(calls[i])
           c == [calls[i] EXCEPT !.err = e, !.res = r]
<1>1. calls[i] \in Call /\ CallOK(calls[i], clock) /\ Typed /\ CallsOK
  BY CallTyped DEF SInv, CallsOK
<1>2. calls[i].at = "answered" /\ clock' = clock /\ kv' = kv
  BY DEF Return, kvVars
<1>3. Becomes(i, c)
  BY <1>1, <1>2, ReturnMoves DEF CallOK
<1>4. e = "none" => ~IsError(calls[i])
  BY <1>1 DEF Call, Codes
<1>5. CallOK(c, clock)
  <2> HIDE DEF e, r
  <2>1. /\ c.by = calls[i].by /\ c.op = calls[i].op /\ c.key = calls[i].key
        /\ c.val = calls[i].val /\ c.ttl = calls[i].ttl /\ c.asked = calls[i].asked
        /\ c.born = calls[i].born /\ c.at = calls[i].at /\ c.entry = calls[i].entry
        /\ c.exp = calls[i].exp /\ c.code = calls[i].code /\ c.data = calls[i].data
        /\ c.err = e
    BY <1>1 DEF Call
  <2>2. Kept(calls[i], clock) => Kept(c, clock)
    BY <2>1 DEF Kept
  <2>3. Left(calls[i], clock) => Left(c, clock)
    BY <2>1 DEF Left
  <2>4. IsError(c) <=> IsError(calls[i])
    BY <2>1 DEF IsError
  <2> HIDE DEF c
  <2> QED
    BY <1>1, <1>2, <1>4, <2>1, <2>2, <2>3, <2>4 DEF CallOK
<1>6. c.by = calls[i].by
  BY <1>1 DEF Call
<1> HIDE DEF c
<1> QED
  BY <1>1, <1>2, <1>3, <1>5, <1>6, OthersFine DEF Typed, Becomes

LEMMA GiveUpKeeps ==
    ASSUME SInv, NEW i \in Made, GiveUp(i)
    PROVE  Typed' /\ CallsOK' /\ \A j \in Made : j \in Made' /\ calls'[j].by = calls[j].by
<1> DEFINE c == [calls[i] EXCEPT !.err = "transport"]
<1>1. calls[i] \in Call /\ CallOK(calls[i], clock) /\ Typed /\ CallsOK
  BY CallTyped DEF SInv, CallsOK
<1>2. Becomes(i, c)
  BY <1>1, GiveUpMoves
<1>3. clock' = clock /\ kv' = kv
  BY DEF GiveUp, kvVars
<1>4. CallOK(c, clock)
  <2>1. Left(calls[i], clock) => Left(c, clock)
    BY <1>1 DEF Left, Call
  <2>2. Kept(calls[i], clock) => Kept(c, clock)
    BY <1>1 DEF Kept, Call
  <2> QED
    BY <1>1, <2>1, <2>2 DEF CallOK, Call
<1>5. c.by = calls[i].by
  BY <1>1 DEF Call
<1> HIDE DEF c
<1> QED
  BY <1>1, <1>2, <1>3, <1>4, <1>5, OthersFine DEF Typed, Becomes

LEMMA StoreKeeps ==
    ASSUME SInv, StoreStep
    PROVE  Typed' /\ CallsOK' /\ \A j \in Made : j \in Made' /\ calls'[j].by = calls[j].by
<1>1. calls' = calls /\ clock \in Nat /\ clock' \in {clock, clock + 1}
  BY DEF StoreStep, Lapse, Advance, SInv, Typed
<1>2. kv' \in [Key -> Entries]
  BY DEF StoreStep, Lapse, Advance, SInv, Typed, Entries
<1>3. ASSUME NEW i \in Made PROVE CallOK(calls[i], clock')
  <2>1. calls[i] \in Call /\ CallOK(calls[i], clock)
    BY CallTyped DEF SInv, CallsOK
  <2> QED
    BY <1>1, <2>1, CallLater
<1> QED
  BY <1>1, <1>2, <1>3 DEF Typed, CallsOK, Made, SInv
LEMMA CallStepKeeps ==
    ASSUME SInv, CallStep
    PROVE  Typed' /\ CallsOK' /\ \A j \in Made : j \in Made' /\ calls'[j].by = calls[j].by
BY RefuseKeeps, BeginKeeps, MissKeeps, FullKeeps, WriteKeeps, ReplyKeeps,
   ReturnKeeps, GiveUpKeeps, StoreKeeps DEF CallStep, Serve

\* The prompt, and the programs, ask for what their commands mean.
LEMMA CommandKeeps ==
    ASSUME SInv, Command
    PROVE  Typed' /\ CallsOK' /\ \A j \in Made : j \in Made' /\ calls'[j].by = calls[j].by
<1>1. PICK ln \in Lines :
         \/ /\ ln.op = "set"
            /\ LET n == TypedSeconds(ln.rest)
               IN  Issue(Cli, "set", ln.key, ln.val, Duration("cli", n), n * Second)
         \/ ln.op # "set" /\ Issue(Cli, ln.op, ln.key, None, 0, 0)
  BY DEF Command
<1>2. clock' = clock /\ kv' = kv /\ Cli \in Caller /\ "set" \in Ops
  BY KvCliAssumption DEF Command, kvVars, Ops, Writes
<1>3. ln.op \in Ops /\ ln.key \in Key /\ ln.val \in Value /\ TypedSeconds(ln.rest) \in Int
  BY KvCliAssumption
<1>4. CASE ln.op = "set"
  <2> DEFINE n == TypedSeconds(ln.rest)
             d == Duration("cli", n)
  <2>1. Issue(Cli, "set", ln.key, ln.val, d, n * Second)
    BY <1>1, <1>4
  <2>2. Asked("cli", n) = n * Second
    BY DEF Asked
  <2>3. d \in Int /\ n * Second \in Int /\ Meant(n * Second, JsonTtl(d))
    <3> HIDE DEF n
    <3>1. n \in Int /\ "cli" \in Vias
      BY <1>3 DEF n, Vias
    <3> QED
      BY <2>2, <3>1, DurationTyped, LifetimeCarried
  <2> HIDE DEF n, d
  <2> QED
    BY <1>2, <1>3, <2>1, <2>3, IssueAdds DEF Typed, SInv
<1>5. CASE ln.op # "set"
  <2>1. Issue(Cli, ln.op, ln.key, None, 0, 0)
    BY <1>1, <1>5
  <2>2. /\ CallsOK' /\ calls' \in Seq(Call)
        /\ \A i \in Made : i \in Made' /\ calls'[i] = calls[i]
    <3> DEFINE v == None
               d == 0
    <3>1. Issue(Cli, ln.op, ln.key, v, d, d) /\ v \in Value \cup {None} /\ d \in Int
      BY <2>1
    <3> HIDE DEF v, d
    <3> QED
      BY <1>2, <1>3, <1>5, <3>1, IssueAdds
  <2> QED
    BY <1>2, <2>2 DEF Typed, SInv
<1> QED
  BY <1>4, <1>5

LEMMA ProgramKeeps ==
    ASSUME SInv, NEW p \in Caller, Program(p)
    PROVE  Typed' /\ CallsOK' /\ \A j \in Made : j \in Made' /\ calls'[j].by = calls[j].by
<1>1. PICK q \in Programs :
         Issue(p, q.op, q.key, q.val, Duration(q.via, q.n),
               IF q.via = "sdk" THEN q.n ELSE q.n * Second)
  BY DEF Program
<1>2. clock' = clock /\ kv' = kv
  BY DEF Program, kvVars
<1>3. q.op \in Ops /\ q.key \in Key /\ q.val \in Value /\ q.via \in Vias /\ q.n \in Int
  BY KvCliAssumption DEF Vias
<1> DEFINE d == Duration(q.via, q.n)
           a == Asked(q.via, q.n)
<1>4. d \in Int /\ a \in Int /\ Meant(a, JsonTtl(d))
  BY <1>3, DurationTyped, LifetimeCarried
<1>5. Issue(p, q.op, q.key, q.val, d, a)
  BY <1>1 DEF Asked
<1> HIDE DEF a, d
<1> QED
  BY <1>2, <1>3, <1>4, <1>5, IssueAdds DEF Typed, SInv

LEMMA ConnectKeeps ==
    ASSUME SInv, Connect
    PROVE  Typed' /\ CallsOK' /\ \A j \in Made : j \in Made' /\ calls'[j].by = calls[j].by
<1>1. Issue(Cli, "health", None, None, 0, 0) /\ clock' = clock /\ kv' = kv
  BY DEF Connect, kvVars
<1>2. "health" \in Ops \ (Writes \cup Reads) /\ Cli \in Caller
  BY KvCliAssumption DEF Ops, Writes, Reads
<1>3. /\ CallsOK' /\ calls' \in Seq(Call)
      /\ \A i \in Made : i \in Made' /\ calls'[i] = calls[i]
  <2> DEFINE op == "health"
             v == None
             d == 0
  <2>1. /\ Issue(Cli, op, v, v, d, d) /\ op \in Ops /\ op \notin Writes \cup Reads
        /\ op # "set" /\ v \in Value \cup {None} /\ v \in Key \cup {None} /\ d \in Int
    BY <1>1, <1>2
  <2> HIDE DEF op, v, d
  <2> QED
    BY <1>1, <1>2, <2>1, IssueAdds
<1> QED
  BY <1>1, <1>3 DEF Typed, SInv

-----------------------------------------------------------------------------

LEMMA SInvInit == Init => SInv
BY DEF Init, ClientInit, KVInit, SInv, Typed, CallsOK, PromptOK, Made, Entries

LEMMA PromptKept ==
    ASSUME PromptOK, prompt' = prompt,
           \A j \in Made : j \in Made' /\ calls'[j].by = calls[j].by
    PROVE  PromptOK'
BY DEF PromptOK, Made

LEMMA SInvNext == SInv /\ [Next]_vars => SInv'
<1> SUFFICES ASSUME SInv, [Next]_vars PROVE SInv'
  OBVIOUS
<1>1. CASE Connect
  BY <1>1, ConnectKeeps, PromptKept DEF Connect, SInv
<1>2. CASE Connected
  <2>1. Typed' /\ CallsOK'
    BY <1>2 DEF Connected, cliVars, kvVars, SInv, Typed, CallsOK, Made
  <2>2. PromptOK'
    BY <1>2 DEF Connected, cliVars, PromptOK, Made
  <2> QED
    BY <2>1, <2>2 DEF SInv
<1>3. CASE Command
  BY <1>3, CommandKeeps, PromptKept DEF Command, SInv
<1>4. CASE Exit
  <2>1. Typed' /\ CallsOK'
    BY <1>4 DEF Exit, cliVars, kvVars, SInv, Typed, CallsOK, Made
  <2>2. PromptOK'
    BY <1>4 DEF Exit, cliVars, PromptOK
  <2> QED
    BY <2>1, <2>2 DEF SInv
<1>5. ASSUME NEW p \in Caller \ {Cli}, Program(p) PROVE SInv'
  BY <1>5, ProgramKeeps, PromptKept DEF Program, SInv
<1>6. CASE CallStep /\ UNCHANGED prompt
  BY <1>6, CallStepKeeps, PromptKept DEF SInv
<1>7. CASE UNCHANGED vars
  BY <1>7 DEF vars, cliVars, kvVars, SInv, Typed, CallsOK, PromptOK, Made
<1> QED
  BY <1>1, <1>2, <1>3, <1>4, <1>5, <1>6, <1>7 DEF Next

LEMMA SInvImplies == SInv => CTypeOK /\ LifetimeKept /\ RemainingTrue
<1> SUFFICES ASSUME SInv PROVE CTypeOK /\ LifetimeKept /\ RemainingTrue
  OBVIOUS
<1>1. ASSUME NEW i \in Made PROVE calls[i] \in Call /\ CallOK(calls[i], clock)
  BY CallTyped DEF SInv, CallsOK
<1>2. CTypeOK
  BY <1>1 DEF SInv, PromptOK, CTypeOK, ClientTypeOK, CallOK, Call
<1>3. ASSUME NEW i \in Made, calls[i].op = "set", calls[i].err = "none"
      PROVE  Kept(calls[i], clock)
  BY <1>1, <1>3 DEF CallOK, IsError
<1>4. LifetimeKept
  BY <1>3 DEF LifetimeKept, Kept
<1>5. ASSUME NEW i \in Made, calls[i].op \in {"get", "ttl"}, calls[i].data # None
      PROVE  Left(calls[i], clock)
  BY <1>1, <1>5 DEF CallOK
<1>6. RemainingTrue
  BY <1>5 DEF RemainingTrue, Left
<1> QED
  BY <1>2, <1>4, <1>6

\* client.go, http_handler.go: every call keeps its type, a read that was served
\* has its entry, and the prompt reads lines only after its Health call.
THEOREM SessionTyped == Spec => []CTypeOK
<1> QED
  BY SInvInit, SInvNext, SInvImplies, PTL DEF Spec

\* spec.md:11, main.go:104-111, app.go:57-60, client.go:67-69,
\* http_handler.go:65-68, service.go:156-159: whatever the width of a Duration
\* and the units, a lifetime that fits is carried from the user to the entry
\* without loss.
THEOREM LifetimesKept == Spec => []LifetimeKept
<1> QED
  BY SInvInit, SInvNext, SInvImplies, PTL DEF Spec

\* http_handler.go:97-99, service.go:255-261: both roundings of the time left are
\* within a second of it.
THEOREM RemainingIsTrue == Spec => []RemainingTrue
<1> QED
  BY SInvInit, SInvNext, SInvImplies, PTL DEF Spec

-----------------------------------------------------------------------------
(* A caller who alone writes a key reads his own writes, however many calls *)
(* time out or reach the server late.                                       *)

\* The writes of k among the first n - 1 calls that were acknowledged, and
\* those whose outcome the caller was not told.
Before(n, k, errs) == {i \in 1 .. n - 1 : WriteOf(calls[i], k) /\ calls[i].err \in errs}
Acked(n, k) == Before(n, k, {"none"})
Lost(n, k)  == Before(n, k, {"transport", "internal"})

LastAcked(n, k) ==
    IF Acked(n, k) = {} THEN Nil ELSE Leaves(calls[Max(Acked(n, k))])

LEMMA ExplainsIs ==
    ASSUME NEW n, NEW k
    PROVE  Explains(n, k) = {LastAcked(n, k)} \cup {Leaves(calls[i]) : i \in Lost(n, k)}
BY DEF Explains, LastAcked, Acked, Lost, Before

LEMMA MaxIs ==
    ASSUME NEW S, S \subseteq Nat, NEW m \in S, \A i \in S : i <= m
    PROVE  Max(S) = m
<1>1. \A x \in S : (\A y \in S : x >= y) => x = m
  OBVIOUS
<1> QED
  BY <1>1 DEF Max

\* Call i asks the same as before.
Asks(c) == <<c.by, c.op, c.key, c.val, c.ttl>>
Persist == \A i \in Made : i \in Made' /\ Asks(calls'[i]) = Asks(calls[i])

LEMMA LeavesSame ==
    ASSUME NEW c, NEW d, Asks(d) = Asks(c)
    PROVE  Leaves(d) = Leaves(c) /\ \A k : WriteOf(d, k) <=> WriteOf(c, k)
BY DEF Asks, Leaves, WriteOf

\* Nothing is explained otherwise as long as no write of the key returns.
LEMMA ExplainsSame ==
    ASSUME Typed, Persist, NEW n \in 1 .. Len(calls) + 1, NEW k,
           \A i \in 1 .. n - 1 : WriteOf(calls[i], k) => calls'[i].err = calls[i].err
    PROVE  Explains(n, k)' = Explains(n, k)
<1>1. Len(calls) \in Nat /\ Made = 1 .. Len(calls)
  BY DEF Typed, Made
<1>2. ASSUME NEW i \in 1 .. n - 1
      PROVE  /\ Leaves(calls'[i]) = Leaves(calls[i])
             /\ WriteOf(calls'[i], k) <=> WriteOf(calls[i], k)
             /\ WriteOf(calls[i], k) => calls'[i].err = calls[i].err
  <2>1. i \in Made
    BY <1>1
  <2> QED
    BY <2>1, LeavesSame DEF Persist
<1>3. Acked(n, k)' = Acked(n, k) /\ Lost(n, k)' = Lost(n, k)
  BY <1>2 DEF Acked, Lost, Before
<1>4. Acked(n, k) \subseteq 1 .. n - 1 /\ Lost(n, k) \subseteq 1 .. n - 1 /\ n - 1 \in Nat
  BY <1>1 DEF Acked, Lost, Before
<1>5. LastAcked(n, k)' = LastAcked(n, k)
  <2>1. Acked(n, k) # {} => Max(Acked(n, k)) \in 1 .. n - 1
    BY <1>4, HasMax
  <2> QED
    BY <1>2, <1>3, <2>1 DEF LastAcked
<1>6. \A i \in Lost(n, k) : Leaves(calls'[i]) = Leaves(calls[i])
  BY <1>2, <1>4
<1>7. Explains(n, k) = {LastAcked(n, k)} \cup {Leaves(calls[i]) : i \in Lost(n, k)}
  BY ExplainsIs
<1>8. Explains(n, k)' = {LastAcked(n, k)'} \cup {Leaves(calls'[i]) : i \in Lost(n, k)'}
  BY DEF Explains, LastAcked, Acked, Lost, Before
<1> QED
  BY <1>3, <1>5, <1>6, <1>7, <1>8
-----------------------------------------------------------------------------
(* The invariant *)

\* What a read would find now.
Cur(k) == IF kv[k] = None THEN Nil ELSE kv[k].val

\* A caller makes one call at a time; one that has returned was answered,
\* unless he gave up.
Sequential ==
    /\ \A i, j \in Made : i < j /\ calls[i].by = calls[j].by => ~Waiting(calls[i])
    /\ \A i \in Made : calls[i].err \notin {"none yet", "transport"} =>
                        calls[i].at = "answered"

\* A key that is only written without a lifetime has no deadline.
Lifeless ==
    /\ deadlines \subseteq Key \X Nat
    /\ \A i \in Made : calls[i].op = "set" /\ calls[i].ttl = 0 => calls[i].exp = 0
    /\ \A p \in Caller, k \in Key : Owns(p, k) =>
           /\ kv[k] # None => kv[k].exp = 0
           /\ \A x \in Nat : <<k, x>> \notin deadlines

\* The write that is done, and not returned yet.
Underway(w, k) ==
    WriteOf(calls[w], k) /\ Waiting(calls[w]) /\ calls[w].at = "answered"

\* The store holds what the writes explain, the one under way included.
StoreSays ==
    \A p \in Caller, k \in Key : Owns(p, k) =>
        \/ Cur(k) \in Explains(Len(calls) + 1, k)
        \/ \E w \in Made : /\ Underway(w, k) /\ calls[w].code \in {"ok", "internal"}
                          /\ Cur(k) = Leaves(calls[w])

\* Once a write is acknowledged only a lost one may have overwritten it.
AckedLast ==
    \A p \in Caller, k \in Key : Owns(p, k) =>
        \A w \in Made : Underway(w, k) /\ calls[w].code = "ok" =>
            \/ Cur(k) = Leaves(calls[w])
            \/ \E i \in Lost(Len(calls) + 1, k) : Cur(k) = Leaves(calls[i])

\* What a read has found, explained by E.
FoundIn(c, E) ==
    /\ c.at = "begun" \/ (c.at = "answered" /\ c.code = "ok") => c.entry.val \in E
    /\ c.at = "answered" /\ c.code = "notFound" => Nil \in E

Looks == {"get", "exists"}

ReadsFine ==
    \A j \in Made : calls[j].op \in Looks /\ Waiting(calls[j])
                   /\ Owns(calls[j].by, calls[j].key) =>
        FoundIn(calls[j], Explains(j, calls[j].key))

RInv ==
    SInv /\ Sequential /\ Lifeless /\ StoreSays /\ AckedLast /\ ReadsFine /\ ReadsExplained

-----------------------------------------------------------------------------
(* What a step may disturb *)

LEMMA OwnsBefore ==
    ASSUME Persist, NEW p, NEW k, Owns(p, k)'
    PROVE  Owns(p, k)
<1> SUFFICES ASSUME NEW i \in Made, WriteOf(calls[i], k)
             PROVE  calls[i].by = p /\ calls[i].ttl = 0
  BY DEF Owns
<1>1. i \in Made' /\ Asks(calls'[i]) = Asks(calls[i])
  BY DEF Persist
<1>2. WriteOf(calls'[i], k) /\ calls'[i].by = calls[i].by /\ calls'[i].ttl = calls[i].ttl
  BY <1>1, LeavesSame DEF Asks
<1> QED
  BY <1>1, <1>2 DEF Owns

\* The only write of an owned key that may be under way is the last.
LEMMA LastOne ==
    ASSUME RInv, NEW i \in Made, NEW j \in Made, Waiting(calls[i]),
           calls[i].by = calls[j].by
    PROVE  j <= i /\ (Waiting(calls[j]) => i = j)
<1>1. i \in Nat /\ j \in Nat
  BY DEF RInv, SInv, Typed, Made
<1>2. ~(i < j) /\ (j < i => ~Waiting(calls[j]))
  BY DEF RInv, Sequential
<1> QED
  BY <1>1, <1>2

\* What the writes explain does not depend on calls that explain nothing.
LEMMA ExplainsWider ==
    ASSUME Typed, NEW m \in 1 .. Len(calls) + 1, NEW k,
           \A i \in m .. Len(calls) : WriteOf(calls[i], k) =>
               calls[i].err \notin {"none", "transport", "internal"}
    PROVE  Explains(Len(calls) + 1, k) = Explains(m, k)
<1>1. Len(calls) \in Nat
  BY DEF Typed
<1>2. Acked(Len(calls) + 1, k) = Acked(m, k) /\ Lost(Len(calls) + 1, k) = Lost(m, k)
  BY <1>1 DEF Acked, Lost, Before
<1> QED
  BY <1>2, ExplainsIs DEF LastAcked

\* For the caller who owns a key, and waits, all its writes are before.
LEMMA WaitingSees ==
    ASSUME RInv, NEW i \in Made, Waiting(calls[i]), NEW k,
           Owns(calls[i].by, k), ~WriteOf(calls[i], k)
    PROVE  Explains(Len(calls) + 1, k) = Explains(i, k)
<1>1. Len(calls) \in Nat /\ Made = 1 .. Len(calls) /\ Typed
  BY DEF RInv, SInv, Typed, Made
<1>2. ASSUME NEW j \in i .. Len(calls), WriteOf(calls[j], k) PROVE FALSE
  <2>1. j \in Made /\ calls[j].by = calls[i].by
    BY <1>1, <1>2 DEF Owns
  <2>2. j = i
    BY <1>1, <2>1, LastOne
  <2> QED
    BY <1>2, <2>2
<1> QED
  BY <1>1, <1>2, ExplainsWider

\* And what the store holds is explained.
LEMMA WaitingFinds ==
    ASSUME RInv, NEW i \in Made, Waiting(calls[i]), NEW k \in Key,
           Owns(calls[i].by, k), ~WriteOf(calls[i], k)
    PROVE  Cur(k) \in Explains(i, k)
<1>1. calls[i].by \in Caller
  BY CallTyped DEF RInv, SInv, Call
<1>2. ASSUME NEW w \in Made, Underway(w, k) PROVE FALSE
  <2>1. calls[w].by = calls[i].by /\ Waiting(calls[w])
    BY <1>2 DEF Underway, Owns
  <2>2. w = i
    BY <2>1, LastOne
  <2> QED
    BY <1>2, <2>2 DEF Underway
<1>3. Cur(k) \in Explains(Len(calls) + 1, k)
  BY <1>1, <1>2 DEF RInv, StoreSays
<1> QED
  BY <1>3, WaitingSees
-----------------------------------------------------------------------------
(* The steps keep the invariant *)

Mine == Sequential /\ Lifeless /\ StoreSays /\ AckedLast /\ ReadsFine /\ ReadsExplained

LEMMA BecomesPersist ==
    ASSUME NEW i \in Made, NEW c, Becomes(i, c), Asks(c) = Asks(calls[i])
    PROVE  Persist
BY DEF Becomes, Persist, Made

\* A step of call i in the server that leaves the store alone.
LEMMA CalmKeeps ==
    ASSUME RInv, NEW i \in Made, NEW c \in Call, Becomes(i, c),
           Asks(c) = Asks(calls[i]), c.err = calls[i].err,
           kv' = kv, deadlines' = deadlines,
           calls[i].at # "answered",
           c.op = "set" /\ c.ttl = 0 => c.exp = 0,
           c.op \in Writes /\ c.at = "answered" => c.code \notin {"ok", "internal"},
           c.op \in Looks /\ Waiting(c) /\ Owns(c.by, c.key) =>
               FoundIn(c, Explains(i, c.key))
    PROVE  Mine'
<1>1. Typed /\ Len(calls) \in Nat /\ Made = 1 .. Len(calls) /\ calls[i] \in Call
  BY CallTyped DEF RInv, SInv, Typed, Made
<1>2. Persist /\ Made' = Made /\ Len(calls') = Len(calls) /\ calls'[i] = c
      /\ \A j \in Made : j # i => calls'[j] = calls[j]
  BY BecomesPersist DEF Becomes, Made
<1>3. \A p, k : Owns(p, k)' => Owns(p, k)
  BY <1>2, OwnsBefore
<1>4. \A n \in 1 .. Len(calls) + 1 : \A k : Explains(n, k)' = Explains(n, k)
  <2> SUFFICES ASSUME NEW n \in 1 .. Len(calls) + 1, NEW k
               PROVE  Explains(n, k)' = Explains(n, k)
    OBVIOUS
  <2>1. \A j \in 1 .. n - 1 : calls'[j].err = calls[j].err
    BY <1>1, <1>2
  <2> QED
    BY <1>1, <1>2, <2>1, ExplainsSame
<1>5. \A k : Cur(k)' = Cur(k)
  BY DEF Cur
<1>6. \A j \in Made : Asks(calls'[j]) = Asks(calls[j]) /\ calls'[j].err = calls[j].err
  BY <1>2
<1>7. \A j \in Made : /\ calls'[j].by = calls[j].by /\ calls'[j].op = calls[j].op
                      /\ calls'[j].key = calls[j].key /\ calls'[j].ttl = calls[j].ttl
  BY <1>6 DEF Asks
<1>8. Sequential'
  <2>1. calls[i].err \in {"none yet", "transport"}
    BY DEF RInv, Sequential
  <2>2. \A j \in Made : calls'[j].err \notin {"none yet", "transport"} =>
            calls'[j].at = "answered"
    BY <1>2, <2>1 DEF RInv, Sequential
  <2>3. \A j, n \in Made : j < n /\ calls'[j].by = calls'[n].by => ~Waiting(calls'[j])
    BY <1>6, <1>7 DEF RInv, Sequential, Waiting
  <2> QED
    BY <1>2, <2>2, <2>3 DEF Sequential
<1>9. Lifeless'
  BY <1>2, <1>3, <1>7 DEF RInv, Lifeless
<1>10. \A w \in Made : \A k : Underway(w, k) => w # i /\ Underway(w, k)' /\ calls'[w] = calls[w]
  BY <1>2 DEF Underway
<1>11. StoreSays'
  BY <1>1, <1>2, <1>3, <1>4, <1>5, <1>10 DEF RInv, StoreSays
<1>12. ASSUME NEW k, NEW w \in Made, Underway(w, k)', calls'[w].code = "ok"
       PROVE  Underway(w, k) /\ calls'[w] = calls[w] /\ calls[w].code = "ok"
  <2>1. CASE w = i
    BY <1>2, <1>12, <2>1 DEF Underway, WriteOf
  <2>2. CASE w # i
    BY <1>2, <1>12, <2>2 DEF Underway
  <2> QED
    BY <2>1, <2>2
<1>13. ASSUME NEW k PROVE /\ Lost(Len(calls) + 1, k)' = Lost(Len(calls) + 1, k)
                          /\ \A j \in Lost(Len(calls) + 1, k) :
                                 j \in Made /\ Leaves(calls'[j]) = Leaves(calls[j])
  BY <1>1, <1>2, <1>6, LeavesSame DEF Lost, Before
<1>14. AckedLast'
  BY <1>1, <1>2, <1>3, <1>5, <1>12, <1>13 DEF RInv, AckedLast
<1>15. ReadsFine'
  BY <1>1, <1>2, <1>3, <1>4, <1>7 DEF RInv, ReadsFine, FoundIn
<1>16. ReadsExplained'
  <2>1. calls'[i].err # "none"
    BY <1>6 DEF RInv, Sequential
  <2> SUFFICES ASSUME NEW j \in Made, j # i, calls[j].err = "none",
                      Owns(calls[j].by, calls[j].key)'
               PROVE  /\ calls[j].op = "get" => calls[j].res \in Explains(j, calls[j].key)'
                      /\ calls[j].op = "exists" =>
                            \E found \in Explains(j, calls[j].key)' : calls[j].res = (found # Nil)
    BY <1>2, <2>1 DEF ReadsExplained
  <2> QED
    BY <1>1, <1>2, <1>3, <1>4, <1>6, <1>7 DEF RInv, ReadsExplained
<1> QED
  BY <1>8, <1>9, <1>11, <1>14, <1>15, <1>16 DEF Mine
\* A new call.
Adds(l, c) ==
    /\ l = Len(calls) + 1 /\ l = Len(calls')
    /\ DOMAIN calls' = 1 .. l
    /\ \A i \in Made : calls'[i] = calls[i]
    /\ calls'[l] = c

Fresh(c, p) == c.by = p /\ c.at = "sent" /\ c.err = "none yet" /\ c.exp = 0

LEMMA AskingKeeps ==
    ASSUME RInv, NEW p \in Caller, Free(p), NEW l, NEW c \in Call, Adds(l, c),
           Fresh(c, p),
           kv' = kv, deadlines' = deadlines
    PROVE  Mine'
<1>1. Typed /\ Len(calls) \in Nat /\ Made = 1 .. Len(calls)
  BY DEF RInv, SInv, Typed, Made
<1>2. /\ Persist /\ Made' = 1 .. l /\ l = Len(calls) + 1 /\ l = Len(calls')
      /\ \A i \in Made : calls'[i] = calls[i]
      /\ calls'[l] = c
  BY <1>1 DEF Persist, Made, Adds
<1>3. \A q, k : Owns(q, k)' => Owns(q, k)
  BY <1>2, OwnsBefore
<1>4. ASSUME NEW n \in 1 .. l, NEW k PROVE Explains(n, k)' = Explains(n, k)
  <2>1. \A j \in 1 .. n - 1 : calls'[j].err = calls[j].err
    BY <1>1, <1>2
  <2> QED
    BY <1>1, <1>2, <2>1, ExplainsSame
<1>5. ASSUME NEW k
      PROVE  /\ Lost(l + 1, k)' = Lost(l, k) /\ Acked(l + 1, k)' = Acked(l, k)
             /\ Lost(l, k)' = Lost(l, k) /\ Acked(l, k)' = Acked(l, k)
  <2>1. \A i \in 1 .. l - 1 : calls'[i] = calls[i]
    BY <1>1, <1>2
  <2>2. calls'[l].err \notin {"none", "transport", "internal"}
    <3>1. c.err = "none yet" /\ calls'[l] = c
      BY <1>2 DEF Fresh
    <3> QED
      BY <3>1
  <2>3. Lost(l, k)' = Lost(l, k) /\ Acked(l, k)' = Acked(l, k)
    BY <2>1 DEF Lost, Acked, Before
  <2>4. Lost(l + 1, k)' = Lost(l, k)' /\ Acked(l + 1, k)' = Acked(l, k)'
    <3>1. l \in Nat /\ 1 .. (l + 1) - 1 = (1 .. l - 1) \cup {l}
      BY <1>1, <1>2
    <3> QED
      BY <2>2, <3>1 DEF Lost, Acked, Before
  <2> QED
    BY <2>3, <2>4
<1>6. ASSUME NEW k PROVE Explains(l + 1, k)' = Explains(l, k)
  <2>1. Explains(l + 1, k)' = {LastAcked(l + 1, k)'} \cup {Leaves(calls'[i]) : i \in Lost(l + 1, k)'}
    BY DEF Explains, LastAcked, Acked, Lost, Before
  <2>2. Explains(l, k)' = {LastAcked(l, k)'} \cup {Leaves(calls'[i]) : i \in Lost(l, k)'}
    BY DEF Explains, LastAcked, Acked, Lost, Before
  <2>3. LastAcked(l + 1, k)' = LastAcked(l, k)'
    BY <1>5 DEF LastAcked
  <2>4. l \in 1 .. l
    BY <1>1, <1>2
  <2> QED
    BY <1>4, <1>5, <2>1, <2>2, <2>3, <2>4
<1>7. \A k : Cur(k)' = Cur(k)
  BY DEF Cur
<1>8. Len(calls') + 1 = l + 1
  BY <1>2
<1>10. ASSUME NEW k, NEW w \in Made', Underway(w, k)'
       PROVE  w \in Made /\ Underway(w, k) /\ calls'[w] = calls[w]
  <2>1. w # l
    BY <1>2, <1>10 DEF Underway, Fresh
  <2> QED
    BY <1>1, <1>2, <1>10, <2>1 DEF Underway
<1>11. Sequential'
  <2>1. ASSUME NEW i \in Made', NEW j \in Made', i < j, calls'[i].by = calls'[j].by
        PROVE  ~Waiting(calls'[i])
    <3>1. i \in Made /\ calls'[i] = calls[i]
      BY <1>1, <1>2, <2>1
    <3>2. CASE j = l
      BY <1>2, <2>1, <3>1, <3>2 DEF Free, Fresh
    <3>3. CASE j # l
      <4>1. j \in Made /\ calls'[j] = calls[j]
        BY <1>1, <1>2, <3>3
      <4> QED
        BY <2>1, <3>1, <4>1 DEF RInv, Sequential
    <3> QED
      BY <3>2, <3>3
  <2>2. ASSUME NEW i \in Made', calls'[i].err \notin {"none yet", "transport"}
        PROVE  calls'[i].at = "answered"
    <3>1. i # l
      BY <1>2, <2>2 DEF Fresh
    <3>2. i \in Made /\ calls'[i] = calls[i]
      BY <1>1, <1>2, <3>1
    <3> QED
      BY <2>2, <3>2 DEF RInv, Sequential
  <2> QED
    BY <2>1, <2>2 DEF Sequential
<1>12. Lifeless'
  <2>1. ASSUME NEW i \in Made', calls'[i].op = "set", calls'[i].ttl = 0
        PROVE  calls'[i].exp = 0
    <3>1. CASE i = l
      BY <1>2, <3>1 DEF Fresh
    <3>2. CASE i # l
      <4>1. i \in Made /\ calls'[i] = calls[i]
        BY <1>1, <1>2, <3>2
      <4> QED
        BY <2>1, <4>1 DEF RInv, Lifeless
    <3> QED
      BY <3>1, <3>2
  <2> QED
    BY <1>3, <2>1 DEF RInv, Lifeless
<1>13. StoreSays'
  <2> SUFFICES ASSUME NEW q \in Caller, NEW k \in Key, Owns(q, k)'
               PROVE  \/ Cur(k)' \in Explains(l + 1, k)'
                      \/ \E w \in Made : /\ Underway(w, k)' /\ calls'[w].code \in {"ok", "internal"}
                                        /\ Cur(k)' = Leaves(calls'[w])
    BY <1>2, <1>8 DEF StoreSays, Persist
  <2>1. \/ Cur(k) \in Explains(Len(calls) + 1, k)
        \/ \E w \in Made : /\ Underway(w, k) /\ calls[w].code \in {"ok", "internal"}
                          /\ Cur(k) = Leaves(calls[w])
    BY <1>3 DEF RInv, StoreSays
  <2>2. \A w \in Made : Underway(w, k) => Underway(w, k)'
    BY <1>2 DEF Underway
  <2> QED
    BY <1>2, <1>6, <1>7, <2>1, <2>2
<1>14. AckedLast'
  <2> SUFFICES ASSUME NEW q \in Caller, NEW k \in Key, Owns(q, k)',
                      NEW w \in Made', Underway(w, k)', calls'[w].code = "ok"
               PROVE  \/ Cur(k)' = Leaves(calls'[w])
                      \/ \E i \in Lost(l + 1, k)' : Cur(k)' = Leaves(calls'[i])
    BY <1>8 DEF AckedLast
  <2>1. w \in Made /\ Underway(w, k) /\ calls'[w] = calls[w]
    BY <1>10
  <2>2. \A i \in Lost(l, k) : i \in Made /\ calls'[i] = calls[i]
    BY <1>1, <1>2 DEF Lost, Before
  <2> QED
    BY <1>2, <1>3, <1>5, <1>7, <2>1, <2>2 DEF RInv, AckedLast
<1>15. ReadsFine'
  <2> SUFFICES ASSUME NEW j \in Made', (calls[j].op \in Looks)', Waiting(calls[j])',
                      Owns(calls[j].by, calls[j].key)'
               PROVE  FoundIn(calls[j], Explains(j, calls[j].key))'
    BY DEF ReadsFine
  <2>1. CASE j = l
    BY <1>2, <2>1 DEF FoundIn, Fresh
  <2>2. CASE j # l
    <3>1. j \in Made /\ calls'[j] = calls[j] /\ j \in 1 .. l
      BY <1>1, <1>2, <2>2
    <3> QED
      BY <1>3, <1>4, <3>1 DEF RInv, ReadsFine, FoundIn
  <2> QED
    BY <2>1, <2>2
<1>16. ReadsExplained'
  <2> SUFFICES ASSUME NEW j \in Made', (calls[j].err = "none")',
                      Owns(calls[j].by, calls[j].key)'
               PROVE  (/\ calls[j].op = "get" => calls[j].res \in Explains(j, calls[j].key)
                       /\ calls[j].op = "exists" =>
                            \E found \in Explains(j, calls[j].key) : calls[j].res = (found # Nil))'
    BY DEF ReadsExplained
  <2>1. j # l
    BY <1>2 DEF Fresh
  <2>2. j \in Made /\ calls'[j] = calls[j] /\ j \in 1 .. l
    BY <1>1, <1>2, <2>1
  <2> QED
    BY <1>3, <1>4, <2>2 DEF RInv, ReadsExplained
<1> QED
  BY <1>11, <1>12, <1>13, <1>14, <1>15, <1>16 DEF Mine
\* What a write does to its key.
LEMMA WriteStores ==
    ASSUME RInv, NEW i \in Made, Write(i), NEW key, key = calls[i].key
    PROVE  /\ key \in Key /\ calls[i].op \in Writes /\ calls[i].at = "begun"
           /\ Cur(key)' = Leaves(calls[i])
           /\ \A k \in Key : k # key => kv'[k] = kv[k]
           /\ kv'[key] # None => kv'[key].exp = calls[i].exp
           /\ \/ deadlines' = deadlines
              \/ /\ calls[i].op = "set" /\ calls[i].exp > 0
                 /\ deadlines' = deadlines \cup {<<key, calls[i].exp>>}
<1>1. calls[i] \in Call /\ CallOK(calls[i], clock) /\ kv \in [Key -> Entries]
  BY CallTyped DEF RInv, SInv, CallsOK, Typed
<1>2. calls[i].op \in Writes /\ key \in Key /\ calls[i].exp \in Nat /\ calls[i].at = "begun"
  BY <1>1 DEF CallOK, Call, Write, Writes
<1>3. CASE calls[i].op = "set" /\ Put(key, calls[i].val, calls[i].exp)
  <2> DEFINE e == [val |-> calls[i].val, exp |-> calls[i].exp]
  <2>1. calls[i].val \in Value
    BY <1>1, <1>3 DEF CallOK
  <2>2. e \in [val : Value, exp : Nat] /\ e # None
    BY <1>2, <2>1, ClientAssumption
  <2>3. kv'[key] = e /\ \A k \in Key : k # key => kv'[k] = kv[k]
    BY <1>1, <1>2, <1>3 DEF Put
  <2>4. Cur(key)' = Leaves(calls[i])
    BY <1>3, <2>2, <2>3 DEF Cur, Leaves
  <2>5. \/ deadlines' = deadlines
        \/ /\ calls[i].op = "set" /\ calls[i].exp > 0
           /\ deadlines' = deadlines \cup {<<key, calls[i].exp>>}
    BY <1>3 DEF Put
  <2> QED
    BY <1>2, <2>3, <2>4, <2>5
<1>4. CASE calls[i].op = "del" /\ Drop(key)
  <2>1. kv'[key] = None /\ \A k \in Key : k # key => kv'[k] = kv[k]
    BY <1>1, <1>2, <1>4 DEF Drop
  <2>2. Cur(key)' = Leaves(calls[i])
    BY <1>4, <2>1 DEF Cur, Leaves
  <2> QED
    BY <1>2, <1>4, <2>1, <2>2 DEF Drop
<1> QED
  BY <1>3, <1>4 DEF Write
LEMMA WriteKeepsReads ==
    ASSUME RInv, NEW i \in Made, Write(i)
    PROVE  Mine'
<1> DEFINE key == calls[i].key
<1>1. Typed /\ Len(calls) \in Nat /\ Made = 1 .. Len(calls) /\ calls[i] \in Call
  BY CallTyped DEF RInv, SInv, Typed, Made
<1>2. PICK code \in {"ok", "internal"} : Answer(i, code, None)
  BY DEF Write
<1>3. PICK c \in Call : /\ Becomes(i, c) /\ Asks(c) = Asks(calls[i]) /\ c.err = calls[i].err
                        /\ c.at = "answered" /\ c.code = code /\ c.exp = calls[i].exp
  <2> DEFINE d == [calls[i] EXCEPT !.at = "answered", !.code = code, !.data = None]
  <2>1. d \in Call
    BY <1>1 DEF Call, Codes
  <2>2. Becomes(i, d)
    BY <1>1, <1>2, AnswerMoves DEF Codes
  <2>3. /\ Asks(d) = Asks(calls[i]) /\ d.err = calls[i].err
        /\ d.at = "answered" /\ d.code = code /\ d.exp = calls[i].exp
    BY <1>1 DEF Call, Asks
  <2> HIDE DEF d
  <2> QED
    BY <2>1, <2>2, <2>3
<1>4. /\ Persist /\ Made' = Made /\ Len(calls') = Len(calls) /\ calls'[i] = c
      /\ \A j \in Made : j # i => calls'[j] = calls[j]
  BY <1>3, BecomesPersist DEF Becomes, Made
<1>5. \A p, k : Owns(p, k)' => Owns(p, k)
  BY <1>4, OwnsBefore
<1>6. \A j \in Made : Asks(calls'[j]) = Asks(calls[j]) /\ calls'[j].err = calls[j].err
  BY <1>3, <1>4
<1>7. \A j \in Made : /\ calls'[j].by = calls[j].by /\ calls'[j].op = calls[j].op
                      /\ calls'[j].key = calls[j].key /\ calls'[j].ttl = calls[j].ttl
                      /\ Leaves(calls'[j]) = Leaves(calls[j])
                      /\ \A k : WriteOf(calls'[j], k) <=> WriteOf(calls[j], k)
  BY <1>6, LeavesSame DEF Asks
<1>8. ASSUME NEW n \in 1 .. Len(calls) + 1, NEW k PROVE Explains(n, k)' = Explains(n, k)
  <2>1. \A j \in 1 .. n - 1 : calls'[j].err = calls[j].err
    BY <1>1, <1>6
  <2> QED
    BY <1>1, <1>4, <2>1, ExplainsSame
<1>9. ASSUME NEW k PROVE /\ Lost(Len(calls) + 1, k)' = Lost(Len(calls) + 1, k)
                         /\ \A j \in Lost(Len(calls) + 1, k) :
                                j \in Made /\ Leaves(calls'[j]) = Leaves(calls[j])
  BY <1>1, <1>4, <1>6, <1>7 DEF Lost, Before
<1>10. /\ key \in Key /\ calls[i].op \in Writes /\ calls[i].at = "begun"
       /\ \A k \in Key : k = key => Cur(k)' = Leaves(calls[i])
       /\ \A k \in Key : k # key => kv'[k] = kv[k]
       /\ kv'[key] # None => kv'[key].exp = calls[i].exp
       /\ \/ deadlines' = deadlines
          \/ /\ calls[i].op = "set" /\ calls[i].exp > 0
             /\ deadlines' = deadlines \cup {<<key, calls[i].exp>>}
  BY WriteStores
<1>11. \A k \in Key : k # key => Cur(k)' = Cur(k)
  BY <1>10 DEF Cur
<1>12. WriteOf(calls[i], key) /\ \A k : WriteOf(calls[i], k) => k = key
  BY <1>10 DEF WriteOf
<1>13. calls[i].err \in {"none yet", "transport"}
  BY <1>10 DEF RInv, Sequential
<1>14. ~Waiting(calls[i]) => i \in Lost(Len(calls) + 1, key)
  <2>1. i \in 1 .. (Len(calls) + 1) - 1
    BY <1>1
  <2>2. ~Waiting(calls[i]) => calls[i].err \in {"transport", "internal"}
    BY <1>13 DEF Waiting
  <2> HIDE DEF key
  <2> QED
    BY <1>12, <2>1, <2>2 DEF Lost, Before
<1> HIDE DEF key
<1>15. Sequential'
  <2>1. \A j \in Made : calls'[j].err \notin {"none yet", "transport"} =>
            calls'[j].at = "answered"
    BY <1>3, <1>4 DEF RInv, Sequential
  <2>2. \A j, n \in Made : j < n /\ calls'[j].by = calls'[n].by => ~Waiting(calls'[j])
    BY <1>6, <1>7 DEF RInv, Sequential, Waiting
  <2> QED
    BY <1>4, <2>1, <2>2 DEF Sequential
<1>16. Lifeless'
  <2>1. calls[i].exp \in Nat
    BY <1>1 DEF Call
  <2>2. deadlines' \subseteq Key \X Nat
    BY <1>10, <2>1 DEF RInv, Lifeless
  <2>3. \A j \in Made : calls'[j].exp = calls[j].exp
    BY <1>3, <1>4
  <2>4. \A j \in Made' : calls'[j].op = "set" /\ calls'[j].ttl = 0 => calls'[j].exp = 0
    BY <1>4, <1>7, <2>3 DEF RInv, Lifeless
  <2>5. ASSUME NEW p \in Caller, NEW k \in Key, Owns(p, k)
        PROVE  /\ kv'[k] # None => kv'[k].exp = 0
               /\ \A x \in Nat : <<k, x>> \notin deadlines'
    <3>1. CASE k # key
      BY <1>10, <2>5, <3>1 DEF RInv, Lifeless
    <3>2. CASE k = key
      <4>1. calls[i].ttl = 0
        BY <1>12, <2>5, <3>2 DEF Owns
      <4>2. CASE calls[i].op = "set"
        BY <1>10, <2>5, <3>2, <4>1, <4>2 DEF RInv, Lifeless
      <4>3. CASE calls[i].op # "set"
        <5>1. Cur(k)' = Nil
          BY <1>10, <3>2, <4>3 DEF Leaves
        <5>2. kv'[k] = None
          <6>1. calls[i].op = "del" /\ Drop(calls[i].key) /\ kv \in [Key -> Entries]
            BY <1>1, <4>3 DEF Write, Typed
          <6> QED
            BY <3>2, <6>1 DEF Drop, key
        <5> QED
          BY <1>10, <2>5, <3>2, <4>3, <5>2 DEF RInv, Lifeless
      <4> QED
        BY <4>2, <4>3
    <3> QED
      BY <3>1, <3>2
  <2> QED
    BY <1>5, <2>2, <2>4, <2>5 DEF Lifeless
<1>17. \A w \in Made : \A k : Underway(w, k) => w # i /\ Underway(w, k)' /\ calls'[w] = calls[w]
  BY <1>4, <1>10 DEF Underway
<1>18. StoreSays'
  <2> DEFINE Says(k) ==
                 \/ Cur(k)' \in Explains(Len(calls) + 1, k)
                 \/ \E w \in Made : /\ Underway(w, k)' /\ calls'[w].code \in {"ok", "internal"}
                                   /\ Cur(k)' = Leaves(calls'[w])
  <2> SUFFICES ASSUME NEW p \in Caller, NEW k \in Key, Owns(p, k)
               PROVE  Says(k)
    <3> HIDE DEF Says
    <3>1. SUFFICES ASSUME NEW p \in Caller, NEW k \in Key, Owns(p, k)', Says(k)
                   PROVE  \/ Cur(k)' \in Explains(Len(calls) + 1, k)'
                          \/ \E w \in Made' : /\ Underway(w, k)' /\ calls'[w].code \in {"ok", "internal"}
                                             /\ Cur(k)' = Leaves(calls'[w])
      BY <1>5 DEF StoreSays
    <3>2. Len(calls) + 1 \in 1 .. Len(calls) + 1
      BY <1>1
    <3>3. Explains(Len(calls) + 1, k)' = Explains(Len(calls) + 1, k)
      BY <1>4, <1>8, <3>2
    <3> QED
      BY <1>4, <3>1, <3>3 DEF Says
  <2>1. CASE k # key
    BY <1>7, <1>11, <1>17, <2>1 DEF RInv, StoreSays
  <2>2. CASE k = key /\ Waiting(calls[i])
    <3>1. Underway(i, k)'
      BY <1>3, <1>4, <1>6, <1>7, <1>12, <2>2 DEF Underway, Waiting
    <3> QED
      BY <1>3, <1>4, <1>7, <1>10, <2>2, <3>1
  <2>3. CASE k = key /\ ~Waiting(calls[i])
    BY <1>10, <1>14, <2>3, ExplainsIs
  <2> QED
    BY <2>1, <2>2, <2>3
<1>19. AckedLast'
  <2> SUFFICES ASSUME NEW p \in Caller, NEW k \in Key, Owns(p, k),
                      NEW w \in Made, Underway(w, k)', calls'[w].code = "ok"
               PROVE  \/ Cur(k)' = Leaves(calls[w])
                      \/ \E j \in Lost(Len(calls) + 1, k) : Cur(k)' = Leaves(calls[j])
    BY <1>4, <1>5, <1>7, <1>9 DEF AckedLast
  <2>1. CASE w = i
    BY <1>7, <1>10, <1>12, <2>1 DEF Underway
  <2>2. CASE w # i
    <3>1. Underway(w, k) /\ calls[w].code = "ok"
      BY <1>4, <2>2 DEF Underway
    <3>2. CASE k # key
      BY <1>11, <3>1, <3>2 DEF RInv, AckedLast
    <3>3. CASE k = key
      <4>1. calls[w].by = calls[i].by
        BY <1>12, <3>1, <3>3 DEF Underway, Owns
      <4>2. ~Waiting(calls[i])
        BY <2>2, <3>1, <4>1, LastOne DEF Underway
      <4> QED
        BY <1>10, <1>14, <3>3, <4>2
    <3> QED
      BY <3>2, <3>3
  <2> QED
    BY <2>1, <2>2
<1>20. ReadsFine'
  <2>1. calls[i].op \notin Looks
    BY <1>10 DEF Writes, Looks
  <2> QED
    BY <1>1, <1>4, <1>5, <1>7, <1>8, <2>1 DEF RInv, ReadsFine, FoundIn
<1>21. ReadsExplained'
  <2>1. calls'[i].err # "none"
    BY <1>6, <1>13
  <2> SUFFICES ASSUME NEW j \in Made, j # i, calls[j].err = "none",
                      Owns(calls[j].by, calls[j].key)'
               PROVE  /\ calls[j].op = "get" => calls[j].res \in Explains(j, calls[j].key)'
                      /\ calls[j].op = "exists" =>
                            \E found \in Explains(j, calls[j].key)' : calls[j].res = (found # Nil)
    BY <1>4, <2>1 DEF ReadsExplained
  <2> QED
    BY <1>1, <1>4, <1>5, <1>6, <1>7, <1>8 DEF RInv, ReadsExplained
<1> QED
  BY <1>15, <1>16, <1>18, <1>19, <1>20, <1>21 DEF Mine
\* When the last write returns, or is given up, it explains what is found.
LEMMA SettledExplains ==
    ASSUME Typed, NEW i \in Made, NEW c, Becomes(i, c), Asks(c) = Asks(calls[i]),
           NEW k, WriteOf(calls[i], k), Waiting(calls[i]),
           \A j \in Made : WriteOf(calls[j], k) => j <= i,
           NEW l, l = Len(calls) + 1
    PROVE  /\ c.err = "none" =>
                 Explains(l, k)' = {Leaves(calls[i])} \cup {Leaves(calls[j]) : j \in Lost(l, k)}
           /\ c.err \in {"transport", "internal"} =>
                 Explains(l, k)' = Explains(l, k) \cup {Leaves(calls[i])}
<1>1. /\ Len(calls) \in Nat /\ Made = 1 .. Len(calls) /\ l \in Nat
      /\ 1 .. l - 1 = 1 .. Len(calls) /\ calls'[i] = c
  BY DEF Typed, Made, Becomes
<1>2. Persist
  BY BecomesPersist
<1>3. \A j \in Made : /\ Leaves(calls'[j]) = Leaves(calls[j])
                      /\ WriteOf(calls'[j], k) <=> WriteOf(calls[j], k)
  BY <1>2, LeavesSame DEF Persist
<1>4. \A j \in Made : j # i => calls'[j].err = calls[j].err
  BY DEF Becomes
<1>5. calls[i].err \notin {"none", "transport", "internal"}
  BY DEF Waiting
<1>6. /\ Acked(l, k) \subseteq Made /\ Lost(l, k) \subseteq Made
      /\ \A j \in Acked(l, k) : WriteOf(calls[j], k)
  BY <1>1 DEF Acked, Lost, Before
<1>7. Explains(l, k)' = {LastAcked(l, k)'} \cup {Leaves(calls'[j]) : j \in Lost(l, k)'}
  BY DEF Explains, LastAcked, Acked, Lost, Before
<1>8. Explains(l, k) = {LastAcked(l, k)} \cup {Leaves(calls[j]) : j \in Lost(l, k)}
  BY ExplainsIs
<1>9. ASSUME c.err = "none"
      PROVE  Explains(l, k)' = {Leaves(calls[i])} \cup {Leaves(calls[j]) : j \in Lost(l, k)}
  <2>1. Acked(l, k)' = Acked(l, k) \cup {i} /\ Lost(l, k)' = Lost(l, k)
    BY <1>1, <1>3, <1>4, <1>5, <1>9 DEF Acked, Lost, Before
  <2>2. Max(Acked(l, k)') = i
    <3>1. Acked(l, k)' \subseteq Nat /\ i \in Acked(l, k)' /\ \A j \in Acked(l, k)' : j <= i
      BY <1>1, <1>6, <2>1
    <3> DEFINE S == Acked(l, k)'
    <3>2. S \subseteq Nat /\ i \in S /\ \A j \in S : j <= i
      BY <3>1
    <3> HIDE DEF S
    <3>3. Max(S) = i
      BY <3>2, MaxIs
    <3> QED
      BY <3>3 DEF S
  <2>3. LastAcked(l, k)' = Leaves(calls[i])
    BY <1>3, <2>1, <2>2 DEF LastAcked, Max
  <2> QED
    BY <1>3, <1>6, <1>7, <2>1, <2>3
<1>10. ASSUME c.err \in {"transport", "internal"}
       PROVE  Explains(l, k)' = Explains(l, k) \cup {Leaves(calls[i])}
  <2>1. Acked(l, k)' = Acked(l, k) /\ Lost(l, k)' = Lost(l, k) \cup {i}
    BY <1>1, <1>3, <1>4, <1>5, <1>10 DEF Acked, Lost, Before
  <2>2. LastAcked(l, k)' = LastAcked(l, k)
    <3>1. Acked(l, k) # {} => Max(Acked(l, k)) \in Made
      BY <1>1, <1>6, HasMax
    <3> QED
      BY <1>3, <2>1, <3>1 DEF LastAcked
  <2> QED
    BY <1>3, <1>6, <1>7, <1>8, <2>1, <2>2
<1> QED
  BY <1>9, <1>10
\* A call d ends for its caller, as c.
Settled(d, c) ==
    /\ Waiting(d) /\ c.err # "none yet" /\ c.exp = d.exp
    /\ c.err = "transport" \/ c.at = "answered"
    /\ c.op \in Writes =>
          /\ c.err = "none" => d.at = "answered" /\ d.code = "ok"
          /\ d.at = "answered" /\ d.code = "ok" => c.err \in {"none", "transport"}
          /\ d.at = "answered" /\ d.code = "internal" => c.err \in {"internal", "transport"}

\* What a read is told is in E.
Told(c, E) ==
    /\ c.op = "get" => c.res \in E
    /\ c.op = "exists" => \E found \in E : c.res = (found # Nil)

LEMMA SettleKeeps ==
    ASSUME RInv, NEW i \in Made, NEW c \in Call, Becomes(i, c),
           Asks(c) = Asks(calls[i]), Settled(calls[i], c),
           kv' = kv, deadlines' = deadlines,
           c.err = "none" /\ Owns(c.by, c.key) => Told(c, Explains(i, c.key))
    PROVE  Mine'
<1>0. Waiting(calls[i])
  BY DEF Settled
<1>1. Typed /\ Len(calls) \in Nat /\ Made = 1 .. Len(calls) /\ calls[i] \in Call
  BY CallTyped DEF RInv, SInv, Typed, Made
<1>2. /\ Persist /\ Made' = Made /\ Len(calls') = Len(calls) /\ calls'[i] = c
      /\ \A j \in Made : j # i => calls'[j] = calls[j]
  BY BecomesPersist DEF Becomes, Made
<1>3. \A p, k : Owns(p, k)' => Owns(p, k)
  BY <1>2, OwnsBefore
<1>4. \A j \in Made : Asks(calls'[j]) = Asks(calls[j])
  BY <1>2
<1>5. \A j \in Made : /\ calls'[j].by = calls[j].by /\ calls'[j].op = calls[j].op
                      /\ calls'[j].key = calls[j].key /\ calls'[j].ttl = calls[j].ttl
                      /\ Leaves(calls'[j]) = Leaves(calls[j])
                      /\ \A k : WriteOf(calls'[j], k) <=> WriteOf(calls[j], k)
  BY <1>4, LeavesSame DEF Asks
<1>6. \A k : Cur(k)' = Cur(k)
  BY DEF Cur
<1>7. ASSUME NEW j \in Made, NEW k, Owns(calls[j].by, k)
      PROVE  Explains(j, k)' = Explains(j, k)
  <2>1. ASSUME NEW n \in 1 .. j - 1, WriteOf(calls[n], k) PROVE n # i
    <3>1. n \in Made /\ calls[n].by = calls[j].by /\ n < j
      BY <1>1, <1>7, <2>1 DEF Owns
    <3> QED
      BY <1>0, <1>1, <3>1, LastOne
  <2>2. \A n \in 1 .. j - 1 : WriteOf(calls[n], k) => calls'[n].err = calls[n].err
    BY <1>1, <1>2, <2>1
  <2>3. j \in 1 .. Len(calls) + 1
    BY <1>1
  <2> QED
    BY <1>1, <1>2, <2>2, <2>3, ExplainsSame
<1>8. PICK l : l = Len(calls) + 1 /\ l = Len(calls') + 1
  BY <1>2
<1>9. ASSUME NEW k, ~WriteOf(calls[i], k)
      PROVE  /\ Explains(l, k)' = Explains(l, k)
             /\ Lost(l, k)' = Lost(l, k)
  <2>1. \A j \in 1 .. l - 1 : /\ WriteOf(calls[j], k) => calls'[j].err = calls[j].err
                              /\ WriteOf(calls'[j], k) <=> WriteOf(calls[j], k)
    BY <1>1, <1>2, <1>5, <1>8, <1>9
  <2>2. l \in 1 .. Len(calls) + 1
    BY <1>1, <1>8
  <2>3. Explains(l, k)' = Explains(l, k)
    BY <1>1, <1>2, <2>1, <2>2, ExplainsSame
  <2>4. Lost(l, k)' = Lost(l, k)
    BY <2>1 DEF Lost, Before
  <2> QED
    BY <2>3, <2>4
<1>10. Sequential'
  <2>1. \A j \in Made : calls'[j].err \notin {"none yet", "transport"} =>
            calls'[j].at = "answered"
    BY <1>2 DEF RInv, Sequential, Settled
  <2>2. \A j \in Made : Waiting(calls'[j]) => Waiting(calls[j])
    BY <1>0, <1>2
  <2>3. \A j, n \in Made : j < n /\ calls'[j].by = calls'[n].by => ~Waiting(calls'[j])
    BY <1>5, <2>2 DEF RInv, Sequential
  <2> QED
    BY <1>2, <2>1, <2>3 DEF Sequential
<1>11. Lifeless'
  <2>1. \A j \in Made : calls'[j].exp = calls[j].exp
    BY <1>2 DEF Settled
  <2> QED
    BY <1>2, <1>3, <1>5, <2>1 DEF RInv, Lifeless
<1>12. StoreSays'
  <2> DEFINE Says(k) ==
                 \/ Cur(k) \in Explains(l, k)'
                 \/ \E w \in Made : /\ w # i /\ Underway(w, k) /\ calls[w].code \in {"ok", "internal"}
                                   /\ Cur(k) = Leaves(calls[w])
  <2> SUFFICES ASSUME NEW p \in Caller, NEW k \in Key, Owns(p, k)
               PROVE  Says(k)
    <3>1. SUFFICES ASSUME NEW p \in Caller, NEW k \in Key, Owns(p, k)', Says(k)
                   PROVE  \/ Cur(k)' \in Explains(Len(calls) + 1, k)'
                          \/ \E w \in Made' : /\ Underway(w, k)' /\ calls'[w].code \in {"ok", "internal"}
                                             /\ Cur(k)' = Leaves(calls'[w])
      <4> HIDE DEF Says
      <4> QED
        BY <1>3 DEF StoreSays
    <3>2. Explains(Len(calls) + 1, k)' = Explains(l, k)'
      BY <1>8
    <3>3. \A w \in Made : w # i /\ Underway(w, k) => Underway(w, k)' /\ calls'[w] = calls[w]
      BY <1>2 DEF Underway
    <3> QED
      BY <1>2, <1>6, <3>1, <3>2, <3>3
  <2>1. \/ Cur(k) \in Explains(l, k)
        \/ \E w \in Made : /\ Underway(w, k) /\ calls[w].code \in {"ok", "internal"}
                          /\ Cur(k) = Leaves(calls[w])
    BY <1>8 DEF RInv, StoreSays
  <2>2. CASE ~WriteOf(calls[i], k)
    BY <1>9, <2>1, <2>2 DEF Underway
  <2>3. CASE WriteOf(calls[i], k)
    <3>1. \A j \in Made : WriteOf(calls[j], k) => j <= i /\ (Waiting(calls[j]) => j = i)
      BY <1>0, <2>3, LastOne DEF Owns
    <3>2. /\ c.err = "none" =>
                 Explains(l, k)' = {Leaves(calls[i])} \cup {Leaves(calls[j]) : j \in Lost(l, k)}
          /\ c.err \in {"transport", "internal"} =>
                 Explains(l, k)' = Explains(l, k) \cup {Leaves(calls[i])}
      BY <1>0, <1>1, <1>8, <2>3, <3>1, SettledExplains
    <3>3. c.op \in Writes
      BY <1>2, <1>5, <2>3 DEF WriteOf
    <3>4. \A w \in Made : Underway(w, k) => w = i
      BY <3>1 DEF Underway
    <3>5. CASE c.err = "none"
      <4>1. Underway(i, k) /\ calls[i].code = "ok"
        BY <1>0, <2>3, <3>3, <3>5 DEF Underway, Settled
      <4>2. \/ Cur(k) = Leaves(calls[i])
            \/ \E j \in Lost(l, k) : Cur(k) = Leaves(calls[j])
        BY <1>8, <4>1 DEF RInv, AckedLast
      <4> QED
        BY <3>2, <3>5, <4>2
    <3>6. CASE c.err \in {"transport", "internal"}
      BY <2>1, <3>2, <3>4, <3>6
    <3>7. CASE c.err \notin {"none", "transport", "internal"}
      <4>1. calls[i].code \notin {"ok", "internal"} \/ calls[i].at # "answered"
        BY <3>3, <3>7 DEF Settled
      <4>2. Cur(k) \in Explains(l, k)
        BY <2>1, <3>4, <4>1 DEF Underway
      <4>3. Explains(l, k)' = Explains(l, k)
        <5>1. /\ 1 .. l - 1 = Made
              /\ calls[i].err \notin {"none", "transport", "internal"}
          <6>1. 1 .. l - 1 = Made
            BY <1>1, <1>8
          <6>2. calls[i].err \notin {"none", "transport", "internal"}
            BY <1>0 DEF Waiting
          <6> QED
            BY <6>1, <6>2
        <5>2. Acked(l, k)' = Acked(l, k) /\ Lost(l, k)' = Lost(l, k)
          BY <1>2, <1>5, <3>7, <5>1 DEF Acked, Lost, Before
        <5>3. Acked(l, k) \subseteq Made /\ Lost(l, k) \subseteq Made
          BY <5>1 DEF Acked, Lost, Before
        <5>4. LastAcked(l, k)' = LastAcked(l, k)
          <6>1. Acked(l, k) # {} => Max(Acked(l, k)) \in Made
            BY <1>1, <5>3, HasMax
          <6> QED
            BY <1>5, <5>2, <6>1 DEF LastAcked
        <5>5. Explains(l, k)' = {LastAcked(l, k)'} \cup {Leaves(calls'[j]) : j \in Lost(l, k)'}
          BY DEF Explains, LastAcked, Acked, Lost, Before
        <5> QED
          BY <1>5, <5>2, <5>3, <5>4, <5>5, ExplainsIs
      <4> QED
        BY <4>2, <4>3
    <3> QED
      BY <3>5, <3>6, <3>7
  <2> QED
    BY <2>2, <2>3
<1>13. AckedLast'
  <2> SUFFICES ASSUME NEW p \in Caller, NEW k \in Key, Owns(p, k),
                      NEW w \in Made, Underway(w, k)', calls'[w].code = "ok"
               PROVE  \/ Cur(k) = Leaves(calls'[w])
                      \/ \E j \in Lost(l, k)' : Cur(k) = Leaves(calls'[j])
    BY <1>2, <1>3, <1>6, <1>8 DEF AckedLast
  <2>1. w # i
    BY <1>2 DEF Underway, Waiting, Settled
  <2>2. Underway(w, k) /\ calls[w].code = "ok" /\ calls'[w] = calls[w]
    BY <1>2, <2>1 DEF Underway
  <2>3. ~WriteOf(calls[i], k)
    <3>1. WriteOf(calls[i], k) => calls[i].by = calls[w].by /\ Waiting(calls[w])
      BY <2>2 DEF Underway, Owns
    <3> QED
      BY <1>0, <2>1, <3>1, LastOne
  <2>4. \/ Cur(k) = Leaves(calls[w])
        \/ \E j \in Lost(l, k) : Cur(k) = Leaves(calls[j])
    BY <1>8, <2>2 DEF RInv, AckedLast
  <2>5. \A j \in Lost(l, k) : j \in Made
    BY <1>1, <1>8 DEF Lost, Before
  <2> QED
    BY <1>5, <1>9, <2>2, <2>3, <2>4, <2>5
<1>14. ReadsFine'
  <2> SUFFICES ASSUME NEW j \in Made, (calls[j].op \in Looks)', Waiting(calls[j])',
                      Owns(calls[j].by, calls[j].key)'
               PROVE  FoundIn(calls[j], Explains(j, calls[j].key))'
    BY <1>2 DEF ReadsFine
  <2>1. j # i
    BY <1>2 DEF Waiting, Settled
  <2>2. calls'[j] = calls[j]
    BY <1>2, <2>1
  <2> QED
    BY <1>3, <1>7, <2>2 DEF RInv, ReadsFine, FoundIn
<1>15. ReadsExplained'
  <2> SUFFICES ASSUME NEW j \in Made, (calls[j].err = "none")',
                      Owns(calls[j].by, calls[j].key)'
               PROVE  Told(calls[j], Explains(j, calls[j].key))'
    BY <1>2 DEF ReadsExplained, Told
  <2>1. CASE j = i
    BY <1>2, <1>3, <1>5, <1>7, <2>1 DEF Told
  <2>2. CASE j # i
    <3>1. calls'[j] = calls[j]
      BY <1>2, <2>2
    <3> QED
      BY <1>3, <1>7, <3>1 DEF RInv, ReadsExplained, Told
  <2> QED
    BY <2>1, <2>2
<1> QED
  BY <1>10, <1>11, <1>12, <1>13, <1>14, <1>15 DEF Mine
LEMMA GiveUpKeepsReads ==
    ASSUME RInv, NEW i \in Made, GiveUp(i)
    PROVE  Mine'
<1> DEFINE c == [calls[i] EXCEPT !.err = "transport"]
<1>1. calls[i] \in Call /\ Typed
  BY CallTyped DEF RInv, SInv
<1>2. Becomes(i, c) /\ c \in Call
  BY <1>1, GiveUpMoves DEF Call
<1>3. kv' = kv /\ deadlines' = deadlines
  BY DEF GiveUp, kvVars
<1>4. Asks(c) = Asks(calls[i]) /\ c.err = "transport" /\ c.exp = calls[i].exp
  BY <1>1 DEF Call, Asks
<1> HIDE DEF c
<1>5. Settled(calls[i], c)
  BY <1>4 DEF Settled, GiveUp
<1>6. c.err # "none"
  BY <1>4
<1> QED
  BY <1>2, <1>3, <1>4, <1>5, <1>6, SettleKeeps

\* A get or exists that is told an answer is told what it found.
LEMMA ToldFound ==
    ASSUME RInv, NEW i \in Made, calls[i].at = "answered", Waiting(calls[i]),
           calls[i].op \in Looks, ~IsError(calls[i]), Owns(calls[i].by, calls[i].key),
           NEW E, E = Explains(i, calls[i].key)
    PROVE  /\ calls[i].op = "get" => Result(calls[i]) \in E
           /\ calls[i].op = "exists" => \E found \in E : Result(calls[i]) = (found # Nil)
<1>1. calls[i] \in Call /\ CallOK(calls[i], clock)
  BY CallTyped DEF RInv, SInv, CallsOK
<1>2. FoundIn(calls[i], E)
  BY DEF RInv, ReadsFine
<1>3. CASE calls[i].code = "ok"
  <2>1. calls[i].entry.val \in E
    BY <1>2, <1>3 DEF FoundIn
  <2>2. calls[i].entry.val \in Value /\ calls[i].entry.val # Nil
    <3>1. calls[i].entry \in Entries /\ calls[i].entry # None
      BY <1>1, <1>3 DEF CallOK, Call, Looks, Reads
    <3> QED
      BY <3>1, ClientAssumption DEF Entries
  <2>3. calls[i].op = "get" => Result(calls[i]) = calls[i].entry.val
    BY <1>3 DEF Result, Found
  <2>4. calls[i].op = "exists" => Result(calls[i]) = TRUE
    <3>1. Found(calls[i]) = TRUE
      BY <1>3 DEF Found
    <3> QED
      BY <3>1 DEF Result
  <2>5. (calls[i].entry.val # Nil) = TRUE
    BY <2>2
  <2> QED
    BY <2>1, <2>3, <2>4, <2>5
<1>4. CASE calls[i].code # "ok"
  <2>1. calls[i].code = "notFound"
    BY <1>4 DEF IsError
  <2>2. Nil \in E
    BY <1>2, <2>1 DEF FoundIn
  <2>3. calls[i].op = "get" => Result(calls[i]) = Nil
    BY <1>4 DEF Result, Found
  <2>4. calls[i].op = "exists" => Result(calls[i]) = FALSE
    <3>1. Found(calls[i]) = FALSE
      BY <1>4 DEF Found
    <3> QED
      BY <3>1 DEF Result
  <2>5. (Nil # Nil) = FALSE
    OBVIOUS
  <2> QED
    BY <2>2, <2>3, <2>4, <2>5
<1> QED
  BY <1>3, <1>4

LEMMA ReturnKeepsReads ==
    ASSUME RInv, NEW i \in Made, Return(i)
    PROVE  Mine'
<1> DEFINE e == IF IsError(calls[i]) THEN calls[i].code ELSE "none"
           r == Result(calls[i])
           c == [calls[i] EXCEPT !.err = e, !.res = r]
<1>1. calls[i] \in Call /\ Typed /\ CallOK(calls[i], clock)
  BY CallTyped DEF RInv, SInv, CallsOK
<1>2. calls[i].at = "answered" /\ Waiting(calls[i])
  BY DEF Return
<1>3. Becomes(i, c)
  BY <1>1, <1>2, ReturnMoves DEF CallOK
<1>4. c \in Call
  <2>1. c = calls'[i] /\ calls' \in Seq(Call) /\ i \in DOMAIN calls'
    BY <1>3 DEF Becomes, Made
  <2> HIDE DEF c
  <2> QED
    BY <2>1
<1>5. kv' = kv /\ deadlines' = deadlines
  BY DEF Return, kvVars
<1>6. /\ Asks(c) = Asks(calls[i]) /\ c.exp = calls[i].exp /\ c.at = calls[i].at
      /\ c.op = calls[i].op /\ c.by = calls[i].by /\ c.key = calls[i].key
      /\ c.err = e /\ c.res = r
  <2> HIDE DEF e, r
  <2> QED
    BY <1>1 DEF Call, Asks
<1>7. e \in Codes \cup {"none"} /\ e # "none yet" /\ (e = "none" <=> ~IsError(calls[i]))
  BY <1>1 DEF Call, Codes
<1>8. calls[i].op \in Writes => (IsError(calls[i]) <=> calls[i].code # "ok")
  BY DEF IsError, Writes
<1> HIDE DEF c
<1>9. Settled(calls[i], c)
  BY <1>2, <1>6, <1>7, <1>8 DEF Settled
<1>10. ASSUME c.err = "none", Owns(c.by, c.key)
       PROVE  Told(c, Explains(i, c.key))
  <2>1. CASE c.op \in Looks
    BY <1>2, <1>6, <1>7, <1>10, <2>1, ToldFound DEF Told
  <2>2. CASE c.op \notin Looks
    BY <2>2 DEF Told, Looks
  <2> QED
    BY <2>1, <2>2
<1> QED
  BY <1>3, <1>4, <1>5, <1>6, <1>9, <1>10, SettleKeeps
LEMMA RefuseKeepsReads ==
    ASSUME RInv, NEW i \in Made, Refuse(i)
    PROVE  Mine'
<1> DEFINE c == [calls[i] EXCEPT !.at = "answered", !.code = Refusal(calls[i])]
<1>1. calls[i] \in Call /\ Typed /\ calls[i].at = "sent"
  BY CallTyped DEF RInv, SInv, Refuse
<1>2. Refusal(calls[i]) \in {"invalid", "tooLong", "tooLarge"}
  BY DEF Refuse, Refusal
<1>3. Becomes(i, c) /\ c \in Call
  BY <1>1, <1>2, RefuseMoves DEF Call, Codes
<1>4. kv' = kv /\ deadlines' = deadlines
  BY DEF Refuse, kvVars
<1>5. /\ Asks(c) = Asks(calls[i]) /\ c.err = calls[i].err /\ c.exp = calls[i].exp
      /\ c.ttl = calls[i].ttl /\ c.op = calls[i].op
      /\ c.at = "answered" /\ c.code \in {"invalid", "tooLong", "tooLarge"}
  BY <1>1, <1>2 DEF Call, Asks
<1> HIDE DEF c
<1>6. c.op = "set" /\ c.ttl = 0 => c.exp = 0
  BY <1>5 DEF RInv, Lifeless
<1>7. FoundIn(c, Explains(i, c.key))
  BY <1>5 DEF FoundIn
<1> QED
  BY <1>1, <1>3, <1>4, <1>5, <1>6, <1>7, CalmKeeps

LEMMA FullKeepsReads ==
    ASSUME RInv, NEW i \in Made, Full(i)
    PROVE  Mine'
<1> DEFINE c == [calls[i] EXCEPT !.at = "answered", !.code = "full", !.data = None]
<1>1. calls[i] \in Call /\ Typed /\ calls[i].at = "begun" /\ calls[i].op = "set"
  BY CallTyped DEF RInv, SInv, Full
<1>2. Answer(i, "full", None)
  BY DEF Full
<1>3. Becomes(i, c) /\ c \in Call
  BY <1>1, <1>2, AnswerMoves DEF Call, Codes
<1>4. kv' = kv /\ deadlines' = deadlines
  BY DEF Full, kvVars
<1>5. /\ Asks(c) = Asks(calls[i]) /\ c.err = calls[i].err /\ c.exp = calls[i].exp
      /\ c.ttl = calls[i].ttl /\ c.op = calls[i].op
      /\ c.at = "answered" /\ c.code = "full"
  BY <1>1 DEF Call, Asks
<1> HIDE DEF c
<1>6. c.op = "set" /\ c.ttl = 0 => c.exp = 0
  BY <1>5 DEF RInv, Lifeless
<1>7. FoundIn(c, Explains(i, c.key))
  BY <1>5 DEF FoundIn
<1> QED
  BY <1>1, <1>3, <1>4, <1>5, <1>6, <1>7, CalmKeeps

LEMMA MissKeepsReads ==
    ASSUME RInv, NEW i \in Made, Miss(i)
    PROVE  Mine'
<1> DEFINE c == [calls[i] EXCEPT !.at = "answered", !.code = "notFound"]
<1>1. calls[i] \in Call /\ Typed /\ calls[i].at = "sent" /\ CallOK(calls[i], clock)
  BY CallTyped DEF RInv, SInv, Miss, CallsOK
<1>2. calls[i].op \in Reads /\ ~Served(calls[i].key)
  BY DEF Miss
<1>3. Becomes(i, c) /\ c \in Call
  BY <1>1, MissMoves DEF Call, Codes
<1>4. kv' = kv /\ deadlines' = deadlines
  BY DEF Miss, kvVars
<1>5. /\ Asks(c) = Asks(calls[i]) /\ c.err = calls[i].err
      /\ c.op = calls[i].op /\ c.by = calls[i].by /\ c.key = calls[i].key
      /\ c.at = "answered" /\ c.code = "notFound"
  BY <1>1 DEF Call, Asks
<1> HIDE DEF c
<1>6. c.op # "set" /\ c.op \notin Writes
  BY <1>2, <1>5 DEF Reads, Writes
<1>7. ASSUME Waiting(c), Owns(c.by, c.key)
      PROVE  FoundIn(c, Explains(i, c.key))
  <2>1. /\ Waiting(calls[i]) /\ calls[i].key \in Key /\ ~WriteOf(calls[i], calls[i].key)
        /\ calls[i].by \in Caller /\ Owns(calls[i].by, calls[i].key)
    BY <1>1, <1>2, <1>5, <1>6, <1>7 DEF CallOK, Waiting, WriteOf, Call
  <2>2. Cur(calls[i].key) \in Explains(i, calls[i].key)
    BY <2>1, WaitingFinds
  <2>3. kv[calls[i].key] = None
    BY <1>2, <2>1 DEF Served, ServedAt, RInv, Lifeless
  <2> QED
    BY <1>5, <2>2, <2>3 DEF FoundIn, Cur
<1> QED
  BY <1>1, <1>3, <1>4, <1>5, <1>6, <1>7, CalmKeeps

LEMMA ReplyKeepsReads ==
    ASSUME RInv, NEW i \in Made, Reply(i)
    PROVE  Mine'
<1>1. calls[i] \in Call /\ Typed /\ calls[i].at = "begun" /\ clock \in Nat
  BY CallTyped DEF RInv, SInv, Reply, Typed
<1>2. PICK code \in {"ok", "internal"}, data \in Int \cup {None} :
         /\ Answer(i, code, data)
         /\ calls[i].op \in Looks => code = "ok"
  <2>1. calls[i].exp \in Nat
    BY <1>1 DEF Call
  <2>2. Remaining(calls[i].exp, clock) \in Int /\ TtlAnswer(calls[i].exp, clock) \in Int
    BY <1>1, <2>1, AnswersTyped
  <2> QED
    BY <2>2 DEF Reply, Looks
<1>3. calls[i].op \notin Writes
  BY DEF Reply, Writes
<1> DEFINE c == [calls[i] EXCEPT !.at = "answered", !.code = code, !.data = data]
<1>4. Becomes(i, c) /\ c \in Call
  <2>1. code \in Codes
    BY DEF Codes
  <2>2. Becomes(i, c)
    BY <1>1, <1>2, <2>1, AnswerMoves
  <2>3. c \in Call
    BY <1>1, <2>1 DEF Call
  <2> QED
    BY <2>2, <2>3
<1>5. kv' = kv /\ deadlines' = deadlines
  BY DEF Reply, kvVars
<1>6. /\ Asks(c) = Asks(calls[i]) /\ c.err = calls[i].err /\ c.entry = calls[i].entry
      /\ c.op = calls[i].op /\ c.by = calls[i].by /\ c.key = calls[i].key
      /\ c.at = "answered" /\ c.code = code
  BY <1>1 DEF Call, Asks
<1> HIDE DEF c
<1>7. c.op # "set" /\ c.op \notin Writes
  BY <1>3, <1>6 DEF Writes
<1>8. ASSUME c.op \in Looks, Waiting(c), Owns(c.by, c.key)
      PROVE  FoundIn(c, Explains(i, c.key))
  <2>1. FoundIn(calls[i], Explains(i, calls[i].key))
    BY <1>6, <1>8 DEF RInv, ReadsFine, Waiting
  <2>2. calls[i].entry.val \in Explains(i, c.key)
    <3>1. calls[i].entry.val \in Explains(i, calls[i].key)
      BY <1>1, <2>1 DEF FoundIn
    <3>2. c.key = calls[i].key
      BY <1>6
    <3> QED
      BY <3>1, <3>2
  <2>3. c.at = "answered" /\ c.code = "ok" /\ c.entry = calls[i].entry
    BY <1>2, <1>6, <1>8
  <2> QED
    BY <2>2, <2>3 DEF FoundIn
<1> QED
  BY <1>1, <1>4, <1>5, <1>6, <1>7, <1>8, CalmKeeps

LEMMA BeginKeepsReads ==
    ASSUME RInv, NEW i \in Made, Begin(i)
    PROVE  Mine'
<1> DEFINE e == IF calls[i].op \in Reads THEN kv[calls[i].key] ELSE None
           x == IF calls[i].op = "set" THEN Deadline(HandlerTtl(calls[i].ttl), clock)
                ELSE IF calls[i].op \in Reads THEN kv[calls[i].key].exp ELSE 0
           c == [calls[i] EXCEPT !.at = "begun", !.entry = e, !.exp = x]
<1>1. calls[i] \in Call /\ Typed /\ calls[i].at = "sent" /\ CallOK(calls[i], clock)
  BY CallTyped DEF RInv, SInv, Begin, CallsOK
<1>2. calls[i].op \in Reads => kv[calls[i].key] # None
  BY DEF Begin, Served
<1>3. Becomes(i, c)
  BY <1>1, BeginMoves DEF CallOK
<1>4. c \in Call
  <2>1. c = calls'[i] /\ calls' \in Seq(Call) /\ i \in DOMAIN calls'
    BY <1>3 DEF Becomes, Made
  <2> HIDE DEF c
  <2> QED
    BY <2>1
<1>5. kv' = kv /\ deadlines' = deadlines
  BY DEF Begin, kvVars
<1>6. /\ Asks(c) = Asks(calls[i]) /\ c.err = calls[i].err /\ c.ttl = calls[i].ttl
      /\ c.op = calls[i].op /\ c.by = calls[i].by /\ c.key = calls[i].key
      /\ c.at = "begun" /\ c.entry = e /\ c.exp = x
  <2> HIDE DEF e, x
  <2> QED
    BY <1>1 DEF Call, Asks
<1> HIDE DEF c
<1>7. c.op = "set" /\ c.ttl = 0 => c.exp = 0
  BY <1>6 DEF HandlerTtl, Deadline
<1>8. ASSUME c.op \in Looks, Waiting(c), Owns(c.by, c.key)
      PROVE  FoundIn(c, Explains(i, c.key))
  <2>1. /\ Waiting(calls[i]) /\ calls[i].op \in Reads /\ calls[i].op \notin Writes
        /\ Owns(calls[i].by, calls[i].key)
    BY <1>6, <1>8 DEF Waiting, Looks, Reads, Writes
  <2>2. calls[i].key \in Key /\ ~WriteOf(calls[i], calls[i].key)
    BY <1>1, <2>1 DEF CallOK, WriteOf
  <2>3. Cur(calls[i].key) \in Explains(i, calls[i].key)
    BY <2>1, <2>2, WaitingFinds
  <2>4. c.entry.val = Cur(calls[i].key)
    BY <1>2, <1>6, <2>1 DEF Cur
  <2> QED
    BY <1>6, <2>3, <2>4 DEF FoundIn
<1> QED
  BY <1>1, <1>3, <1>4, <1>5, <1>6, <1>7, <1>8, CalmKeeps

\* The calls stay, and so does every entry of a key with an owner.
LEMMA IdleKeeps ==
    ASSUME RInv, calls' = calls, deadlines' \subseteq deadlines,
           \A p \in Caller, k \in Key : Owns(p, k) => kv'[k] = kv[k]
    PROVE  Mine'
<1>1. Typed /\ Persist /\ Len(calls) \in Nat /\ Made = 1 .. Len(calls) /\ Made' = Made
  BY DEF RInv, SInv, Typed, Made, Persist
<1>2. ASSUME NEW n \in 1 .. Len(calls) + 1, NEW k PROVE Explains(n, k)' = Explains(n, k)
  BY <1>1, ExplainsSame
<1>3. \A p, k : Owns(p, k)' => Owns(p, k)
  BY <1>1, OwnsBefore
<1>4. \A p \in Caller, k \in Key : Owns(p, k) => Cur(k)' = Cur(k)
  BY DEF Cur
<1>5. Sequential'
  BY DEF RInv, Sequential, Made
<1>6. Lifeless'
  BY <1>1, <1>3 DEF RInv, Lifeless
<1>7. \A w \in Made, k \in Key : Underway(w, k)' <=> Underway(w, k)
  BY DEF Underway
<1>8. StoreSays'
  <2> SUFFICES ASSUME NEW p \in Caller, NEW k \in Key, Owns(p, k)
               PROVE  \/ Cur(k)' \in Explains(Len(calls) + 1, k)'
                      \/ \E w \in Made : /\ Underway(w, k)' /\ calls'[w].code \in {"ok", "internal"}
                                        /\ Cur(k)' = Leaves(calls'[w])
    BY <1>1, <1>3 DEF StoreSays
  <2>1. \/ Cur(k) \in Explains(Len(calls) + 1, k)
        \/ \E w \in Made : /\ Underway(w, k) /\ calls[w].code \in {"ok", "internal"}
                          /\ Cur(k) = Leaves(calls[w])
    BY DEF RInv, StoreSays
  <2>2. Explains(Len(calls) + 1, k)' = Explains(Len(calls) + 1, k)
    <3>1. PICK l : l = Len(calls) + 1 /\ l = Len(calls') + 1
      OBVIOUS
    <3>2. Explains(l, k)' = Explains(l, k)
      BY <1>1, <1>2, <3>1
    <3> QED
      BY <3>1, <3>2
  <2> QED
    BY <1>4, <1>7, <2>1, <2>2
<1>9. ASSUME NEW k \in Key PROVE Lost(Len(calls) + 1, k)' = Lost(Len(calls) + 1, k)
  BY DEF Lost, Before
<1>10. AckedLast'
  BY <1>1, <1>3, <1>4, <1>7, <1>9 DEF RInv, AckedLast
<1>11. ReadsFine'
  BY <1>1, <1>2, <1>3 DEF RInv, ReadsFine, FoundIn
<1>12. ReadsExplained'
  BY <1>1, <1>2, <1>3 DEF RInv, ReadsExplained
<1> QED
  BY <1>5, <1>6, <1>8, <1>10, <1>11, <1>12 DEF Mine

\* No deadline is left of a key that has an owner.
LEMMA StoreKeepsReads ==
    ASSUME RInv, StoreStep
    PROVE  Mine'
<1>1. calls' = calls
  BY DEF StoreStep
<1>2. CASE Advance
  BY <1>1, <1>2, IdleKeeps DEF Advance
<1>3. ASSUME NEW d \in deadlines, Lapse(d[1], d[2]) PROVE Mine'
  <2>1. d[1] \in Key /\ d[2] \in Nat /\ d = <<d[1], d[2]>>
    BY DEF RInv, Lifeless
  <2>2. \A p \in Caller, k \in Key : Owns(p, k) => k # d[1]
    BY <2>1 DEF RInv, Lifeless
  <2>3. kv' = [kv EXCEPT ![d[1]] = None] /\ kv \in [Key -> Entries]
    BY <1>3 DEF Lapse, RInv, SInv, Typed
  <2>4. deadlines' \subseteq deadlines
    BY <1>3 DEF Lapse
  <2>5. \A p \in Caller, k \in Key : Owns(p, k) => kv'[k] = kv[k]
    BY <2>2, <2>3
  <2> QED
    BY <1>1, <2>4, <2>5, IdleKeeps
<1> QED
  BY <1>2, <1>3 DEF StoreStep

LEMMA CallStepKeepsReads ==
    ASSUME RInv, CallStep
    PROVE  Mine'
BY RefuseKeepsReads, BeginKeepsReads, MissKeepsReads, FullKeepsReads, WriteKeepsReads,
   ReplyKeepsReads, ReturnKeepsReads, GiveUpKeepsReads, StoreKeepsReads
   DEF CallStep, Serve

LEMMA IssueKeepsReads ==
    ASSUME RInv, NEW p \in Caller, NEW op \in Ops, NEW k \in Key \cup {None},
           NEW v \in Value \cup {None}, NEW d \in Int, NEW asked \in Int,
           Issue(p, op, k, v, d, asked), UNCHANGED kvVars,
           op \in Writes \cup Reads => k \in Key,
           op = "set" => v \in Value /\ Meant(asked, JsonTtl(d))
    PROVE  Mine'
<1> DEFINE c == Asking(p, op, k, v, d, asked)
<1>1. /\ calls' \in Seq(Call)
      /\ Len(calls') = Len(calls) + 1
      /\ \A i \in Made : i \in Made' /\ calls'[i] = calls[i]
      /\ calls'[Len(calls) + 1] = c
  BY IssueAdds DEF RInv, kvVars
<1>2. Fresh(c, p)
  BY DEF Fresh, Asking
<1>3. Free(p) /\ kv' = kv /\ deadlines' = deadlines
  BY DEF Issue, kvVars
<1> HIDE DEF c
<1>4. PICK l : l = Len(calls) + 1
  OBVIOUS
<1>5. Adds(l, c)
  BY <1>1, <1>4 DEF Adds
<1>6. c \in Call
  <2>1. l \in DOMAIN calls'
    BY <1>1, <1>4 DEF RInv, SInv, Typed
  <2>2. calls'[l] \in Call
    BY <1>1, <2>1
  <2> QED
    BY <1>1, <1>4, <2>2
<1> QED
  BY <1>2, <1>3, <1>5, <1>6, AskingKeeps

LEMMA ConnectKeepsReads ==
    ASSUME RInv, Connect
    PROVE  Mine'
<1> DEFINE op == "health"
           v == None
           d == 0
<1>1. /\ Issue(Cli, op, v, v, d, d) /\ UNCHANGED kvVars /\ Cli \in Caller
      /\ op \in Ops /\ op \notin Writes \cup Reads /\ op # "set"
      /\ v \in Value \cup {None} /\ v \in Key \cup {None} /\ d \in Int
  BY KvCliAssumption DEF Connect, kvVars, Ops, Writes, Reads
<1> HIDE DEF op, v, d
<1> QED
  BY <1>1, IssueKeepsReads

LEMMA CommandKeepsReads ==
    ASSUME RInv, Command
    PROVE  Mine'
<1>1. PICK ln \in Lines :
         \/ /\ ln.op = "set"
            /\ LET n == TypedSeconds(ln.rest)
               IN  Issue(Cli, "set", ln.key, ln.val, Duration("cli", n), n * Second)
         \/ ln.op # "set" /\ Issue(Cli, ln.op, ln.key, None, 0, 0)
  BY DEF Command
<1>2. UNCHANGED kvVars /\ Cli \in Caller /\ "set" \in Ops
  BY KvCliAssumption DEF Command, kvVars, Ops, Writes
<1>3. ln.op \in Ops /\ ln.key \in Key /\ ln.val \in Value /\ TypedSeconds(ln.rest) \in Int
  BY KvCliAssumption
<1>4. CASE ln.op = "set"
  <2> DEFINE n == TypedSeconds(ln.rest)
             d == Duration("cli", n)
             a == n * Second
  <2>1. Issue(Cli, "set", ln.key, ln.val, d, a)
    BY <1>1, <1>4
  <2>2. d \in Int /\ a \in Int /\ Meant(a, JsonTtl(d))
    <3>1. Asked("cli", n) = a
      BY DEF Asked
    <3> HIDE DEF n
    <3>2. n \in Int /\ "cli" \in Vias
      BY <1>3 DEF n, Vias
    <3> QED
      BY <3>1, <3>2, DurationTyped, LifetimeCarried
  <2> HIDE DEF n, d, a
  <2> QED
    BY <1>2, <1>3, <2>1, <2>2, IssueKeepsReads
<1>5. CASE ln.op # "set"
  <2> DEFINE v == None
             d == 0
  <2>1. Issue(Cli, ln.op, ln.key, v, d, d) /\ v \in Value \cup {None} /\ d \in Int
    BY <1>1, <1>5
  <2> HIDE DEF v, d
  <2> QED
    BY <1>2, <1>3, <1>5, <2>1, IssueKeepsReads
<1> QED
  BY <1>4, <1>5

LEMMA ProgramKeepsReads ==
    ASSUME RInv, NEW p \in Caller, Program(p)
    PROVE  Mine'
<1>1. PICK q \in Programs :
         Issue(p, q.op, q.key, q.val, Duration(q.via, q.n),
               IF q.via = "sdk" THEN q.n ELSE q.n * Second)
  BY DEF Program
<1>2. UNCHANGED kvVars
  BY DEF Program, kvVars
<1>3. q.op \in Ops /\ q.key \in Key /\ q.val \in Value /\ q.via \in Vias /\ q.n \in Int
  BY KvCliAssumption DEF Vias
<1> DEFINE d == Duration(q.via, q.n)
           a == Asked(q.via, q.n)
<1>4. d \in Int /\ a \in Int /\ Meant(a, JsonTtl(d))
  BY <1>3, DurationTyped, LifetimeCarried
<1>5. Issue(p, q.op, q.key, q.val, d, a)
  BY <1>1 DEF Asked
<1> HIDE DEF a, d
<1> QED
  BY <1>2, <1>3, <1>4, <1>5, IssueKeepsReads

-----------------------------------------------------------------------------

LEMMA RInvInit == Init => RInv
<1> SUFFICES ASSUME Init PROVE RInv
  OBVIOUS
<1>1. SInv /\ Made = {} /\ Len(calls) = 0 /\ deadlines = {} /\ kv = [k \in Key |-> None]
  BY SInvInit DEF Init, ClientInit, KVInit, Made
<1>2. \A k \in Key : Cur(k) = Nil
  BY <1>1 DEF Cur
<1>3. \A k : Nil \in Explains(Len(calls) + 1, k)
  <2> SUFFICES ASSUME NEW k PROVE Nil \in Explains(Len(calls) + 1, k)
    OBVIOUS
  <2>1. Acked(Len(calls) + 1, k) = {}
    BY <1>1 DEF Acked, Before
  <2> QED
    BY <2>1, ExplainsIs DEF LastAcked
<1> QED
  BY <1>1, <1>2, <1>3 DEF RInv, Sequential, Lifeless, StoreSays, AckedLast, ReadsFine,
     ReadsExplained

LEMMA RInvNext == RInv /\ [Next]_vars => RInv'
<1> SUFFICES ASSUME RInv, [Next]_vars PROVE RInv'
  OBVIOUS
<1>1. SInv'
  BY SInvNext DEF RInv
<1>2. Mine'
  <2>1. CASE Connected \/ Exit \/ UNCHANGED vars
    <3>1. calls' = calls /\ deadlines' \subseteq deadlines /\ kv' = kv
      BY <2>1 DEF Connected, Exit, vars, cliVars, kvVars
    <3> QED
      BY <3>1, IdleKeeps
  <2>2. ASSUME NEW p \in Caller \ {Cli}, Program(p) PROVE Mine'
    BY <2>2, ProgramKeepsReads
  <2> QED
    BY <2>1, <2>2, ConnectKeepsReads, CommandKeepsReads, CallStepKeepsReads DEF Next
<1> QED
  BY <1>1, <1>2 DEF RInv, Mine

\* client.go:62-132, http_handler.go:52-119, service.go:140-262: whatever other
\* callers do, and whichever calls time out, fail in the server or arrive late,
\* get and exists tell the caller who alone writes a key what his writes left.
THEOREM OwnWritesRead == Spec => []ReadsExplained
<1>1. RInv => ReadsExplained
  BY DEF RInv
<1> QED
  BY <1>1, RInvInit, RInvNext, PTL DEF Spec
=============================================================================
