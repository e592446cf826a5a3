------------------------------ MODULE Durations ------------------------------
(***************************************************************************)
(* A lifetime on its way from a user to an entry and back: the conversions *)
(* of kvcli, the GUI's App, the client SDK, the HTTP handlers and Service, *)
(* with Go's int64 time.Duration.  The unit is one tick (a nanosecond in   *)
(* the code); the word is scaled down with it.                             *)
(***************************************************************************)
EXTENDS Integers

CONSTANTS
    Second,       \* ticks in a second
    Milli,        \* ticks in a millisecond, the unit of Entry.ExpiresAt
    MaxDuration   \* the largest time.Duration

ASSUME DurationsAssumption ==
    /\ {Second, Milli} \subseteq Nat \ {0}
    /\ Second % Milli = 0
    /\ MaxDuration \in Nat \ {0}

\* What an int64 keeps of a product.
Wrap(n) == ((n + MaxDuration + 1) % (2 * (MaxDuration + 1))) - (MaxDuration + 1)

\* time.Duration(n) * time.Second
FromSeconds(n) == Wrap(n * Second)

\* int(d.Seconds()) of a d >= 0
Whole(d) == d \div Second

\* math.Ceil(d.Seconds()) of a d >= 0
CeilSeconds(d) == (d + Second - 1) \div Second

\* t.UnixMilli(), in ticks
ToMilli(t) == (t \div Milli) * Milli

-----------------------------------------------------------------------------
(* From the user to the entry *)

\* handleSet of kvcli multiplies whatever number was typed; SetKey of the App
\* only a positive one; a Go program hands the SDK any Duration.
Duration(via, n) ==
    IF via = "sdk" THEN n
    ELSE IF via = "gui" /\ n <= 0 THEN 0 ELSE FromSeconds(n)

\* Mutant: the field is rounded up.
JsonTtlUp(d) == IF d > 0 THEN CeilSeconds(d) + 1 ELSE 0

\* Mutant: a negative duration is sent as it is.
JsonTtlUnguarded(d) == Whole(d)

\* Client.Set: the ttl field of the request, left out when 0.
JsonTtl(d) == IF d > 0 THEN Whole(d) ELSE 0

\* Handler.SetKey
HandlerTtl(f) == IF f > 0 THEN FromSeconds(f) ELSE 0

\* Service.Set: expiresAt
Deadline(ttl, t) == IF ttl > 0 THEN ToMilli(t + ttl) ELSE 0

-----------------------------------------------------------------------------
(* From the entry to the user *)

\* Service.Get and Handler.GetKey: ttl_remaining, 0 when there is none.
Remaining(x, t) == IF x > t THEN Whole(x - t) ELSE 0

\* Mutant: rounded down, as ttl_remaining is.
TtlAnswerDown(x, t) ==
    IF x = 0 THEN -1 ELSE IF x < t THEN -2 ELSE Whole(x - t)

\* Service.TTL and Handler.TTLKey: -1 for no expiry, -2 for one that passed
\* after the entry was read, else the seconds left, rounded up.
TtlAnswer(x, t) ==
    IF x = 0 THEN -1 ELSE IF x < t THEN -2 ELSE CeilSeconds(x - t)

\* What Get and Exists of the map still serve: they compare milliseconds.
ServedAt(x, t) == x = 0 \/ ToMilli(t) <= x
=============================================================================
