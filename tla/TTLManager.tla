----------------------------- MODULE TTLManager -----------------------------
(***************************************************************************)
(* The expiry goroutine of internal/core/ttl_heap.go.                      *)
(*                                                                         *)
(* The min-heap is a bag of (key, expiry) items whose top is any item of   *)
(* least expiry: Less compares ExpiresAt alone, so ties come in any order. *)
(* Nothing ever removes or updates an item other than popping the top, and *)
(* a key set twice with a TTL has two items.                               *)
(*                                                                         *)
(* The goroutine is at "loop" between two calls of process(), asleep on an *)
(* empty heap ("sleep"), waiting for the top it peeked at ("wait"), or     *)
(* inside the onExpire callback ("expire", "account": the two steps of the *)
(* closure in NewService, which module Service gives).  run()'s look at    *)
(* stopCh and process()'s look at the heap are one step: a Stop between    *)
(* the two would let one more item be popped, exactly as a Stop just after *)
(* the pop does.                                                           *)
(***************************************************************************)
EXTENDS ConcurrentMap

VARIABLES
    heap,        \* how many items (key, expiry) the heap holds
    ttlStopped,  \* TTLManager.stopped, and stopCh closed
    tmPc,        \* where the goroutine is
    tmItem       \* the item it waits for or has popped, None otherwise

ttlVars == <<heap, ttlStopped, tmPc, tmItem>>

Item == Key \X Expiry

InHeap(i) == heap[i] > 0

\* Mutant: the timer is a tick short.
DueEarly(i) == i[2] <= now + 1

\* process(): not due while item.ExpiresAt > now.
Due(i) == i[2] <= now

HeapTop(i) == InHeap(i) /\ \A j \in Item : InHeap(j) => i[2] <= j[2]

\* Mutant: a key that waits in the heap is not added again.
HeapAddOnce(k, x) ==
    IF ttlStopped \/ \E i \in Item : InHeap(i) /\ i[1] = k
    THEN heap ELSE [heap EXCEPT ![<<k, x>>] = @ + 1]

\* Add: dropped once the manager is stopped.
HeapAdd(k, x) ==
    IF ttlStopped THEN heap ELSE [heap EXCEPT ![<<k, x>>] = @ + 1]

-----------------------------------------------------------------------------
\* Mutant: the goroutine ends when there is nothing to wait for.
TtlSleepForever ==
    /\ tmPc = "loop" /\ ~ttlStopped
    /\ \A i \in Item : ~InHeap(i)
    /\ tmPc' = "exit"
    /\ UNCHANGED <<heap, ttlStopped, tmItem>>

\* process() on an empty heap: a sleep of a second that nothing interrupts.
TtlSleep ==
    /\ tmPc = "loop" /\ ~ttlStopped
    /\ \A i \in Item : ~InHeap(i)
    /\ tmPc' = "sleep"
    /\ UNCHANGED <<heap, ttlStopped, tmItem>>

TtlWake ==
    /\ tmPc = "sleep"
    /\ tmPc' = "loop"
    /\ UNCHANGED <<heap, ttlStopped, tmItem>>

\* process() on a top that is not due: the lock is released and a timer set
\* for this item; a later Add of an earlier item does not disturb the timer.
TtlWait ==
    /\ tmPc = "loop" /\ ~ttlStopped
    /\ \E i \in Item :
        /\ HeapTop(i)
        /\ ~Due(i)
        /\ tmItem' = i
    /\ tmPc' = "wait"
    /\ UNCHANGED <<heap, ttlStopped>>

\* The select in process(): the timer fires or the manager is stopped.
TtlTimer ==
    /\ tmPc = "wait"
    /\ Due(tmItem) \/ ttlStopped
    /\ tmPc' = "loop"
    /\ tmItem' = None
    /\ UNCHANGED <<heap, ttlStopped>>

\* process() on a due top: popped under the lock, expired after its release.
TtlPop ==
    /\ tmPc = "loop" /\ ~ttlStopped
    /\ \E i \in Item :
        /\ HeapTop(i)
        /\ Due(i)
        /\ heap' = [heap EXCEPT ![i] = @ - 1]
        /\ tmItem' = i
    /\ tmPc' = "expire"
    /\ UNCHANGED ttlStopped

\* run() sees stopCh closed.
TtlExit ==
    /\ tmPc = "loop" /\ ttlStopped
    /\ tmPc' = "exit"
    /\ UNCHANGED <<heap, ttlStopped, tmItem>>

TtlStep == TtlSleep \/ TtlWake \/ TtlWait \/ TtlTimer \/ TtlPop \/ TtlExit

\* Stop.
TtlStop == ttlStopped' = TRUE /\ UNCHANGED <<heap, tmPc, tmItem>>

TtlInit ==
    /\ heap = [i \in Item |-> 0]
    /\ ttlStopped = FALSE
    /\ tmPc = "loop"
    /\ tmItem = None

TtlTypeOK ==
    /\ heap \in [Item -> Nat]
    /\ ttlStopped \in BOOLEAN
    /\ tmPc \in {"loop", "sleep", "wait", "expire", "account", "exit"}
    /\ tmItem \in Item \cup {None}
    /\ tmPc \in {"wait", "expire", "account"} => tmItem \in Item
=============================================================================
