----------------------------- MODULE RetryQueue -----------------------------
(***************************************************************************)
(* RetryQueue (ingest_retry.go): payloads that wait to be delivered again. *)
(* Every method holds the mutex, so each is one step.                      *)
(***************************************************************************)
EXTENDS Integers, Sequences, FiniteSetsExt

CONSTANTS
  Payload,      \* the payloads that are ever pushed, told apart by content
  Capacity,     \* q.max
  BaseDelay,    \* baseRetryDelay
  DelayBits,    \* bits of a duration, 64 in the code
  MaxPushes,    \* bound: calls of Push
  MaxClock      \* bound: the clock

RetryParameters ==
  /\ IsFiniteSet(Payload)
  /\ {Capacity, BaseDelay, DelayBits} \subseteq Nat \ {0}
  /\ {MaxPushes, MaxClock} \subseteq Nat
  /\ 4 * BaseDelay < 2 ^ (DelayBits - 1)      \* the delay of MaxAttempts pushes fits

MaxAttempts == 3

VARIABLES
  items,        \* q.items: [payload, attempts, nextAt], in the order of Push
  dropped,      \* q.dropped
  clock,        \* the now of the callers
  \* history: calls of Push; pushes that replaced a queued item; hand-outs per
  \* payload; pushes per payload since it last left the queue, and the latest
  pushes, replaced, handed, streak, last

vars == <<items, dropped, clock, pushes, replaced, handed, streak, last>>

Items == 1..Len(items)

\* The queued item with the content of p.
Matching(p) == {i \in Items : items[i].payload = p}

Attempts(p) == IF Matching(p) = {} THEN 0 ELSE items[Min(Matching(p))].attempts

\* n as a signed word of DelayBits bits
Wrapped(n) == ((n + 2 ^ (DelayBits - 1)) % 2 ^ DelayBits) - 2 ^ (DelayBits - 1)

\* baseRetryDelay << attempts, which overflows for many attempts.  The guard
\* catches results below the base, not all that are wrong.
Delay(attempts) ==
  LET shifted == Wrapped(BaseDelay * 2 ^ attempts)
  IN  IF shifted < BaseDelay THEN BaseDelay ELSE shifted
-----------------------------------------------------------------------------
Init ==
  /\ items = <<>> /\ dropped = 0 /\ clock = 0
  /\ pushes = 0 /\ replaced = 0
  /\ handed = [p \in Payload |-> 0]
  /\ streak = [p \in Payload |-> 0] /\ last = [p \in Payload |-> 0]

\* The items that are left when those in is leave, in their order.
Without(is) ==
  LET kept == Items \ is
      Place(i) == Cardinality({j \in kept : j <= i})
  IN  [k \in 1..Cardinality(kept) |-> items[CHOOSE i \in kept : Place(i) = k]]

\* findAttemptsLocked takes the first matching item out.
WithoutMatch(p) == Without(IF Matching(p) = {} THEN {} ELSE {Min(Matching(p))})

NewItem(p) == [payload |-> p, attempts |-> Attempts(p) + 1, nextAt |-> clock + Delay(Attempts(p))]

\* The tail of rest that p joins, and who leaves for it.
Joined(rest, p, full) ==
  /\ items' = Append(IF full THEN Tail(rest) ELSE rest, NewItem(p))
  /\ streak' = [q \in Payload |->
       IF q = p THEN streak[p] + 1
       ELSE IF full /\ Head(rest).payload = q THEN 0 ELSE streak[q]]

\* The evicted head is not counted.
EnqueueUncounted(p) ==
  LET rest == WithoutMatch(p)
  IN  Joined(rest, p, Len(rest) >= Capacity) /\ UNCHANGED dropped

\* Push less its history: the head of a full queue is evicted.
Enqueue(p) ==
  LET rest == WithoutMatch(p)
      full == Len(rest) >= Capacity
  IN  Joined(rest, p, full) /\ dropped' = dropped + IF full THEN 1 ELSE 0

Push(p) ==
  /\ pushes < MaxPushes /\ pushes' = pushes + 1
  /\ Enqueue(p)
  /\ replaced' = replaced + IF Matching(p) = {} THEN 0 ELSE 1
  /\ last' = [last EXCEPT ![p] = clock]
  /\ UNCHANGED <<clock, handed>>

Due == {i \in Items : items[i].nextAt <= clock}

\* Those that have had their attempts may be handed out once more.
ExhaustedLate(i) == items[i].attempts > MaxAttempts

Exhausted(i) == items[i].attempts >= MaxAttempts

\* The items the scan of PopDue stops at and the ones it discards on its way.
Deliverable == {i \in Due : ~Exhausted(i)}

Discarded ==
  {i \in Due : Exhausted(i) /\ (Deliverable # {} => i < Min(Deliverable))}

LeftQueue(is) ==
  [p \in Payload |-> IF \E i \in is : items[i].payload = p THEN 0 ELSE streak[p]]

PopDue ==
  /\ Deliverable \cup Discarded # {}      \* else nothing changes
  /\ LET out == IF Deliverable = {} THEN {} ELSE {Min(Deliverable)}
     IN  /\ items' = Without(Discarded \cup out)
         /\ handed' = [p \in Payload |->
              IF \E i \in out : items[i].payload = p THEN handed[p] + 1 ELSE handed[p]]
         /\ streak' = LeftQueue(Discarded \cup out)
  /\ dropped' = dropped + Cardinality(Discarded)
  /\ UNCHANGED <<clock, pushes, replaced, last>>

Tick ==
  /\ clock < MaxClock /\ clock' = clock + 1
  /\ UNCHANGED <<items, dropped, pushes, replaced, handed, streak, last>>

Next ==
  \/ \E p \in Payload : Push(p)
  \/ PopDue
  \/ Tick

Spec == Init /\ [][Next]_vars
-----------------------------------------------------------------------------
HandedOut == MapThenSumSet(LAMBDA p : handed[p], Payload)

\* Every push is accounted for: its item waits, replaced one that waited, was
\* handed out, or is counted as dropped.  A payload waits once, in a queue
\* within its capacity, and its attempts are the pushes since it last left the
\* queue, whatever was evicted or discarded in between.
EveryPushCounted ==
  /\ pushes = Len(items) + replaced + HandedOut + dropped
  /\ Len(items) <= Capacity
  /\ \A i, k \in Items : items[i].payload = items[k].payload => i = k
  /\ \A p \in Payload :
       Attempts(p) = streak[p] /\ (streak[p] > 0 <=> Matching(p) # {})

\* A payload is handed out no earlier than its backoff, doubled with every
\* push, after its latest push, and not at all once it was pushed MaxAttempts
\* times without leaving: the overflow of longer delays reaches none of these.
BackoffHonoured ==
  [][\A p \in Payload : handed'[p] > handed[p] =>
       /\ clock >= last[p] + BaseDelay * 2 ^ (streak[p] - 1)
       /\ streak[p] < MaxAttempts]_vars
=============================================================================
