----------------------------- MODULE FrameHistory -----------------------------
(***************************************************************************)
(* The stored frames of a channel over time (frame_query.go, retention.go, *)
(* pagination.go): the worker inserts frames, late ones too, two retention *)
(* jobs delete old ones, by the end of a frame and by the time it was      *)
(* received, and a client walks the history page by page, each page a      *)
(* query of its own that skips as many rows as the client has been given.  *)
(***************************************************************************)
EXTENDS Naturals, SequencesExt, FiniteSetsExt

CONSTANTS
  Span,             \* frames by start and end
  MaxFrames,        \* bound: frames ever inserted
  DefaultPageLimit, MaxPageLimit,
  AskedLimit,       \* the limits a client may ask for
  MaxWalks          \* bound: walks through the history

HistoryParameters ==
  /\ Span \subseteq [start : Nat, end : Nat] /\ \A f \in Span : f.start < f.end
  /\ {DefaultPageLimit, MaxPageLimit} \subseteq Nat \ {0}
  /\ AskedLimit \subseteq Nat /\ {MaxFrames, MaxWalks} \subseteq Nat

VARIABLES
  frames,           \* the table, by id, which is the order of receipt
  nextId,
  walk,             \* the client: the limit it asks for and what it was given
  begun,            \* history: the rows there were as the walk began
  inserted, deleted,\* history: ids inserted and deleted during the walk
  walks

vars == <<frames, nextId, walk, begun, inserted, deleted, walks>>

Ids == DOMAIN frames

\* ORDER BY start_time, answered from the index on it, which holds the rows of
\* one start by id.
Before(i, k) ==
  \/ frames[i].start < frames[k].start
  \/ frames[i].start = frames[k].start /\ i < k

\* The row's number in that order.
Place(i) == Cardinality({k \in Ids : k = i \/ Before(k, i)})

Ordered == [n \in 1..Cardinality(Ids) |-> CHOOSE i \in Ids : Place(i) = n]

\* Limits above the maximum become the default, as zero does.
ParsePage(limit) == IF limit \in 1..MaxPageLimit THEN limit ELSE DefaultPageLimit

\* Clamp: bounds within 0..n
Clamp(offset, limit, n) == [from |-> Min({offset, n}), to |-> Min({offset + limit, n})]

\* OFFSET is where the walk left off, less one.
PageWithOverlap(given, limit) ==
  LET offset == IF given = 0 THEN 0 ELSE given - 1
      bounds == Clamp(offset, limit, Cardinality(Ids))
  IN  SubSeq(Ordered, bounds.from + 1, bounds.to)

\* ListPaged: LIMIT and OFFSET cut what Clamp would.
Page(given, limit) ==
  LET bounds == Clamp(given, limit, Cardinality(Ids))
  IN  SubSeq(Ordered, bounds.from + 1, bounds.to)

NoWalk == [on |-> FALSE, limit |-> 1, seen |-> <<>>]
-----------------------------------------------------------------------------
Init ==
  /\ frames = <<>> /\ nextId = 1
  /\ walk = NoWalk /\ begun = {} /\ inserted = {} /\ deleted = {} /\ walks = 0

\* FrameStore.Create; AUTOINCREMENT gives no id twice.
Insert(f) ==
  /\ nextId <= MaxFrames /\ nextId' = nextId + 1
  /\ frames' = [i \in Ids \cup {nextId} |-> IF i = nextId THEN f ELSE frames[i]]
  /\ inserted' = IF walk.on THEN inserted \cup {nextId} ELSE inserted
  /\ UNCHANGED <<walk, begun, deleted, walks>>

Delete(old) ==
  /\ old # {}
  /\ frames' = [i \in Ids \ old |-> frames[i]]
  /\ deleted' = IF walk.on THEN deleted \cup old ELSE deleted
  /\ UNCHANGED <<nextId, walk, begun, inserted, walks>>

\* RetentionService
PurgeFramesBefore(cutoff) == Delete({i \in Ids : frames[i].end < cutoff})

\* FrameStore, by received_at
DeleteBefore(id) == Delete({i \in Ids : i < id})

BeginWalk(limit) ==
  /\ ~walk.on /\ walks < MaxWalks /\ walks' = walks + 1
  /\ walk' = [on |-> TRUE, limit |-> ParsePage(limit), seen |-> <<>>]
  /\ begun' = Ids /\ inserted' = {} /\ deleted' = {}
  /\ UNCHANGED <<frames, nextId>>

\* An empty page ends the walk.
NextPage ==
  /\ walk.on
  /\ LET page == Page(Len(walk.seen), walk.limit)
     IN  walk' = [walk EXCEPT !.seen = @ \o page, !.on = page # <<>>]
  /\ UNCHANGED <<frames, nextId, begun, inserted, deleted, walks>>

Next ==
  \/ \E f \in Span : Insert(f) \/ PurgeFramesBefore(f.start)
  \/ \E id \in 2..MaxFrames : DeleteBefore(id)
  \/ \E limit \in AskedLimit : BeginWalk(limit)
  \/ NextPage

Spec == Init /\ [][Next]_vars
-----------------------------------------------------------------------------
Times(i) == Cardinality({k \in 1..Len(walk.seen) : walk.seen[k] = i})

\* A walk to the end misses no more of the frames that were there throughout
\* than were deleted meanwhile, and is given no more frames again than were
\* inserted meanwhile: a walk nothing disturbs is the history, once and in order,
\* whatever limit was asked for.
WalkSeesEachOnce ==
  LET missed == {i \in begun \ deleted : Times(i) = 0}
      again == Len(walk.seen) - Cardinality(Range(walk.seen))
  IN  /\ ~walk.on => Cardinality(missed) <= Cardinality(deleted)
      /\ again <= Cardinality(inserted)
      /\ (walk.on /\ inserted \cup deleted = {}) => walk.seen = SubSeq(Ordered, 1, Len(walk.seen))
=============================================================================
