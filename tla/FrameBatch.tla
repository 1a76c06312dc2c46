------------------------------ MODULE FrameBatch ------------------------------
(***************************************************************************)
(* handleFrameBatch (ingest_admin_handler.go): a body of frames glued back *)
(* to back is walked frame by frame, and each frame submitted, while other *)
(* clients and the worker fill and empty the queue.  The body is a         *)
(* sequence of words; a header is two of them, Magic and the count of the  *)
(* samples that follow, one word each.                                     *)
(***************************************************************************)
EXTENDS Integers, Sequences, FiniteSetsExt

CONSTANTS
  Cell,         \* words a body is made of
  MaxBody,      \* bound: words in a body
  MaxSampleCount,
  QueueSize

BatchParameters ==
  Cell \subseteq Int /\ {MaxBody, MaxSampleCount, QueueSize} \subseteq Nat

Magic == -1

HeaderSize == 2

VARIABLES
  body,
  offset,       \* words walked over so far
  room,         \* free places in the ingest queue
  walk,         \* "on", or "over" when the handler has answered
  queued,       \* history: the frames accepted, by the offset of their first
                \* word and of the word behind them
  refused,      \* history: those refused
  failed

vars == <<body, offset, room, walk, queued, refused, failed>>

\* ParseHeader accepts the words behind offset at.
Header(at) == body[at + 1] = Magic /\ body[at + 2] \in 0..MaxSampleCount

\* FrameSize
FrameEnd(at) == at + HeaderSize + body[at + 2]

\* A frame that ends with the body is taken for truncated.
TruncatedEarly(at) == FrameEnd(at) >= Len(body)

\* The final frame is not all there.
Truncated(at) == FrameEnd(at) > Len(body)
-----------------------------------------------------------------------------
Init ==
  /\ \E size \in 0..MaxBody : body \in [1..size -> Cell]
  /\ offset = 0 /\ room \in 0..QueueSize
  /\ walk = "on" /\ queued = <<>> /\ refused = {} /\ failed = 0

More == walk = "on" /\ offset < Len(body)

\* Less than a header is left, or no header, or no complete frame: one failure
\* for all that is left.
GiveUp ==
  /\ More
  /\ \/ Len(body) - offset < HeaderSize
     \/ Len(body) - offset >= HeaderSize /\ ~Header(offset)
     \/ Len(body) - offset >= HeaderSize /\ Header(offset) /\ Truncated(offset)
  /\ failed' = failed + 1 /\ walk' = "over"
  /\ UNCHANGED <<body, offset, room, queued, refused>>

\* Submit cannot fail to decode what was cut to the length its header tells; a
\* frame that is refused, for the queue is full, does not stop the walk.
SubmitNext ==
  /\ More /\ Len(body) - offset >= HeaderSize
  /\ Header(offset) /\ ~Truncated(offset)
  /\ LET piece == <<offset, FrameEnd(offset)>>
     IN  \/ /\ room > 0 /\ room' = room - 1
            /\ queued' = Append(queued, piece) /\ UNCHANGED <<refused, failed>>
         \/ /\ room = 0 /\ UNCHANGED <<room, queued>>
            /\ refused' = refused \cup {piece} /\ failed' = failed + 1
  /\ offset' = FrameEnd(offset)
  /\ UNCHANGED <<body, walk>>

Finish ==
  /\ walk = "on" /\ offset >= Len(body)
  /\ walk' = "over"
  /\ UNCHANGED <<body, offset, room, queued, refused, failed>>

\* The worker takes frames, other clients submit theirs.
QueueMoves ==
  /\ walk = "on"
  /\ room' \in 0..QueueSize \ {room}
  /\ UNCHANGED <<body, offset, walk, queued, refused, failed>>

Next == GiveUp \/ SubmitNext \/ Finish \/ QueueMoves

Spec == Init /\ [][Next]_vars

\* The answer's status.
Accepted == ~(queued = <<>> /\ failed > 0)
-----------------------------------------------------------------------------
\* From cut to the next cut a frame, from the start of the body on.
Frames(cuts) ==
  /\ 0 \in cuts
  /\ \A c \in cuts \ {0} : \E b \in cuts :
       /\ b + HeaderSize <= c /\ \A d \in cuts : d <= b \/ c <= d
       /\ Header(b) /\ c = b + HeaderSize + body[b + 2]

\* The longest chain of complete frames the body begins with.
Cuts == LET all == {cuts \in SUBSET (0..Len(body)) : Frames(cuts)}
        IN  UNION all

\* Once a batch is answered, each frame of the longest chain of complete frames
\* it begins with was submitted, whole, once and in order, whatever the queue
\* did meanwhile; the failures are the frames refused and one for what is left;
\* and it is answered as bad only if nothing of it was accepted.
BatchIsItsFrames ==
  walk = "over" =>
    LET cut(p) == p[1] \in Cuts /\ p[2] = Min({c \in Cuts : c > p[1]})
    IN  /\ {p[1] : p \in Range(queued) \cup refused} = Cuts \ {Max(Cuts)}
        /\ \A p \in Range(queued) \cup refused : cut(p)
        /\ Len(queued) + Cardinality(refused) = Cardinality(Cuts) - 1
        /\ \A k \in 2..Len(queued) : queued[k - 1][2] <= queued[k][1]
        /\ failed = Cardinality(refused) + IF Max(Cuts) = Len(body) THEN 0 ELSE 1
        /\ Accepted <=> (queued # <<>> \/ body = <<>>)
=============================================================================
