-------------------------- MODULE ObservationStore --------------------------
(***************************************************************************)
(* The client's ObservationStore (ui/src/client/observation.ts) as         *)
(* operators on its state: what a snapshot, an event or a single observed  *)
(* operation does to the cursor, to the operations shown and to the        *)
(* confidence in them.                                                     *)
(*                                                                         *)
(* An operation is its revision and the class of its state.  The reasons   *)
(* for losing confidence are one ("stale"), and so are the two ways to     *)
(* have it: "partial" and "authoritative" accept the same events.          *)
(* Drafts, and the limit on operations, which is the host's own, are left  *)
(* out.                                                                    *)
(***************************************************************************)
EXTENDS Naturals, Sequences, SequencesExt

CONSTANTS
  Operations,          \* operation identities
  MaxBufferedEvents    \* maximumBufferedEvents

ASSUME StoreAssumption == IsFiniteSet(Operations) /\ MaxBufferedEvents \in Nat

Absent == [revision |-> 0, status |-> "absent"]
NoCursor == [stream |-> 0, sequence |-> 0]

NewStore ==
  [confidence |-> "uninitialized", cursor |-> NoCursor,
   view |-> [o \in Operations |-> Absent],
   buffering |-> FALSE, bufferFailed |-> FALSE, buffer |-> <<>>]

Invalidate(s) == [s EXCEPT !.confidence = "stale"]

\* Seeded defect: an overflow of the buffer is never forgotten.
BeginSnapshotAgain(s) == [s EXCEPT !.buffering = TRUE, !.buffer = <<>>]

BeginSnapshot(s) ==
  [s EXCEPT !.buffering = TRUE, !.bufferFailed = FALSE, !.buffer = <<>>]

AbandonSnapshot(s) ==
  Invalidate([s EXCEPT !.buffering = FALSE, !.buffer = <<>>])

\* Seeded defect: an older revision replaces a newer one.
ConsistentAnyOrder(view, o, snapshot) ==
  view[o].status = "completed" => snapshot.status = "completed"

\* operationProblem: revisions do not regress or change their meaning, and a
\* completed operation stays as it is.
Consistent(view, o, snapshot) ==
  /\ snapshot.revision >= view[o].revision
  /\ view[o].status = "completed" => snapshot.status = "completed"
  /\ snapshot.revision = view[o].revision => snapshot = view[o]

\* acceptEvent: while a snapshot is awaited, events are kept for it, and one too
\* many spoils it; otherwise the event has to be the next one.
AcceptEvent(s, e) ==
  IF s.buffering THEN
    IF s.bufferFailed THEN s
    ELSE IF Len(s.buffer) >= MaxBufferedEvents
         THEN Invalidate([s EXCEPT !.buffer = <<>>, !.bufferFailed = TRUE])
    ELSE [s EXCEPT !.buffer = Append(@, e)]
  ELSE IF \/ e.cursor.stream # s.cursor.stream
          \/ e.cursor.sequence <= s.cursor.sequence
       THEN Invalidate(s)
  ELSE IF s.confidence = "stale" THEN s
  ELSE IF /\ e.cursor.sequence = s.cursor.sequence + 1
          /\ Consistent(s.view, e.operation, e.snapshot)
       THEN [s EXCEPT !.cursor = e.cursor, !.view[e.operation] = e.snapshot]
  ELSE Invalidate(s)

\* What makes a snapshot unacceptable: a lost buffer, a watermark behind the
\* cursor, a contradiction, or work known to be pending that it does not list.
SnapshotProblem(s, reply) ==
  \/ s.bufferFailed
  \/ /\ reply.cursor.stream = s.cursor.stream
     /\ reply.cursor.sequence < s.cursor.sequence
  \/ \E o \in Operations :
       IF reply.operations[o] = Absent
       THEN s.view[o].status \notin {"absent", "completed"}
       ELSE ~Consistent(s.view, o, reply.operations[o])

\* A good snapshot is the new watermark.
Anchored(s, reply) ==
  [s EXCEPT !.confidence = "anchored", !.cursor = reply.cursor,
     !.view = [o \in Operations |-> IF reply.operations[o] = Absent THEN s.view[o]
                                    ELSE reply.operations[o]],
     !.buffering = FALSE, !.buffer = <<>>]

\* Buffered events behind the watermark are covered by it, the later ones are
\* accepted in turn.  An event refused in between leaves the store stale, so that
\* none of the events behind it changes anything.
Replayed(s, reply) ==
  LET later(e) == \/ e.cursor.stream # reply.cursor.stream
                  \/ e.cursor.sequence > reply.cursor.sequence
      after[i \in 0..Len(s.buffer)] ==
        IF i = 0 THEN Anchored(s, reply)
        ELSE IF later(s.buffer[i]) THEN AcceptEvent(after[i - 1], s.buffer[i])
        ELSE after[i - 1]
  IN after[Len(s.buffer)]

AcceptSnapshot(s, reply) ==
  IF SnapshotProblem(s, reply) THEN AbandonSnapshot(s) ELSE Replayed(s, reply)

\* observeOperation and observeOperationResult.
ObserveOperation(s, o, snapshot) ==
  IF snapshot = Absent
  THEN IF s.view[o] = Absent THEN s ELSE Invalidate(s)
  ELSE IF Consistent(s.view, o, snapshot) THEN [s EXCEPT !.view[o] = snapshot]
  ELSE Invalidate(s)
=============================================================================
