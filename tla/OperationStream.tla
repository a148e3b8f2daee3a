-------------------------- MODULE OperationStream ---------------------------
(***************************************************************************)
(* One client observing the operations of one host: the engine's event     *)
(* stream (operations/mod.rs), the owner thread that answers requests,     *)
(* advances work and delivers events in turns (host/transport.rs), the     *)
(* registration a webview polls (bridge-host-adapter, tauri/transport.ts)  *)
(* and the client's session and store (client/observation.ts).             *)
(*                                                                         *)
(* Replies and polled events travel separately: nothing orders a reply     *)
(* with the events that are queued when it is written.                     *)
(***************************************************************************)
EXTENDS ObservationStore

CONSTANTS
  MaxObserverEvents,   \* MAX_OBSERVER_EVENTS
  MaxRevision,         \* bound: revisions of an operation, before openings add
  MaxStreams           \* bound: hosts one after the other

ASSUME StreamAssumption ==
  /\ MaxObserverEvents \in Nat /\ MaxRevision \in Nat
  /\ MaxStreams \in Nat \ {0}

VARIABLES
  stream,        \* which host: its epoch and stream identity
  operations,    \* Engine.operations
  durable,       \* the operations as the journal replays them
  issued,        \* operation identities handed out
  published,     \* every event of this stream; Engine.events is its end
  poisoned,      \* Engine.poisoned
  failed,        \* Runtime.failure is set
  phase,         \* where the owner's turn stands: "receive" or "pump"
  registration,  \* the client's subscription: "none", "asked", "ready"
  observer,      \* the owner's Observer: is it served, and its cursor
  fault,         \* the subscription's fault cell is set
  queue,         \* the subscription's event channel
  carried,       \* the event in the answer to the poll under way
  snapshotCall,  \* the pending Snapshot query
  operationCall, \* the pending GetOperation or Commit
  store          \* the client's ObservationStore

engine == <<stream, operations, durable, issued, published, poisoned>>
subscription == <<registration, observer, fault, queue, carried>>
calls == <<snapshotCall, operationCall>>
vars == <<engine, failed, phase, subscription, calls, store>>

Idle == [state |-> "idle"]
Asked == [state |-> "asked"]

Statuses == {"active", "recovery", "completed"}
Snapshots == [revision : Nat \ {0}, status : Statuses]

Events(ops) ==
  [cursor : [stream : 1..MaxStreams, sequence : Nat], operation : ops,
   snapshot : Snapshots]

\* The type of every variable.
TypeOK ==
  /\ stream \in 1..MaxStreams
  /\ operations \in [Operations -> Snapshots \cup {Absent}]
  /\ durable \in [Operations -> Snapshots \cup {Absent}]
  /\ issued \subseteq Operations
  /\ published \in Seq(Events(issued))
  /\ poisoned \in BOOLEAN /\ failed \in BOOLEAN
  /\ phase \in {"receive", "pump"}
  /\ registration \in {"none", "asked", "ready"}
  /\ observer.live \in BOOLEAN /\ observer.cursor \in 0..Len(published)
  /\ fault \in BOOLEAN
  /\ queue \in Seq(Events(issued)) /\ Len(queue) <= MaxObserverEvents
  /\ carried \in Seq(Events(issued)) /\ Len(carried) <= 1
  /\ snapshotCall.state \in {"idle", "asked", "answered"}
  /\ operationCall.state \in {"idle", "asked", "answered"}
  /\ store.confidence \in {"uninitialized", "anchored", "stale"}
  /\ store.view \in [Operations -> Snapshots \cup {Absent}]
  /\ Len(store.buffer) <= MaxBufferedEvents

Init ==
  /\ stream = 1
  /\ operations = [o \in Operations |-> Absent]
  /\ durable = operations
  /\ issued = {}
  /\ published = <<>>
  /\ poisoned = FALSE /\ failed = FALSE
  /\ phase = "receive"
  /\ registration = "none"
  /\ observer = [live |-> FALSE, cursor |-> 0]
  /\ fault = FALSE
  /\ queue = <<>> /\ carried = <<>>
  /\ snapshotCall = Idle /\ operationCall = Idle
  /\ store = NewStore

-----------------------------------------------------------------------------
(* The engine                                                              *)

CursorNow == [stream |-> stream, sequence |-> Len(published)]

Event(n, o, snapshot) ==
  [cursor |-> [stream |-> stream, sequence |-> n], operation |-> o,
   snapshot |-> snapshot]

Change(o, status) ==
  [revision |-> operations[o].revision + 1, status |-> status]

\* publish_event, once for each snapshot.
Publish(o, snapshots) ==
  published' = published \o
    [i \in DOMAIN snapshots |-> Event(Len(published) + i, o, snapshots[i])]

\* Each snapshot of o is appended to the journal, then stored, then published.
PersistChanges(o, snapshots) ==
  /\ ~poisoned
  /\ operations' = [operations EXCEPT ![o] = Last(snapshots)]
  /\ durable' = [durable EXCEPT ![o] = Last(snapshots)]
  /\ Publish(o, snapshots)
  /\ UNCHANGED <<stream, poisoned>>

\* Seeded defect: what could not be appended is kept in memory all the same.
KeepUncertain(o, snapshot) ==
  /\ ~poisoned /\ poisoned' = TRUE
  /\ durable' \in {durable, [durable EXCEPT ![o] = snapshot]}
  /\ operations' = [operations EXCEPT ![o] = snapshot]
  /\ UNCHANGED <<stream, published>>

\* An append fails: nothing is published, and the record may be durable.  A
\* change is dropped from memory; an admission is kept there.
PersistUncertain(o, snapshot) ==
  /\ ~poisoned /\ poisoned' = TRUE
  /\ durable' \in {durable, [durable EXCEPT ![o] = snapshot]}
  /\ operations' = IF operations[o] = Absent
                   THEN [operations EXCEPT ![o] = snapshot] ELSE operations
  /\ UNCHANGED <<stream, published>>

Admitted == [revision |-> 1, status |-> "active"]

\* MaxRevision leaves no operation active.
WithinBound(c) ==
  /\ c.revision <= MaxRevision
  /\ c.status = "active" => c.revision < MaxRevision

\* What a command makes of o: cancel completes what was only admitted and is a
\* request to what executes, recover ends or renews a recovery, handoff_session
\* changes neither.
Commanded(o) ==
  {c \in {Change(o, status) : status \in Statuses} :
     /\ WithinBound(c)
     /\ operations[o].status = "active" =>
          c.status = IF operations[o] = Admitted THEN "completed" ELSE "active"
     /\ operations[o].status = "recovery" => c.status # "active"
     /\ operations[o].status = "completed" => c.status = "completed"}

\* Engine::advance: an admitted operation is recorded as executing first; then
\* finish_step records the port's answer.
Executing(o) == IF operations[o] = Admitted THEN <<Change(o, "active")>> ELSE <<>>
Answered(o) ==
  {c \in {[revision |-> operations[o].revision + Len(Executing(o)) + 1,
           status |-> status] : status \in Statuses} : WithinBound(c)}

-----------------------------------------------------------------------------
(* The owner's turn: Runtime::tick                                         *)

EndReceive == phase = "receive" /\ phase' = "pump"

\* The inbox is empty.
ReceiveNothing ==
  /\ EndReceive
  /\ UNCHANGED <<engine, failed, subscription, calls, store>>

\* Job::Subscribe without a cursor: the observer starts at the current one.  A
\* failed host answers with its fault, and the registration is never ready.
Subscribe ==
  /\ EndReceive
  /\ registration = "asked" /\ ~fault
  /\ fault' = failed
  /\ registration' = IF failed THEN "asked" ELSE "ready"
  /\ observer' = [live |-> ~failed, cursor |-> Len(published)]
  /\ UNCHANGED <<engine, failed, queue, carried, calls, store>>

\* A request goes out once the registration is ready.
ServeSnapshot ==
  /\ EndReceive
  /\ registration = "ready" /\ snapshotCall = Asked
  /\ snapshotCall' = [state |-> "answered", cursor |-> CursorNow,
                      operations |-> operations]
  /\ UNCHANGED <<engine, failed, subscription, operationCall, store>>

ServeOperation ==
  /\ EndReceive
  /\ registration = "ready" /\ operationCall.state = "asked"
  /\ operationCall.operation \in issued
  /\ operationCall' = [state |-> "answered",
                       operation |-> operationCall.operation,
                       snapshot |-> operations[operationCall.operation]]
  /\ UNCHANGED <<engine, failed, subscription, snapshotCall, store>>

\* The client's commit is admitted: the reply and the event say the same.
ServeCommit ==
  /\ EndReceive
  /\ registration = "ready" /\ operationCall.state = "asked" /\ ~poisoned
  /\ LET o == operationCall.operation IN
       /\ o \notin issued /\ issued' = issued \cup {o}
       /\ operations' = [operations EXCEPT ![o] = Admitted]
       /\ durable' = [durable EXCEPT ![o] = Admitted]
       /\ Publish(o, <<Admitted>>)
       /\ operationCall' = [state |-> "answered", operation |-> o,
                            snapshot |-> Admitted]
  /\ UNCHANGED <<stream, poisoned, failed, subscription, snapshotCall, store>>

\* The client's commit is refused: its append failed now or one did before.
RefuseCommit ==
  /\ EndReceive
  /\ registration = "ready" /\ operationCall.state = "asked"
  /\ operationCall.operation \notin issued
  /\ \/ poisoned /\ UNCHANGED engine
     \/ /\ issued' = issued \cup {operationCall.operation}
        /\ PersistUncertain(operationCall.operation, Admitted)
  /\ operationCall' = Idle
  /\ UNCHANGED <<failed, subscription, snapshotCall, store>>

\* Someone else's command: another window commits or cancels, the application
\* recovers an operation or hands a session off.
OtherCommit(o) ==
  /\ EndReceive
  /\ operationCall.state = "asked" => operationCall.operation # o
  /\ o \notin issued /\ issued' = issued \cup {o}
  /\ \/ /\ ~poisoned
        /\ operations' = [operations EXCEPT ![o] = Admitted]
        /\ durable' = [durable EXCEPT ![o] = Admitted]
        /\ Publish(o, <<Admitted>>)
        /\ UNCHANGED <<stream, poisoned>>
     \/ PersistUncertain(o, Admitted)
  /\ UNCHANGED <<failed, subscription, calls, store>>

OtherCommand(o) ==
  /\ EndReceive
  /\ operations[o] # Absent
  /\ \E c \in Commanded(o) : \/ PersistChanges(o, <<c>>)
                             \/ PersistUncertain(o, c)
  /\ UNCHANGED <<issued, failed, subscription, calls, store>>

\* What the observer has not been sent at the end of the pump.
Undelivered == SubSeq(published', observer.cursor + 1, Len(published'))

\* Seeded defect: the channel has no bound.
DeliverUnbounded ==
  /\ queue' = queue \o Undelivered
  /\ observer' = [observer EXCEPT !.cursor = Len(published')]
  /\ fault' = fault

\* Seeded defect: a full channel is not an error.
DeliverSilently ==
  LET room == MaxObserverEvents - Len(queue)
      sent == SubSeq(Undelivered, 1, Min({room, Len(Undelivered)}))
  IN /\ queue' = queue \o sent
     /\ observer' = [observer EXCEPT !.cursor = Len(published')]
     /\ fault' = fault

\* deliver_events for one observer: what fits is sent; what does not fit is the
\* end of the observer, said in the fault cell.  A turn publishes far less than
\* EVENT_RETENTION, so that its cursor never falls behind what is retained.
DeliverBatch ==
  LET room == MaxObserverEvents - Len(queue)
      sent == SubSeq(Undelivered, 1, Min({room, Len(Undelivered)}))
  IN /\ queue' = queue \o sent
     /\ observer' = [live |-> sent = Undelivered,
                     cursor |-> observer.cursor + Len(sent)]
     /\ fault' = (fault \/ sent # Undelivered)

\* Runtime::fail ends every observer; deliver_events serves the others.
Deliver ==
  IF failed'
  THEN /\ observer' = [observer EXCEPT !.live = FALSE]
       /\ fault' = (fault \/ observer.live)
       /\ UNCHANGED queue
  ELSE IF observer.live THEN DeliverBatch ELSE UNCHANGED <<queue, observer, fault>>

EndPump ==
  /\ phase = "pump" /\ phase' = "receive"
  /\ UNCHANGED <<registration, carried, calls, store>>

Active == {o \in Operations : operations[o].status = "active"}

\* KernelHost::pump finds nothing to advance, or only asks for the settlement of
\* completed work, which no event tells.
PumpNothing ==
  /\ EndPump
  /\ Active = {} \/ \E o \in Operations : operations[o].status = "completed"
  /\ UNCHANGED <<engine, failed>>
  /\ Deliver

PumpAdvances(o) ==
  /\ EndPump
  /\ o \in Active
  /\ \E c \in Answered(o) : PersistChanges(o, Append(Executing(o), c))
  /\ UNCHANGED <<issued, failed>>
  /\ Deliver

\* Advancing fails: the engine is poisoned, the executing record cannot be
\* appended, the port's answer is rejected, or its record cannot be appended.
AdvanceFails(o) ==
  LET now == IF operations[o] = Admitted THEN Change(o, "active") ELSE operations[o]
  IN \/ poisoned /\ UNCHANGED engine
     \/ /\ operations[o] = Admitted
        /\ PersistUncertain(o, now)
        /\ UNCHANGED issued
     \/ /\ ~poisoned
        /\ operations' = [operations EXCEPT ![o] = now]
        /\ \/ poisoned' = FALSE /\ durable' = operations'
           \/ /\ poisoned' = TRUE
              /\ \E d \in {now} \cup Answered(o) : durable' = [durable EXCEPT ![o] = d]
        /\ Publish(o, Executing(o))
        /\ UNCHANGED <<stream, issued>>

\* A settlement's own record cannot be appended, or its lease is not the right one.
SettlementFails(o) ==
  /\ operations[o].status = "completed"
  /\ poisoned' \in {poisoned, TRUE}
  /\ UNCHANGED <<stream, operations, durable, issued, published>>

PumpFails ==
  /\ EndPump
  /\ \/ \E o \in Active : AdvanceFails(o)
     \/ \E o \in Operations : SettlementFails(o)
  /\ failed' = TRUE
  /\ Deliver

-----------------------------------------------------------------------------
(* The client: ObservationSession over TauriTransport                      *)

\* The client drops its registration and every call with it: TauriTransport
\* retires the generation, ObservationSession::deliveryFault abandons.
Disconnected ==
  /\ registration' = "none"
  /\ observer' = [live |-> FALSE, cursor |-> 0]
  /\ fault' = FALSE
  /\ queue' = <<>> /\ carried' = <<>>
  /\ snapshotCall' = Idle /\ operationCall' = Idle
  /\ store' = AbandonSnapshot(store)

\* ObservationSession::start: events are buffered from the registration on.
Start ==
  /\ registration = "none"
  /\ registration' = "asked"
  /\ store' = BeginSnapshot(store)
  /\ snapshotCall' = Asked
  /\ UNCHANGED <<engine, failed, phase, observer, fault, queue, carried,
                 operationCall>>

\* ObservationSession::refresh; one that is under way is shared.
Refresh ==
  /\ registration # "none" /\ snapshotCall = Idle
  /\ store' = BeginSnapshot(store)
  /\ snapshotCall' = Asked
  /\ UNCHANGED <<engine, failed, phase, subscription, operationCall>>

\* A commit, its replay after a lost answer, or get_operation.
AskOperation(o) ==
  /\ registration # "none" /\ operationCall = Idle
  /\ operationCall' = [state |-> "asked", operation |-> o]
  /\ UNCHANGED <<engine, failed, phase, subscription, snapshotCall, store>>

SnapshotArrives ==
  /\ snapshotCall.state = "answered"
  /\ store' = AcceptSnapshot(store, snapshotCall)
  /\ snapshotCall' = Idle
  /\ UNCHANGED <<engine, failed, phase, subscription, operationCall>>

OperationArrives ==
  /\ operationCall.state = "answered"
  /\ store' = ObserveOperation(store, operationCall.operation,
                               operationCall.snapshot)
  /\ operationCall' = Idle
  /\ UNCHANGED <<engine, failed, phase, subscription, snapshotCall>>

\* A call times out, is aborted or its answer is lost.  A query that fails need
\* not have been answered: answering one changes nothing else.
SnapshotFails ==
  /\ snapshotCall = Asked
  /\ snapshotCall' = Idle
  /\ store' = AbandonSnapshot(store)
  /\ UNCHANGED <<engine, failed, phase, subscription, operationCall>>

OperationFails ==
  /\ operationCall # Idle
  /\ operationCall' = Idle
  /\ UNCHANGED <<engine, failed, phase, subscription, snapshotCall, store>>

\* PollLease::read_one takes one event; Subscription::try_recv looks at the
\* fault cell first.
PollReads ==
  /\ registration = "ready" /\ ~fault
  /\ carried = <<>> /\ queue # <<>>
  /\ carried' = <<Head(queue)>> /\ queue' = Tail(queue)
  /\ UNCHANGED <<engine, failed, phase, registration, observer, fault, calls,
                 store>>

PollArrives ==
  /\ carried # <<>>
  /\ store' = AcceptEvent(store, Head(carried))
  /\ carried' = <<>>
  /\ UNCHANGED <<engine, failed, phase, registration, observer, fault, queue,
                 calls>>

\* The poll meets the fault, the readiness wait is refused.
FaultArrives ==
  /\ registration # "none" /\ fault
  /\ Disconnected
  /\ UNCHANGED <<engine, failed, phase>>

\* A poll's answer is lost, the registration expires while nobody polls.
RegistrationLost ==
  /\ registration # "none"
  /\ Disconnected
  /\ UNCHANGED <<engine, failed, phase>>

\* An operation as Engine::open leaves it: interrupted work is cancelled if it
\* was never started (its first revision) and left to recovery otherwise.
Reopened(o) ==
  CASE durable[o].status \in {"absent", "completed"} -> durable[o]
    [] durable[o] = Admitted -> [revision |-> 2, status |-> "completed"]
    [] OTHER -> [revision |-> durable[o].revision + 1, status |-> "recovery"]

\* The host stops, which costs its clients their registrations; the next one
\* opens its journal and resolves what was interrupted, an event for each.
HostReplaced ==
  /\ stream < MaxStreams /\ stream' = stream + 1
  /\ registration = "none"
  /\ operations' = [o \in Operations |-> Reopened(o)] /\ durable' = operations'
  /\ \E changed \in SetToSeqs({o \in Operations : Reopened(o) # durable[o]}) :
       published' =
          [i \in DOMAIN changed |->
             [cursor |-> [stream |-> stream + 1, sequence |-> i],
              operation |-> changed[i], snapshot |-> Reopened(changed[i])]]
  /\ poisoned' = FALSE /\ failed' = FALSE
  /\ phase' = "receive"
  /\ UNCHANGED <<issued, subscription, calls, store>>

-----------------------------------------------------------------------------
OwnerTurn ==
  \/ ReceiveNothing \/ Subscribe \/ ServeSnapshot \/ ServeOperation
  \/ ServeCommit \/ RefuseCommit
  \/ \E o \in Operations : OtherCommit(o) \/ OtherCommand(o)
  \/ PumpNothing
  \/ \E o \in Operations : PumpAdvances(o)
  \/ PumpFails

ClientStep ==
  \/ Start \/ Refresh
  \/ \E o \in Operations : AskOperation(o)
  \/ SnapshotArrives \/ OperationArrives \/ SnapshotFails \/ OperationFails
  \/ PollReads \/ PollArrives \/ FaultArrives \/ RegistrationLost

Next == OwnerTurn \/ ClientStep \/ HostReplaced

Spec == Init /\ [][Next]_vars

\* The owner's loop turns; its inbox is served in order, so that no waiting job
\* waits forever; the poll timer fires; answers arrive; App.svelte refreshes every
\* five seconds.  Nobody has to start a registration.
Fairness ==
  /\ WF_vars(OwnerTurn)
  /\ SF_vars(Subscribe) /\ SF_vars(ServeSnapshot)
  /\ WF_vars(PollReads) /\ WF_vars(PollArrives) /\ WF_vars(FaultArrives)
  /\ WF_vars(Refresh) /\ WF_vars(SnapshotArrives)

FairSpec == Spec /\ Fairness

-----------------------------------------------------------------------------
(* Properties                                                              *)

Trusting == store.confidence = "anchored"

\* What the client has not accounted for yet but is sure to meet: the events it
\* buffers, the one a poll carries, those in the channel.
Coming == (IF store.buffering THEN store.buffer ELSE <<>>) \o carried \o queue

\* A client that trusts what it shows cannot have missed an event unknowingly:
\* of what is coming, a first part is behind the client's cursor and the rest is
\* every event the owner has sent since that cursor, in this order; and the owner
\* either goes on sending or has left a fault that the next poll meets
\* (observation.ts, transport.rs deliver_events).
NothingMissed ==
  Trusting =>
    /\ registration = "ready" /\ store.cursor.stream = stream
    /\ observer.live \/ fault
    /\ \E covered \in 0..Len(Coming) :
         /\ \A i \in 1..covered :
              Coming[i].cursor.sequence <= store.cursor.sequence
         /\ SubSeq(Coming, covered + 1, Len(Coming)) =
              SubSeq(published, store.cursor.sequence + 1, observer.cursor)

\* What a trusting client shows of an operation is what the host has, unless an
\* event that brings it up to date is still to come.  The one exception is an
\* admission whose append failed: it is in the host's memory, and no event ever
\* says so (commit in operations/mod.rs).
ShownIsCurrentOrComing ==
  Trusting => \A o \in Operations :
    \/ store.view[o] = operations[o]
    \/ \E n \in (store.cursor.sequence + 1)..Len(published) :
         published[n].operation = o /\ published[n].snapshot = operations[o]
    \/ poisoned /\ operations[o] = Admitted /\ store.view[o] = Absent

\* What a client shows never goes back, whatever it was told in whichever order
\* and over whichever hosts: revisions grow and completed work stays completed.
ShownOnlyAdvances ==
  [][\A o \in Operations :
       /\ store'.view[o].revision >= store.view[o].revision
       /\ store.view[o].status = "completed" =>
            store'.view[o].status = "completed"]_vars

\* While a registration lasts, its snapshots stop failing and its host knows what
\* the client knows, the client is again and again up to date with everything the
\* host has (refresh in observation.ts, driven by the timer of App.svelte).
Current == Trusting /\ store.view = operations
Lasting ==
  /\ <>[](registration = "ready")
  /\ <>[][~SnapshotFails]_vars
  /\ <>[](\A o \in Operations : operations[o] = Absent => store.view[o] = Absent)
ObservationRecovers == Lasting => []<>Current

\* Documented (OPERATING_CONTRACT.md): snapshots and cursors let "a reconnect ...
\* obtain an authoritative snapshot and resume observation".  So an event that is
\* delivered once, in order, and contradicts nothing the snapshot said does not
\* cost the client its confidence (acceptEvent in observation.ts).
ObservationResumes ==
  [][(/\ PollArrives /\ Trusting /\ ~store.buffering
      /\ Consistent(store.view, Head(carried).operation, Head(carried).snapshot))
     => store'.confidence = "anchored"]_vars
=============================================================================
