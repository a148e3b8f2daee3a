---------------------------- MODULE BridgeKernel ----------------------------
(***************************************************************************)
(* The headless operation kernel of bridge-engine                          *)
(* (crates/bridge-engine/src/operations/mod.rs) together with the host's   *)
(* pump (host/kernel.rs): a single-threaded engine that prepares plans,    *)
(* admits at most one operation per idempotency key, drives native work    *)
(* through owner ports under exclusive resource leases, and records every  *)
(* change in a write-ahead journal before it is visible in memory.         *)
(*                                                                         *)
(* The native owner behind the ports is external: what it may do is the    *)
(* contract stated in operations/ports.rs.  The journal is kept as what a  *)
(* replay of it yields, the latest record of each operation and the set of *)
(* acknowledged settlements; a failed append may or may not be durable.    *)
(* A handler is split where a crash can come between two durable effects:  *)
(* the journal append, the native owner's own progress, and the append     *)
(* that records it.  Nothing else of the engine runs in between.           *)
(*                                                                         *)
(* Revision counters, event cursors, clock samples and message sizes are   *)
(* not represented: a refusal that changes no state is not an action.      *)
(***************************************************************************)
EXTENDS Naturals, FiniteSets

CONSTANTS
  Operations,      \* identities the IdentitySource may return (ordered)
  Plans,           \* plan identities
  Keys,            \* idempotency keys chosen by clients
  Resources,       \* resource keys
  PlanResources,   \* the normalized resources a plan captures
  LaunchPlans,     \* plans whose capture is a launch (may spawn a session)
  SettledPlans,    \* plans whose owner requires terminal settlement
  MaxOperations,   \* MAX_OPERATIONS
  MaxPreparations, \* MAX_PREPARATIONS
  MaxIssuedPlans,  \* MAX_ISSUED_PLANS
  MaxEpoch,        \* bound: how many times a host is opened
  PortFaults       \* whether a port may return a step the kernel rejects, or
                   \* a progress over the observation budget

ASSUME OperationsAssumption == Operations \subseteq Nat \ {0}
ASSUME PlanAssumption ==
  /\ PlanResources \in [Plans -> SUBSET Resources]
  /\ LaunchPlans \subseteq Plans
  /\ SettledPlans \subseteq Plans
ASSUME BoundsAssumption ==
  /\ MaxOperations \in Nat
  /\ MaxPreparations \in Nat
  /\ MaxIssuedPlans \in Nat
  /\ MaxEpoch \in Nat
  /\ PortFaults \in BOOLEAN

VARIABLES
  up,              \* a process holds the journal and runs Engine::open
  epoch,           \* host epoch of the latest open
  interrupted,     \* operations Engine::open has still to resolve
  operations,      \* in-memory map: operation -> latest known record
  settled,         \* in-memory set of acknowledged settlements
  prepared,        \* preparations retained, with their capture custody
  expired,         \* of those, the ones whose deadline has passed
  issued,          \* plan identities issued by this host
  workers,         \* operations whose custody and lease this host holds
  unpublished,     \* workers whose completion_pending() is true
  call,            \* where the one running engine call stands
  lastAdvanced,    \* KernelHost.last_advanced, 0 for None
  closing,
  poisoned,
  durable,         \* what a replay of the journal yields: latest records
  durableSettled,  \* ... and acknowledged settlements
  native,          \* the owner's transaction, by operation
  sessionAt,       \* who holds the game session an operation spawned
  ownerSettled     \* reservations the owner has durably settled

memory == <<operations, settled, workers, unpublished>>
plans == <<prepared, expired, issued>>
journal == <<durable, durableSettled>>
owner == <<native, sessionAt, ownerSettled>>
process == <<up, epoch, interrupted>>
vars == <<process, memory, plans, call, lastAdvanced, closing, poisoned,
          journal, owner>>

-----------------------------------------------------------------------------
(* Data                                                                    *)

Phases == {"admitted", "executing", "terminal", "recovery"}
Outcomes == {"none", "cancelled", "changed", "unchanged"}
NativeStates == {"idle", "begun", "boundary", "finished"}
Custodians == {"none", "host", "owner"}
Commits == [epoch : Nat, plan : Plans, key : Keys]

\* DurableOperation: the commit that was admitted and its mutable part.
Records ==
  [commit : Commits, phase : Phases, outcome : Outcomes, requested : BOOLEAN,
   cancellable : BOOLEAN, safe : BOOLEAN, session : BOOLEAN]

\* TransactionStep, or the error, that a port's advance or recover returns.
Steps ==
  [kind : {"none", "progress", "complete", "recovery", "error"},
   cancellable : BOOLEAN, safe : BOOLEAN, session : BOOLEAN,
   outcome : Outcomes]
NoStep == [kind |-> "none", cancellable |-> FALSE, safe |-> FALSE,
           session |-> FALSE, outcome |-> "none"]

\* The engine call in progress: waiting for the port, or holding its answer.
Calls == [at : {"idle", "port", "finish", "settle", "handoff"},
          op : Operations \cup {0}, step : Steps]
NoCall == [at |-> "idle", op |-> 0, step |-> NoStep]

EmptyMap == [o \in {} |-> 0]
Put(f, o, v) == [x \in DOMAIN f \cup {o} |-> IF x = o THEN v ELSE f[x]]

ResourcesOf(rec) == PlanResources[rec.commit.plan]
RequiresSettlement(rec) == rec.commit.plan \in SettledPlans
Overlap(left, right) == left \cap right # {}

SettlementPending(o) == RequiresSettlement(operations[o]) /\ o \notin settled

\* Seeded defect: a settled outcome is enough to admit a successor.
BlocksUnlessOutcome(o) ==
  operations[o].phase # "terminal" \/ operations[o].session

\* An operation that keeps its resources from every other admission.
Blocks(o) ==
  \/ operations[o].phase # "terminal"
  \/ operations[o].session
  \/ SettlementPending(o)

Serving == up /\ interrupted = {}
Idle == Serving /\ call.at = "idle"

-----------------------------------------------------------------------------
(* Journal appends                                                         *)

\* Both the journal and the memory take the record (append, then insert).
Persist(o, rec) ==
  /\ durable' = Put(durable, o, rec)
  /\ operations' = Put(operations, o, rec)
  /\ UNCHANGED poisoned

\* Seeded defect: a failed append is taken to have written nothing.
PersistDenied(o, rec) ==
  /\ durable' \in {durable, Put(durable, o, rec)}
  /\ UNCHANGED <<poisoned, operations>>

\* The append failed: its persistence is unknown, the engine is poisoned and
\* keeps the record it had.
PersistUncertain(o, rec) ==
  /\ durable' \in {durable, Put(durable, o, rec)}
  /\ poisoned' = TRUE
  /\ UNCHANGED operations

-----------------------------------------------------------------------------
(* Opening a host                                                          *)

ResetMemory ==
  /\ settled' = {} /\ workers' = {} /\ unpublished' = {}
  /\ prepared' = {} /\ expired' = {} /\ issued' = {}
  /\ call' = NoCall /\ lastAdvanced' = 0
  /\ closing' = FALSE /\ poisoned' = FALSE
  /\ operations' = EmptyMap

\* Interrupted work found by the replay: everything short of an outcome.
InterruptedIn(records) == {o \in DOMAIN records : records[o].phase # "terminal"}

Open ==
  /\ ~up /\ epoch < MaxEpoch
  /\ up' = TRUE
  /\ epoch' = epoch + 1
  /\ operations' = durable
  /\ settled' = durableSettled
  /\ interrupted' = InterruptedIn(durable)
  /\ UNCHANGED <<workers, unpublished, plans, call, lastAdvanced, closing,
                 poisoned, journal, owner>>

\* Seeded defect: whatever was interrupted is reported as cancelled.
ResolvedAsCancelled(rec) ==
  [rec EXCEPT !.phase = "terminal", !.outcome = "cancelled", !.safe = TRUE]

\* What Engine::open makes of an interrupted record: an operation that never
\* left admission is cancelled, any other one needs recovery by its owner.
Resolved(rec) ==
  IF rec.phase = "admitted"
  THEN [rec EXCEPT !.phase = "terminal", !.outcome = "cancelled",
                   !.safe = TRUE]
  ELSE [rec EXCEPT !.phase = "recovery", !.safe = FALSE]

ResolveInterrupted(o) ==
  /\ up /\ o \in interrupted
  /\ \A other \in interrupted : o <= other
  /\ Persist(o, Resolved(operations[o]))
  /\ interrupted' = interrupted \ {o}
  /\ UNCHANGED <<up, epoch, settled, workers, unpublished, plans, call,
                 lastAdvanced, closing, durableSettled, owner>>

\* Engine::open returns the error of the append and no engine exists.
ResolveFails(o) ==
  /\ up /\ o \in interrupted
  /\ \A other \in interrupted : o <= other
  /\ durable' \in {durable, Put(durable, o, Resolved(operations[o]))}
  /\ up' = FALSE /\ interrupted' = {}
  /\ ResetMemory
  /\ UNCHANGED <<epoch, durableSettled, owner>>

-----------------------------------------------------------------------------
(* Preparation                                                             *)

RequireOpen == ~poisoned /\ ~closing

\* The plan's deadline passes on the monotonic clock.
Expire(p) ==
  /\ up /\ p \in prepared \ expired
  /\ expired' = expired \cup {p}
  /\ UNCHANGED <<process, memory, prepared, issued, call, lastAdvanced,
                 closing, poisoned, journal, owner>>

\* Expired captures are pruned before anything else can refuse.
Prepare(p) ==
  /\ Idle /\ RequireOpen
  /\ Cardinality(issued) < MaxIssuedPlans
  /\ Cardinality(prepared \ expired) < MaxPreparations
  /\ p \notin issued
  /\ prepared' = (prepared \ expired) \cup {p}
  /\ expired' = {}
  /\ issued' = issued \cup {p}
  /\ UNCHANGED <<process, memory, call, lastAdvanced, closing, poisoned,
                 journal, owner>>

\* A capture, identity or clock refusal after the pruning.
PrepareRefused ==
  /\ Idle /\ RequireOpen
  /\ Cardinality(issued) < MaxIssuedPlans
  /\ expired # {}
  /\ prepared' = prepared \ expired
  /\ expired' = {}
  /\ UNCHANGED <<process, memory, issued, call, lastAdvanced, closing,
                 poisoned, journal, owner>>

-----------------------------------------------------------------------------
(* Commit                                                                  *)

\* Seeded defect: a finished operation no longer owns its key.
KeyIsUnused(key) ==
  \A o \in DOMAIN operations :
    operations[o].phase # "terminal" => operations[o].commit.key # key

\* A known key replays its operation (or conflicts) and changes nothing.
KeyIsFree(key) ==
  \A o \in DOMAIN operations : operations[o].commit.key # key

NoConflict(resources) ==
  \A o \in DOMAIN operations :
    Blocks(o) => ~Overlap(resources, ResourcesOf(operations[o]))

\* The checks a commit passes before the second look at its deadline; the
\* owner may still refuse the lease or the revalidation.
Admissible(c) ==
  /\ KeyIsFree(c.key)
  /\ RequireOpen
  /\ c.epoch = epoch
  /\ c.plan \in prepared \ expired
  /\ Cardinality(DOMAIN operations) < MaxOperations
  /\ NoConflict(PlanResources[c.plan])

Admitted(c) ==
  [commit |-> c, phase |-> "admitted", outcome |-> "none",
   requested |-> FALSE, cancellable |-> TRUE, safe |-> FALSE,
   session |-> FALSE]

\* Admission consumes the preparation and moves its custody into a worker
\* before the append.
Commit(o, c) ==
  /\ Idle /\ Admissible(c)
  /\ o \notin DOMAIN operations
  /\ prepared' = prepared \ {c.plan}
  /\ workers' = workers \cup {o}
  /\ Persist(o, Admitted(c))
  /\ UNCHANGED <<process, settled, unpublished, expired, issued, call,
                 lastAdvanced, closing, durableSettled, owner>>

\* Seeded defect: the uncertain admission keeps its worker and is forgotten.
CommitForgotten(o, c) ==
  /\ Idle /\ Admissible(c)
  /\ o \notin DOMAIN operations
  /\ prepared' = prepared \ {c.plan}
  /\ workers' = workers \cup {o}
  /\ durable' \in {durable, Put(durable, o, Admitted(c))}
  /\ poisoned' = TRUE
  /\ UNCHANGED <<process, operations, settled, unpublished, expired, issued,
                 call, lastAdvanced, closing, durableSettled, owner>>

\* The append failed: the uncertain admission and its exclusion are retained.
CommitUncertain(o, c) ==
  /\ Idle /\ Admissible(c)
  /\ o \notin DOMAIN operations
  /\ prepared' = prepared \ {c.plan}
  /\ workers' = workers \cup {o}
  /\ operations' = Put(operations, o, Admitted(c))
  /\ durable' \in {durable, Put(durable, o, Admitted(c))}
  /\ poisoned' = TRUE
  /\ UNCHANGED <<process, settled, unpublished, expired, issued, call,
                 lastAdvanced, closing, durableSettled, owner>>

\* The deadline is found passed, before the checks or under the lease.
CommitExpired(c) ==
  /\ Idle /\ RequireOpen /\ KeyIsFree(c.key) /\ c.epoch = epoch
  /\ c.plan \in expired \/ Admissible(c)
  /\ prepared' = prepared \ {c.plan}
  /\ expired' = expired \ {c.plan}
  /\ UNCHANGED <<process, memory, issued, call, lastAdvanced, closing,
                 poisoned, journal, owner>>

-----------------------------------------------------------------------------
(* The pump: one step of one ready operation per host tick                 *)

InFlight(o) == operations[o].phase \in {"admitted", "executing"}
\* Seeded defect: settlement does not wait for the outcome.
SettlementOpen(o) == ~InFlight(o) /\ SettlementPending(o)
SettlementDue(o) == operations[o].phase = "terminal" /\ SettlementPending(o)
Ready == {o \in DOMAIN operations : InFlight(o) \/ SettlementDue(o)}

\* Seeded defect: no round robin.
IsFirstReady(o) == o \in Ready /\ \A r \in Ready : o <= r
\* The first ready identity after the last one advanced, else the first.
IsNextReady(o) ==
  /\ o \in Ready
  /\ IF \E r \in Ready : r > lastAdvanced
     THEN o > lastAdvanced /\ \A r \in Ready : r > lastAdvanced => o <= r
     ELSE \A r \in Ready : o <= r

\* Seeded defect: a poisoned engine still advances.
PumpAlways(o) == Idle /\ IsNextReady(o)
PumpMay(o) == Idle /\ ~poisoned /\ IsNextReady(o)

\* Executing is durable before the port is called for the first time.
Started(rec) ==
  IF rec.phase = "admitted"
  THEN [rec EXCEPT !.phase = "executing", !.cancellable = FALSE]
  ELSE rec

Advance(o) ==
  /\ PumpMay(o) /\ InFlight(o)
  /\ Persist(o, Started(operations[o]))
  /\ call' = [NoCall EXCEPT !.at = "port", !.op = o]
  /\ UNCHANGED <<process, settled, workers, unpublished, plans, lastAdvanced,
                 closing, durableSettled, owner>>

AdvanceUncertain(o) ==
  /\ PumpMay(o) /\ operations[o].phase = "admitted"
  /\ PersistUncertain(o, Started(operations[o]))
  /\ UNCHANGED <<process, settled, workers, unpublished, plans, call,
                 lastAdvanced, closing, durableSettled, owner>>

\* The owning application asks for recovery; custody is reacquired when this
\* host holds none.
Recover(o) ==
  /\ Idle /\ ~poisoned
  /\ o \in DOMAIN operations /\ operations[o].phase = "recovery"
  /\ workers' = workers \cup {o}
  /\ call' = [NoCall EXCEPT !.at = "port", !.op = o]
  /\ UNCHANGED <<process, operations, settled, unpublished, plans,
                 lastAdvanced, closing, poisoned, journal, owner>>

-----------------------------------------------------------------------------
(* The native owner answers (external: the contract of operations/ports.rs)*)

\* Every answer of the type; what a kind does not carry is not set.
PortSteps ==
  {step \in Steps :
     /\ step.kind # "none"
     /\ step.cancellable => step.kind = "progress"
     /\ step.safe => step.kind = "recovery"
     /\ step.session => step.kind = "complete"
     /\ step.outcome \in IF step.kind = "complete"
                         THEN {"changed", "unchanged"} ELSE {"none"}}

\* Where a call may leave the transaction and the session it spawned: a
\* finished transaction stays finished, and only its session may move on.
OwnerMoves(o, n, s) ==
  IF native[o] = "finished"
  THEN /\ n = "finished"
       /\ s \in IF sessionAt[o] = "host" THEN {"host", "owner"}
                                         ELSE {sessionAt[o]}
  ELSE /\ n \in {native[o], "begun", "boundary", "finished"}
       /\ \/ s = "none"
          \/ /\ n = "finished"
             /\ operations[o].commit.plan \in LaunchPlans

\* The owner's answer agrees with what it has done.
OwnerAnswers(o, step, n, s) ==
  \/ step.kind = "error"
  \/ /\ step.kind = "progress"
     /\ n = "begun" /\ operations[o].phase = "executing"
  \/ /\ step.kind = "complete"
     /\ n = "finished" /\ step.session = (s = "host")
     /\ s # "none" => step.outcome = "changed"
  \/ /\ step.kind = "recovery"
     /\ step.safe => /\ n # "begun"
                     /\ s = "host" => operations[o].session

\* Answers the type allows and the kernel rejects with InvalidPortResult.
RejectedStep(o, step) ==
  \/ step.kind = "progress" /\ operations[o].phase = "recovery"
  \/ /\ step.kind = "complete" /\ step.session
     /\ \/ operations[o].commit.plan \notin LaunchPlans
        \/ step.outcome # "changed"

PortReturns(o) ==
  /\ Serving /\ call.at = "port" /\ call.op = o
  /\ \E step \in PortSteps, n \in NativeStates, s \in Custodians :
       /\ OwnerMoves(o, n, s)
       /\ \/ OwnerAnswers(o, step, n, s)
          \/ PortFaults /\ RejectedStep(o, step)
       /\ native' = [native EXCEPT ![o] = n]
       /\ sessionAt' = [sessionAt EXCEPT ![o] = s]
       /\ call' = [call EXCEPT !.at = "finish", !.step = step]
       /\ unpublished' \in IF n = "finished"
                           THEN {unpublished, unpublished \cup {o}}
                           ELSE {unpublished}
  /\ UNCHANGED <<process, operations, settled, workers, plans, lastAdvanced,
                 closing, poisoned, journal, ownerSettled>>

-----------------------------------------------------------------------------
(* finish_step                                                             *)

\* Seeded defect: the completion does not take the session into custody.
CompletedOnly(rec, step) ==
  [rec EXCEPT !.phase = "terminal", !.outcome = step.outcome, !.safe = TRUE]
Completed(rec, step) ==
  [rec EXCEPT !.phase = "terminal", !.outcome = step.outcome, !.safe = TRUE,
              !.session = step.session]

\* Seeded defect: the port's word on its boundary is enough.
UnresolvedAtOwner(o, rec, safe, session) ==
  [rec EXCEPT !.phase = "recovery", !.safe = safe, !.session = session]
\* Recovery is never safe while a local publication is pending.
Unresolved(o, rec, safe, session) ==
  [rec EXCEPT !.phase = "recovery", !.safe = safe /\ o \notin unpublished,
              !.session = session]

\* The records a step may lead to.  A completion whose publication is refused
\* before it is committed falls back to recovery.
StepRecords(o, step) ==
  LET rec == operations[o] IN
  IF step.kind = "progress"
  THEN {[rec EXCEPT !.cancellable = step.cancellable]}
  ELSE IF step.kind = "complete"
  THEN {Completed(rec, step), Unresolved(o, rec, TRUE, step.session)}
  ELSE {Unresolved(o, rec, step.safe, rec.session)}

\* Seeded defect: the worker goes with the session and the settlement.
WorkersAfterSettlement(o, rec) ==
  IF ~(RequiresSettlement(rec) /\ o \notin settled) /\ ~rec.session
  THEN workers \ {o}
  ELSE workers
\* Custody and lease are dropped with the last obligation of the operation.
WorkersAfter(o, rec) ==
  IF /\ ~(RequiresSettlement(rec) /\ o \notin settled)
     /\ ~rec.session
     /\ rec.phase = "terminal" \/ (rec.phase = "recovery" /\ rec.safe)
  THEN workers \ {o}
  ELSE workers

FinishStep(o) ==
  /\ Serving /\ call.at = "finish" /\ call.op = o
  /\ ~RejectedStep(o, call.step)
  /\ \E rec \in StepRecords(o, call.step) :
       /\ Persist(o, rec)
       /\ workers' = WorkersAfter(o, rec)
       /\ unpublished' = IF rec.phase = "terminal"
                         THEN unpublished \ {o}
                         ELSE unpublished \cap workers'
  /\ lastAdvanced' = IF operations[o].phase = "executing" THEN o
                                                          ELSE lastAdvanced
  /\ call' = NoCall
  /\ UNCHANGED <<process, settled, plans, closing, durableSettled, owner>>

FinishUncertain(o) ==
  /\ Serving /\ call.at = "finish" /\ call.op = o
  /\ ~RejectedStep(o, call.step)
  /\ \E rec \in StepRecords(o, call.step) : PersistUncertain(o, rec)
  /\ call' = NoCall
  /\ UNCHANGED <<process, settled, workers, unpublished, plans, lastAdvanced,
                 closing, durableSettled, owner>>

\* InvalidPortResult, or a progress event over the observation budget: the
\* call fails before any append and leaves the record as it was.
FinishRefused(o) ==
  /\ Serving /\ call.at = "finish" /\ call.op = o
  /\ \/ RejectedStep(o, call.step)
     \/ PortFaults /\ call.step.kind = "progress"
  /\ call' = NoCall
  /\ UNCHANGED <<process, memory, plans, lastAdvanced, closing, poisoned,
                 journal, owner>>

-----------------------------------------------------------------------------
(* Terminal settlement                                                     *)

\* Reacquisition refused, or the owner answers Pending or an error.
SettlementRetained(o) ==
  /\ PumpMay(o) /\ SettlementDue(o)
  /\ workers' \in {workers, workers \cup {o}}
  /\ lastAdvanced' = o
  /\ UNCHANGED <<process, operations, settled, unpublished, plans, call,
                 closing, poisoned, journal, owner>>

OwnerSettles(o) ==
  /\ PumpMay(o) /\ SettlementDue(o)
  /\ workers' = workers \cup {o}
  /\ ownerSettled' = ownerSettled \cup {o}
  /\ call' = [NoCall EXCEPT !.at = "settle", !.op = o]
  /\ UNCHANGED <<process, operations, settled, unpublished, plans,
                 lastAdvanced, closing, poisoned, journal, native, sessionAt>>

AcknowledgeSettlement(o) ==
  /\ Serving /\ call.at = "settle" /\ call.op = o
  /\ durableSettled' = durableSettled \cup {o}
  /\ settled' = settled \cup {o}
  /\ workers' = IF operations[o].session THEN workers ELSE workers \ {o}
  /\ unpublished' = unpublished \cap workers'
  /\ lastAdvanced' = o
  /\ call' = NoCall
  /\ UNCHANGED <<process, operations, plans, closing, poisoned,
                 durable, owner>>

AcknowledgeUncertain(o) ==
  /\ Serving /\ call.at = "settle" /\ call.op = o
  /\ durableSettled' \in {durableSettled, durableSettled \cup {o}}
  /\ poisoned' = TRUE
  /\ call' = NoCall
  /\ UNCHANGED <<process, memory, plans, lastAdvanced, closing, durable,
                 owner>>

-----------------------------------------------------------------------------
(* Cancellation and session handoff                                        *)

CancelRecord(rec) ==
  IF rec.phase = "admitted"
  THEN [rec EXCEPT !.phase = "terminal", !.outcome = "cancelled",
                   !.safe = TRUE]
  ELSE [rec EXCEPT !.requested = TRUE]

\* Every other state only observes: requested, too late, terminal, recovery.
CancelChanges(o) ==
  /\ Idle /\ ~poisoned /\ o \in DOMAIN operations
  /\ \/ operations[o].phase = "admitted"
     \/ /\ operations[o].phase = "executing"
        /\ operations[o].cancellable /\ ~operations[o].requested

Cancel(o) ==
  /\ CancelChanges(o)
  /\ LET rec == CancelRecord(operations[o]) IN
       /\ Persist(o, rec)
       /\ workers' = WorkersAfter(o, rec)
       /\ unpublished' = unpublished \cap workers'
  /\ UNCHANGED <<process, settled, plans, call, lastAdvanced, closing,
                 durableSettled, owner>>

CancelUncertain(o) ==
  /\ CancelChanges(o)
  /\ PersistUncertain(o, CancelRecord(operations[o]))
  /\ UNCHANGED <<process, settled, workers, unpublished, plans, call,
                 lastAdvanced, closing, durableSettled, owner>>

HandoffMay(o) ==
  /\ Idle /\ ~poisoned
  /\ o \in DOMAIN operations /\ operations[o].session

\* The owner is not ready: custody reacquired for the call is retained.
HandoffRefused(o) ==
  /\ HandoffMay(o) /\ o \notin workers
  /\ workers' = workers \cup {o}
  /\ UNCHANGED <<process, operations, settled, unpublished, plans, call,
                 lastAdvanced, closing, poisoned, journal, owner>>

HandoffSession(o) ==
  /\ HandoffMay(o)
  /\ workers' = workers \cup {o}
  /\ sessionAt' = [sessionAt EXCEPT ![o] = "owner"]
  /\ call' = [NoCall EXCEPT !.at = "handoff", !.op = o]
  /\ UNCHANGED <<process, operations, settled, unpublished, plans,
                 lastAdvanced, closing, poisoned, journal, native,
                 ownerSettled>>

HandedOff(rec) == [rec EXCEPT !.session = FALSE]

RecordHandoff(o) ==
  /\ Serving /\ call.at = "handoff" /\ call.op = o
  /\ Persist(o, HandedOff(operations[o]))
  /\ workers' = WorkersAfter(o, HandedOff(operations[o]))
  /\ unpublished' = unpublished \cap workers'
  /\ call' = NoCall
  /\ UNCHANGED <<process, settled, plans, lastAdvanced, closing,
                 durableSettled, owner>>

RecordHandoffUncertain(o) ==
  /\ Serving /\ call.at = "handoff" /\ call.op = o
  /\ PersistUncertain(o, HandedOff(operations[o]))
  /\ call' = NoCall
  /\ UNCHANGED <<process, settled, workers, unpublished, plans, lastAdvanced,
                 closing, durableSettled, owner>>

-----------------------------------------------------------------------------
(* Closing                                                                 *)

\* Seeded defect: a safe recovery permits exit whatever the journal did.
DefersUnlessSafe(o) ==
  \/ operations[o].session
  \/ SettlementPending(o)
  \/ operations[o].phase \in {"admitted", "executing"}
  \/ operations[o].phase = "recovery" /\ ~operations[o].safe
\* Seeded defect: a session is not a close obligation.
DefersForWork(o) ==
  \/ SettlementPending(o)
  \/ operations[o].phase \in {"admitted", "executing"}
  \/ operations[o].phase = "recovery" /\ (~operations[o].safe \/ poisoned)

\* An operation that defers the host's exit.
Defers(o) ==
  \/ operations[o].session
  \/ SettlementPending(o)
  \/ operations[o].phase \in {"admitted", "executing"}
  \/ operations[o].phase = "recovery" /\ (~operations[o].safe \/ poisoned)

Disposition ==
  IF \E o \in DOMAIN operations : Defers(o) THEN "deferred"
  ELSE IF \E o \in DOMAIN operations : operations[o].phase = "recovery"
       THEN "recovery_required"
  ELSE IF poisoned THEN "unavailable"
  ELSE "ready"

RequestHostClose ==
  /\ Idle /\ ~closing
  /\ closing' = TRUE
  /\ UNCHANGED <<process, memory, plans, call, lastAdvanced, poisoned,
                 journal, owner>>

\* exit_when_safe: the host process ends and drops the engine.
Exit ==
  /\ Idle /\ closing
  /\ Disposition \in {"ready", "recovery_required"}
  /\ up' = FALSE
  /\ ResetMemory
  /\ UNCHANGED <<epoch, interrupted, journal, owner>>

\* The process dies: only the journal and the owner's state survive.
Crash ==
  /\ up
  /\ up' = FALSE /\ interrupted' = {}
  /\ ResetMemory
  /\ UNCHANGED <<epoch, journal, owner>>

-----------------------------------------------------------------------------

Init ==
  /\ up = FALSE /\ epoch = 0 /\ interrupted = {}
  /\ operations = EmptyMap /\ settled = {} /\ workers = {}
  /\ unpublished = {}
  /\ prepared = {} /\ expired = {} /\ issued = {}
  /\ call = NoCall /\ lastAdvanced = 0
  /\ closing = FALSE /\ poisoned = FALSE
  /\ durable = EmptyMap /\ durableSettled = {}
  /\ native = [o \in Operations |-> "idle"]
  /\ sessionAt = [o \in Operations |-> "none"]
  /\ ownerSettled = {}

\* Commits a client may send: any plan reference issued so far.
CommitInputs == [epoch : 1 .. epoch, plan : Plans, key : Keys]

PlanStep ==
  \/ \E p \in Plans : Expire(p) \/ Prepare(p)
  \/ PrepareRefused
  \/ \E c \in CommitInputs : CommitExpired(c)

AdmissionStep(o) ==
  \E c \in CommitInputs : Commit(o, c) \/ CommitUncertain(o, c)

PumpStep(o) ==
  \/ Advance(o) \/ AdvanceUncertain(o)
  \/ SettlementRetained(o) \/ OwnerSettles(o)

FinishCall(o) ==
  \/ FinishStep(o) \/ FinishUncertain(o) \/ FinishRefused(o)
  \/ AcknowledgeSettlement(o) \/ AcknowledgeUncertain(o)
  \/ RecordHandoff(o) \/ RecordHandoffUncertain(o)

RequestStep(o) ==
  \/ Recover(o)
  \/ Cancel(o) \/ CancelUncertain(o)
  \/ HandoffRefused(o) \/ HandoffSession(o)

HostStep ==
  \/ Open \/ RequestHostClose \/ Exit \/ Crash
  \/ \E o \in Operations : ResolveInterrupted(o) \/ ResolveFails(o)

Next ==
  \/ HostStep
  \/ PlanStep
  \/ \E o \in Operations :
       \/ AdmissionStep(o) \/ PumpStep(o) \/ PortReturns(o)
       \/ FinishCall(o) \/ RequestStep(o)

Spec == Init /\ [][Next]_vars

-----------------------------------------------------------------------------
(* Invariants                                                              *)

\* Every variable has its type; records name operations of this model.
TypeOK ==
  /\ up \in BOOLEAN /\ epoch \in Nat /\ interrupted \subseteq DOMAIN operations
  /\ DOMAIN operations \subseteq Operations
  /\ \A o \in DOMAIN operations : operations[o] \in Records
  /\ settled \subseteq Operations
  /\ prepared \subseteq Plans /\ expired \subseteq prepared
  /\ issued \subseteq Plans
  /\ workers \subseteq DOMAIN operations /\ unpublished \subseteq workers
  /\ call \in Calls
  /\ lastAdvanced \in Nat
  /\ closing \in BOOLEAN /\ poisoned \in BOOLEAN
  /\ DOMAIN durable \subseteq Operations
  /\ \A o \in DOMAIN durable : durable[o] \in Records
  /\ durableSettled \subseteq DOMAIN durable
  /\ native \in [Operations -> NativeStates]
  /\ sessionAt \in [Operations -> Custodians]
  /\ ownerSettled \subseteq Operations

\* No two workers of a host ever hold the same resource.  The kernel's own
\* overlap check is what ensures it: the model's owner never refuses a lease
\* because of another worker.
WorkerExclusion ==
  \A a, b \in workers :
    a # b => ~Overlap(ResourcesOf(operations[a]), ResourcesOf(operations[b]))

\* While a host serves, an operation whose native transaction is under way, or
\* whose session the host still holds, keeps its resources from every new
\* admission, however often hosts crashed or appends were left uncertain.
EffectsBlockAdmission ==
  Serving =>
    \A o \in Operations :
      native[o] = "begun" \/ sessionAt[o] = "host" =>
        o \in DOMAIN operations /\ Blocks(o)

\* Native work exists only for an operation the journal shows beyond
\* admission, and never for one the journal reports cancelled before commit.
EffectsFollowExecution ==
  \A o \in Operations :
    native[o] # "idle" =>
      /\ o \in DOMAIN durable
      /\ durable[o].phase # "admitted"
      /\ durable[o].outcome # "cancelled"

\* Across restarts and uncertain appends an idempotency key, and a plan
\* reference, is admitted by at most one operation.
OneOperationPerCommit ==
  \A records \in {operations, durable} :
    \A a, b \in DOMAIN records :
      a # b =>
        /\ records[a].commit.key # records[b].commit.key
        /\ \/ records[a].commit.epoch # records[b].commit.epoch
           \/ records[a].commit.plan # records[b].commit.plan

\* Outside a poisoned host the memory is exactly what a replay would yield,
\* and in a poisoned one it never forgets an exclusion the journal still shows.
MemoryCoversJournal ==
  up =>
    /\ ~poisoned => operations = durable /\ settled = durableSettled
    /\ \A o \in DOMAIN durable :
         \/ o \in DOMAIN operations /\ Blocks(o)
         \/ /\ durable[o].phase = "terminal" /\ ~durable[o].session
            /\ RequiresSettlement(durable[o]) => o \in durableSettled

\* A port is asked to act only on the state the journal holds, under a worker
\* of this host, and never once an outcome is durable.
PortCallsAreRecorded ==
  call.at \in {"port", "finish"} =>
    /\ ~poisoned
    /\ call.op \in workers \cap DOMAIN durable
    /\ durable[call.op] = operations[call.op]
    /\ durable[call.op].phase \in {"executing", "recovery"}

\* The owner's reservation is settled only behind a durable outcome, and the
\* journal acknowledges only what the owner settled.
SettlementFollowsOutcome ==
  /\ durableSettled \subseteq ownerSettled
  /\ \A o \in ownerSettled :
       o \in DOMAIN durable /\ durable[o].phase = "terminal"

\* Every in-flight operation of a serving host has its worker: nothing that
\* the pump may select is without custody and lease.
InFlightHasWorker ==
  Serving => \A o \in DOMAIN operations : InFlight(o) => o \in workers

\* A poisoned host defers its exit: the uncertain operation is always still
\* among the close obligations.
PoisonedHostDefersExit == Serving /\ poisoned => Disposition = "deferred"

-----------------------------------------------------------------------------
(* Action properties                                                       *)

\* validate_durable: the state a record's phase allows.
WellFormed(rec) ==
  /\ rec.session => rec.commit.plan \in LaunchPlans
  /\ CASE rec.phase = "admitted" ->
            ~rec.requested /\ rec.cancellable /\ ~rec.safe /\ ~rec.session
       [] rec.phase = "executing" -> ~rec.session /\ ~rec.safe
       [] rec.phase = "terminal" ->
            /\ rec.safe /\ rec.outcome # "none"
            /\ rec.session => rec.outcome = "changed"
       [] OTHER -> rec.outcome = "none"

\* validate_transition, between two successive records of one operation.
ValidTransition(previous, next) ==
  /\ previous.commit = next.commit
  /\ previous.phase = "terminal" =>
       /\ next.phase = "terminal" /\ next.outcome = previous.outcome
       /\ previous.session /\ ~next.session
  /\ previous.phase # "admitted" => next.phase # "admitted"

\* What Engine::open accepts behind the journal written so far.
AcceptableAppend ==
  /\ Cardinality(DOMAIN durable') <= MaxOperations
  /\ DOMAIN durable \subseteq DOMAIN durable'
  /\ \A o \in DOMAIN durable' :
       /\ WellFormed(durable'[o])
       /\ IF o \in DOMAIN durable
          THEN durable'[o] = durable[o]
               \/ ValidTransition(durable[o], durable'[o])
          ELSE durable'[o].phase = "admitted"
  /\ \A o \in durableSettled' \ durableSettled :
       /\ o \in DOMAIN durable /\ durable[o].phase = "terminal"
       /\ RequiresSettlement(durable[o])

\* Whatever a host appends, also with an uncertain append before a crash, the
\* next Engine::open accepts: no sequence of legal calls makes the journal
\* refuse itself as corrupt, and a recorded outcome is never replaced.
JournalReplays == [][AcceptableAppend]_journal

\* No native transaction is under way, every session has a custodian outside
\* the host and every reservation behind an outcome is settled.
NothingOpen ==
  /\ \A o \in Operations : native[o] # "begun" /\ sessionAt[o] # "host"
  /\ \A o \in DOMAIN durable :
       RequiresSettlement(durable[o]) /\ durable[o].phase = "terminal"
         => o \in durableSettled

\* A host process that leaves on its own leaves no native transaction under
\* way, no session without a custodian and no reservation unsettled.
ExitLeavesNothingOpen == [][Exit => NothingOpen]_vars

\* A worker's pending publication is kept, or its outcome is recorded.
PublicationKept ==
  \A o \in unpublished :
    o \in unpublished' \/ operations'[o].phase = "terminal"

\* While its host lives, a worker whose local completion is still to be
\* published is dropped only when the outcome is recorded with it.
PublicationNotDropped == [][up' => PublicationKept]_vars

\* docs/next/OPERATION_KERNEL.md, BR04-04: normal close is deferred while
\* admitted work has an unsafe outstanding obligation.
CloseWaitsForOwnerBoundary ==
  [][Exit => \A o \in Operations : native[o] # "begun"]_vars

-----------------------------------------------------------------------------
(* Liveness                                                                *)

\* Every host tick pumps once, after at most one request (host/transport.rs,
\* tick), so a pump that is possible again and again happens; a port call
\* returns, and the engine then finishes it.
Pump == \E o \in Operations : PumpStep(o)
Fairness ==
  /\ SF_vars(Pump)
  /\ WF_vars(\E o \in Operations : PortReturns(o))
  /\ WF_vars(\E o \in Operations : FinishCall(o))

FairSpec == Spec /\ Fairness

\* An admitted operation the host has yet to start.
AwaitsStart(o) ==
  /\ Serving /\ ~poisoned
  /\ o \in DOMAIN operations /\ operations[o].phase = "admitted"

\* An admitted operation is started, cancelled or overtaken by the host's
\* failure; no other operation's endless progress, refused settlement or
\* repeated recovery starves it.
AdmittedIsServed == \A o \in Operations : AwaitsStart(o) ~> ~AwaitsStart(o)
=============================================================================
