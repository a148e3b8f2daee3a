-------------------------- MODULE BridgeKernelExit ---------------------------
(***************************************************************************)
(* Theorems about BridgeKernel's exclusions and its exit: what native work *)
(* is under way keeps its resources, and a host that leaves on its own     *)
(* leaves nothing open.                                                    *)
(***************************************************************************)
EXTENDS BridgeKernelJournal

-----------------------------------------------------------------------------
(* The inductive invariant                                                 *)

\* An answer the kernel will accept says where its owner really is.
AnswerAgrees ==
  call.at = "finish" /\ ~RejectedStep(call.op, call.step) =>
    OwnerAnswers(call.op, call.step, native[call.op], sessionAt[call.op])

\* A transaction under way is behind a record without an outcome, and a
\* session the host holds behind such a record or one that names it.
EffectsRecorded ==
  \A o \in Operations :
    /\ sessionAt[o] # "none" => native[o] = "finished"
    /\ native[o] = "begun" => durable[o].phase # "terminal"
    /\ sessionAt[o] = "host" =>
         durable[o].phase # "terminal" \/ durable[o].session
    /\ o \in DOMAIN durable /\ durable[o].session => native[o] = "finished"

HandoffIsDone == call.at = "handoff" => sessionAt[call.op] = "owner"

\* The operation of an uncertain append is among the close obligations.
UncertainIsOpen == poisoned => \E o \in DOMAIN operations : Defers(o)

EffectInv ==
  AnswerAgrees /\ EffectsRecorded /\ HandoffIsDone /\ UncertainIsOpen

\* The port is at work on an operation, or its answer is still unrecorded.
Called(o) == call.at \in {"port", "finish"} /\ call.op = o

\* What a record of a safe recovery promises once its call is over.
AtBoundary(o) ==
  /\ native[o] # "begun"
  /\ sessionAt[o] = "host" => operations[o].session
  /\ o \notin unpublished

\* A safe recovery of a healthy host is what it says.
SafeIsAtBoundary ==
  up /\ ~poisoned =>
    \A o \in DOMAIN operations \ interrupted :
      operations[o].phase = "recovery" /\ operations[o].safe /\ ~Called(o) =>
        AtBoundary(o)

\* Only launches have sessions.
SessionsOfLaunches ==
  \A o \in Operations :
    sessionAt[o] # "none" => durable[o].commit.plan \in LaunchPlans

NoAnswerRejected ==
  call.at = "finish" => ~RejectedStep(call.op, call.step)

\* A port that keeps its contract never has an answer rejected.
ExitInv ==
  ~PortFaults => SafeIsAtBoundary /\ SessionsOfLaunches /\ NoAnswerRejected

-----------------------------------------------------------------------------
(* Effects and their records                                               *)

\* What a port call in progress leaves alone: it ends by a crash or by its
\* own handler, and nothing else runs in between.
LEMMA CallStays ==
  ASSUME IInv, [Next]_vars, call'.at \in {"finish", "handoff"},
         \A o \in Operations : ~PortReturns(o) /\ ~HandoffSession(o)
  PROVE  UNCHANGED <<operations, native, sessionAt, call>>
<1>1. CASE HostStep
  BY <1>1, NoCallIs
     DEF HostStep, Open, RequestHostClose, Exit, Crash, ResolveInterrupted,
         ResolveFails, ResetMemory, IInv, ResolvingHost, DownIsEmpty, Idle,
         memory, owner
<1>2. CASE PlanStep
  BY <1>2 DEF PlanStep, Expire, Prepare, PrepareRefused, CommitExpired,
              memory, owner
<1>3. ASSUME NEW o \in Operations,
             AdmissionStep(o) \/ PumpStep(o) \/ RequestStep(o)
      PROVE  UNCHANGED <<operations, native, sessionAt, call>>
  BY <1>3
     DEF AdmissionStep, Commit, CommitUncertain, PumpStep, Advance,
         AdvanceUncertain, SettlementRetained, OwnerSettles, PumpMay,
         RequestStep, Recover, Cancel, CancelUncertain, CancelChanges,
         HandoffRefused, HandoffMay, Idle, NoCall, owner
<1>4. ASSUME NEW o \in Operations, FinishCall(o)
      PROVE  UNCHANGED <<operations, native, sessionAt, call>>
  BY <1>4, NoCallIs
     DEF FinishCall, FinishStep, FinishUncertain, FinishRefused,
         AcknowledgeSettlement, AcknowledgeUncertain, RecordHandoff,
         RecordHandoffUncertain
<1>5. CASE UNCHANGED vars
  BY <1>5 DEF vars, memory, owner
<1> QED
  BY <1>1, <1>2, <1>3, <1>4, <1>5 DEF Next

\* The answer agrees with the owner when it is given, and both stay.
LEMMA AnswerAgreesKept ==
  ASSUME IInv, AnswerAgrees, [Next]_vars
  PROVE  AnswerAgrees'
<1>1. ASSUME NEW o \in Operations, PortReturns(o) PROVE AnswerAgrees'
  <2>1. PICK step \in PortSteps, n \in NativeStates, s \in Custodians :
          /\ \/ OwnerAnswers(o, step, n, s)
             \/ PortFaults /\ RejectedStep(o, step)
          /\ native' = [native EXCEPT ![o] = n]
          /\ sessionAt' = [sessionAt EXCEPT ![o] = s]
          /\ call' = [call EXCEPT !.at = "finish", !.step = step]
    BY <1>1 DEF PortReturns
  <2>2. /\ call'.op = o /\ call'.step = step
        /\ native'[o] = n /\ sessionAt'[o] = s
        /\ operations' = operations
    BY <1>1, <2>1 DEF PortReturns, IInv, TypeOK, Calls
  <2> QED
    BY <2>1, <2>2 DEF AnswerAgrees, OwnerAnswers, RejectedStep
<1>2. ASSUME NEW o \in Operations, HandoffSession(o) PROVE AnswerAgrees'
  BY <1>2 DEF HandoffSession, NoCall, AnswerAgrees
<1>3. ASSUME \A o \in Operations : ~PortReturns(o) /\ ~HandoffSession(o),
             call'.at = "finish"
      PROVE  AnswerAgrees'
  BY <1>3, CallStays DEF AnswerAgrees, OwnerAnswers, RejectedStep
<1> QED
  BY <1>1, <1>2, <1>3 DEF AnswerAgrees

\* The session is the owner's until its handoff is recorded.
LEMMA HandoffIsDoneKept ==
  ASSUME IInv, HandoffIsDone, [Next]_vars
  PROVE  HandoffIsDone'
<1>1. ASSUME NEW o \in Operations, PortReturns(o) PROVE HandoffIsDone'
  BY <1>1 DEF PortReturns, HandoffIsDone, IInv, TypeOK, Calls
<1>2. ASSUME NEW o \in Operations, HandoffSession(o) PROVE HandoffIsDone'
  BY <1>2 DEF HandoffSession, NoCall, HandoffIsDone, IInv, TypeOK
<1>3. ASSUME \A o \in Operations : ~PortReturns(o) /\ ~HandoffSession(o),
             call'.at = "handoff"
      PROVE  HandoffIsDone'
  BY <1>3, CallStays DEF HandoffIsDone
<1> QED
  BY <1>1, <1>2, <1>3 DEF HandoffIsDone

\* Native state moves with the port's answer and with a handoff only.
LEMMA OwnerMovesByCalls ==
  ASSUME [Next]_vars,
         \A o \in Operations : ~PortReturns(o) /\ ~HandoffSession(o)
  PROVE  UNCHANGED <<native, sessionAt>>
<1>1. CASE HostStep
  BY <1>1 DEF HostStep, Open, RequestHostClose, Exit, Crash,
              ResolveInterrupted, ResolveFails, owner
<1>2. CASE PlanStep
  BY <1>2 DEF PlanStep, Expire, Prepare, PrepareRefused, CommitExpired, owner
<1>3. ASSUME NEW o \in Operations,
             AdmissionStep(o) \/ PumpStep(o) \/ RequestStep(o)
      PROVE  UNCHANGED <<native, sessionAt>>
  BY <1>3
     DEF AdmissionStep, Commit, CommitUncertain, PumpStep, Advance,
         AdvanceUncertain, SettlementRetained, OwnerSettles, RequestStep,
         Recover, Cancel, CancelUncertain, HandoffRefused, owner
<1>4. ASSUME NEW o \in Operations, FinishCall(o)
      PROVE  UNCHANGED <<native, sessionAt>>
  BY <1>4
     DEF FinishCall, FinishStep, FinishUncertain, FinishRefused,
         AcknowledgeSettlement, AcknowledgeUncertain, RecordHandoff,
         RecordHandoffUncertain, owner
<1>5. CASE UNCHANGED vars
  BY <1>5 DEF vars, owner
<1> QED
  BY <1>1, <1>2, <1>3, <1>4, <1>5 DEF Next

\* What a port call does to its own transaction, behind which record.
LEMMA PortMoves ==
  ASSUME IInv, NEW o \in Operations, PortReturns(o)
  PROVE  /\ UNCHANGED <<durable, operations>>
         /\ o \in DOMAIN durable /\ operations = durable
         /\ durable[o].phase \in {"executing", "recovery"}
         /\ OwnerMoves(o, native'[o], sessionAt'[o])
         /\ \A x \in Operations : x # o => /\ native'[x] = native[x]
                                           /\ sessionAt'[x] = sessionAt[x]
<1>1. PICK step \in PortSteps, n \in NativeStates, s \in Custodians :
        /\ OwnerMoves(o, n, s)
        /\ native' = [native EXCEPT ![o] = n]
        /\ sessionAt' = [sessionAt EXCEPT ![o] = s]
  BY DEF PortReturns
<1>2. /\ native'[o] = n /\ sessionAt'[o] = s
      /\ \A x \in Operations : x # o => /\ native'[x] = native[x]
                                        /\ sessionAt'[x] = sessionAt[x]
  BY <1>1 DEF IInv, TypeOK
<1>3. /\ up /\ ~poisoned /\ o \in DOMAIN operations
      /\ operations[o].phase \in {"executing", "recovery"}
      /\ UNCHANGED <<durable, operations>>
  BY DEF PortReturns, IInv, TypeOK, CallInProgress, journal
<1> QED
  BY <1>1, <1>2, <1>3 DEF IInv, HealthyMemory

\* A handoff makes the owner the custodian of a session behind a terminal or
\* recovery record.
LEMMA HandoffMoves ==
  ASSUME IInv, NEW o \in Operations, HandoffSession(o)
  PROVE  /\ UNCHANGED <<durable, operations, native, unpublished>>
         /\ o \in DOMAIN durable /\ operations = durable
         /\ durable[o].session /\ sessionAt'[o] = "owner"
         /\ \A x \in Operations : x # o => sessionAt'[x] = sessionAt[x]
<1>1. /\ up /\ ~poisoned /\ o \in DOMAIN operations /\ operations[o].session
      /\ sessionAt' = [sessionAt EXCEPT ![o] = "owner"]
      /\ UNCHANGED <<durable, operations, native, unpublished>>
  BY DEF HandoffSession, HandoffMay, Idle, Serving, journal
<1>2. /\ sessionAt'[o] = "owner"
      /\ \A x \in Operations : x # o => sessionAt'[x] = sessionAt[x]
  BY <1>1 DEF IInv, TypeOK
<1> QED
  BY <1>1, <1>2 DEF IInv, HealthyMemory

\* A rewrite to an outcome follows the owner: it is behind a finished
\* transaction, or one that never began, and takes its session along.
LEMMA RewritesFollowOwner ==
  ASSUME IInv, WrittenInv, EffectInv,
         NEW o \in DOMAIN durable, NEW rec \in Records, Rewritten(o, rec)
  PROVE  /\ native[o] = "begun" => rec.phase # "terminal"
         /\ sessionAt[o] = "host" => rec.phase # "terminal" \/ rec.session
         /\ rec.session => native[o] = "finished"
<1> DEFINE old == durable[o]
<1>1. /\ o \in Operations /\ old \in Records /\ Sound(old)
      /\ sessionAt[o] # "none" => native[o] = "finished"
      /\ native[o] # "idle" => old.phase # "admitted"
      /\ native[o] = "begun" => old.phase # "terminal"
      /\ sessionAt[o] = "host" => old.phase # "terminal" \/ old.session
      /\ old.session => native[o] = "finished"
  BY DEF IInv, TypeOK, WrittenInv, SoundJournal, EffectInv, EffectsRecorded,
         EffectsFollowExecution
<1>2. CASE old.phase # "terminal" /\ rec = Resolved(old)
  BY <1>1, <1>2 DEF Resolved, Records
<1>3. CASE /\ old.phase \in {"admitted", "executing"}
           /\ rec \in {Started(old), CancelRecord(old)}
  BY <1>1, <1>3 DEF Started, CancelRecord, Records
<1>4. CASE call.at = "handoff" /\ call.op = o /\ rec = HandedOff(old)
  <2>1. sessionAt[o] = "owner"
    BY <1>4 DEF EffectInv, HandoffIsDone
  <2> QED BY <1>1, <1>4, <2>1 DEF HandedOff, Records
<1>5. CASE /\ call.at = "finish" /\ call.op = o
           /\ operations = durable
           /\ old.phase \in {"executing", "recovery"}
           /\ ~RejectedStep(o, call.step)
           /\ rec \in StepRecords(o, call.step)
  <2>1. /\ OwnerAnswers(o, call.step, native[o], sessionAt[o])
        /\ call.step \in PortSteps
    BY <1>5 DEF EffectInv, AnswerAgrees, WrittenInv, AnswerHeld
  <2>2. CASE call.step.kind = "progress"
    <3>1. rec = [old EXCEPT !.cancellable = call.step.cancellable]
      BY <1>5, <2>2 DEF StepRecords
    <3> QED BY <1>1, <1>5, <3>1 DEF Records
  <2>3. CASE call.step.kind = "complete"
    <3>1. /\ native[o] = "finished"
          /\ call.step.session = (sessionAt[o] = "host")
      BY <2>1, <2>3 DEF OwnerAnswers
    <3>2. \/ rec = Completed(old, call.step)
          \/ rec = Unresolved(o, old, TRUE, call.step.session)
      BY <1>5, <2>3 DEF StepRecords
    <3> QED BY <1>1, <3>1, <3>2 DEF Completed, Unresolved, Records
  <2>4. CASE call.step.kind \notin {"progress", "complete"}
    <3>1. rec = Unresolved(o, old, call.step.safe, old.session)
      BY <1>5, <2>4 DEF StepRecords
    <3> QED BY <1>1, <3>1 DEF Unresolved, Records
  <2> QED BY <2>2, <2>3, <2>4
<1> QED
  BY <1>2, <1>3, <1>4, <1>5 DEF Rewritten

\* Effects stay behind their records.
LEMMA EffectsRecordedKept ==
  ASSUME IInv, WrittenInv, EffectInv, [Next]_vars
  PROVE  EffectsRecorded'
<1>1. EffectsRecorded
  BY DEF EffectInv
<1>2. ASSUME NEW o \in Operations, PortReturns(o) PROVE EffectsRecorded'
  <2>1. sessionAt'[o] # "none" => native'[o] = "finished"
    BY <1>1, <1>2, PortMoves DEF OwnerMoves, EffectsRecorded
  <2>2. native[o] = "finished" => native'[o] = "finished"
    BY <1>2, PortMoves DEF OwnerMoves
  <2> QED BY <1>1, <1>2, <2>1, <2>2, PortMoves DEF EffectsRecorded
<1>3. ASSUME NEW o \in Operations, HandoffSession(o) PROVE EffectsRecorded'
  BY <1>1, <1>3, HandoffMoves DEF EffectsRecorded
<1>4. ASSUME \A o \in Operations : ~PortReturns(o) /\ ~HandoffSession(o)
      PROVE  EffectsRecorded'
  <2>1. UNCHANGED <<native, sessionAt>>
    BY <1>4, OwnerMovesByCalls
  <2>2. CASE UNCHANGED durable
    BY <1>1, <2>1, <2>2 DEF EffectsRecorded
  <2>3. ASSUME NEW o \in Operations, NEW c \in CommitInputs, Admits(o, c)
        PROVE  EffectsRecorded'
    <3>1. /\ DOMAIN durable' = DOMAIN durable \cup {o}
          /\ durable'[o] = Admitted(c)
          /\ \A x \in DOMAIN durable : durable'[x] = durable[x]
      BY <2>3, AdmitsIs
    <3>2. durable'[o].phase = "admitted" /\ ~durable'[o].session
      BY <3>1 DEF Admitted
    <3>3. \A x \in Operations : native[x] # "idle" => x \in DOMAIN durable
      BY DEF WrittenInv, EffectsFollowExecution
    <3> QED BY <1>1, <2>1, <3>1, <3>2, <3>3 DEF EffectsRecorded
  <2>4. ASSUME NEW o \in DOMAIN durable, NEW rec \in Records, Rewrites(o, rec)
        PROVE  EffectsRecorded'
    <3>1. /\ DOMAIN durable' = DOMAIN durable
          /\ durable'[o] = rec
          /\ \A x \in DOMAIN durable : x # o => durable'[x] = durable[x]
      BY <2>4, RewritesIs
    <3>2. /\ native[o] = "begun" => rec.phase # "terminal"
          /\ sessionAt[o] = "host" => rec.phase # "terminal" \/ rec.session
          /\ rec.session => native[o] = "finished"
      BY <2>4, RewritesFollowOwner DEF Rewrites
    <3>3. \A x \in Operations : native[x] # "idle" => x \in DOMAIN durable
      BY DEF WrittenInv, EffectsFollowExecution
    <3> QED BY <1>1, <2>1, <3>1, <3>2, <3>3 DEF EffectsRecorded
  <2> QED BY <2>2, <2>3, <2>4, JournalStep DEF journal, Acknowledges
<1> QED
  BY <1>2, <1>3, <1>4

-----------------------------------------------------------------------------
(* The operation of an uncertain append                                    *)

\* A poisoned host changes no record until its process ends.
LEMMA PoisonedStays ==
  ASSUME IInv, poisoned, [Next]_vars, poisoned'
  PROVE  UNCHANGED <<operations, settled>>
<1>1. /\ up /\ interrupted = {} /\ call.at = "idle"
  BY DEF IInv, DownIsEmpty, ResolvingHost, CallInProgress
<1>2. CASE HostStep
  BY <1>1, <1>2
     DEF HostStep, Open, RequestHostClose, Exit, Crash, ResetMemory,
         ResolveInterrupted, ResolveFails, memory
<1>3. CASE PlanStep
  BY <1>3 DEF PlanStep, Expire, Prepare, PrepareRefused, CommitExpired, memory
<1>4. ASSUME NEW o \in Operations,
             AdmissionStep(o) \/ PumpStep(o) \/ RequestStep(o)
      PROVE  UNCHANGED <<operations, settled>>
  BY <1>4
     DEF AdmissionStep, Commit, CommitUncertain, Admissible, RequireOpen,
         PumpStep, Advance, AdvanceUncertain, SettlementRetained,
         OwnerSettles, PumpMay, RequestStep, Recover, Cancel,
         CancelUncertain, CancelChanges, HandoffRefused, HandoffSession,
         HandoffMay
<1>5. ASSUME NEW o \in Operations, PortReturns(o) \/ FinishCall(o)
      PROVE  UNCHANGED <<operations, settled>>
  BY <1>1, <1>5
     DEF PortReturns, FinishCall, FinishStep, FinishUncertain, FinishRefused,
         AcknowledgeSettlement, AcknowledgeUncertain, RecordHandoff,
         RecordHandoffUncertain
<1>6. CASE UNCHANGED vars
  BY <1>6 DEF vars, memory
<1> QED
  BY <1>2, <1>3, <1>4, <1>5, <1>6 DEF Next

\* The append that fails is one of an operation that defers the exit.
LEMMA PoisonIsOpen ==
  ASSUME IInv, ~poisoned, [Next]_vars, poisoned'
  PROVE  \E o \in DOMAIN operations' : Defers(o)'
<1> USE DEF IInv, TypeOK
<1>1. ~HostStep /\ ~PlanStep /\ ~UNCHANGED vars
  BY DEF HostStep, Open, RequestHostClose, Exit, Crash, ResetMemory,
         ResolveInterrupted, ResolveFails, Persist, PlanStep, Expire,
         Prepare, PrepareRefused, CommitExpired, vars
<1>2. ASSUME NEW o \in Operations, AdmissionStep(o)
      PROVE  o \in DOMAIN operations' /\ Defers(o)'
  <2>1. PICK c \in CommitInputs : CommitUncertain(o, c)
    BY <1>2 DEF AdmissionStep, Commit, Persist
  <2>2. operations' = Put(operations, o, Admitted(c))
    BY <2>1 DEF CommitUncertain
  <2>3. o \in DOMAIN operations' /\ operations'[o].phase = "admitted"
    BY <2>2 DEF Put, Admitted
  <2> QED BY <2>3 DEF Defers
<1>3. ASSUME NEW o \in Operations, PumpStep(o)
      PROVE  o \in DOMAIN operations' /\ Defers(o)'
  <2>1. AdvanceUncertain(o)
    BY <1>3 DEF PumpStep, Advance, SettlementRetained, OwnerSettles, Persist
  <2>2. /\ o \in DOMAIN operations /\ operations[o].phase = "admitted"
        /\ operations' = operations
    BY <2>1 DEF AdvanceUncertain, PumpMay, IsNextReady, Ready,
                PersistUncertain
  <2> QED BY <2>2 DEF Defers
<1>4. ASSUME NEW o \in Operations, PortReturns(o) \/ FinishCall(o)
      PROVE  o \in DOMAIN operations' /\ Defers(o)'
  <2>1. /\ call.op = o /\ o \in DOMAIN operations
        /\ operations' = operations /\ settled' = settled
        /\ \/ FinishUncertain(o) \/ AcknowledgeUncertain(o)
           \/ RecordHandoffUncertain(o)
    BY <1>4
       DEF PortReturns, FinishCall, FinishStep, FinishUncertain,
           FinishRefused, AcknowledgeSettlement, AcknowledgeUncertain,
           RecordHandoff, RecordHandoffUncertain, Persist, PersistUncertain,
           CallInProgress, memory
  <2>2. CASE FinishUncertain(o)
    <3>1. operations[o].phase \in {"executing", "recovery"}
      BY <2>1, <2>2 DEF FinishUncertain, CallInProgress
    <3> QED BY <2>1, <3>1 DEF Defers
  <2>3. CASE AcknowledgeUncertain(o)
    <3>1. SettlementPending(o)
      BY <2>1, <2>3 DEF AcknowledgeUncertain, CallInProgress
    <3> QED BY <2>1, <3>1 DEF Defers, SettlementPending, RequiresSettlement
  <2>4. CASE RecordHandoffUncertain(o)
    <3>1. operations[o].session
      BY <2>1, <2>4 DEF RecordHandoffUncertain, CallInProgress
    <3> QED BY <2>1, <3>1 DEF Defers
  <2> QED BY <2>1, <2>2, <2>3, <2>4
<1>5. ASSUME NEW o \in Operations, RequestStep(o)
      PROVE  o \in DOMAIN operations' /\ Defers(o)'
  <2>1. CancelUncertain(o)
    BY <1>5 DEF RequestStep, Recover, Cancel, HandoffRefused, HandoffSession,
                Persist
  <2>2. /\ o \in DOMAIN operations
        /\ operations[o].phase \in {"admitted", "executing"}
        /\ operations' = operations
    BY <2>1 DEF CancelUncertain, CancelChanges, PersistUncertain
  <2> QED BY <2>2 DEF Defers
<1> QED
  BY <1>1, <1>2, <1>3, <1>4, <1>5 DEF Next

\* Its operation stays open as long as the host is poisoned.
LEMMA UncertainIsOpenKept ==
  ASSUME IInv, UncertainIsOpen, [Next]_vars
  PROVE  UncertainIsOpen'
<1>1. CASE ~poisoned /\ poisoned'
  BY <1>1, PoisonIsOpen DEF UncertainIsOpen
<1>2. CASE poisoned /\ poisoned'
  <2>1. UNCHANGED <<operations, settled>>
    BY <1>2, PoisonedStays
  <2>2. \A o : Defers(o) <=> Defers(o)'
    BY <1>2, <2>1 DEF Defers, SettlementPending, RequiresSettlement
  <2> QED BY <1>2, <2>1, <2>2 DEF UncertainIsOpen
<1>3. CASE ~poisoned'
  BY <1>3 DEF UncertainIsOpen
<1> QED BY <1>1, <1>2, <1>3

-----------------------------------------------------------------------------
(* Exclusion, and the exit of a poisoned host                              *)

\* The owner's effects and the records of the engine agree throughout every
\* behavior, also with ports that break their contract (finish_step rejects
\* what they then answer).
THEOREM EffectInvariant == Spec => []EffectInv
<1>1. Init => EffectInv
  BY NoCallIs
     DEF Init, EffectInv, AnswerAgrees, EffectsRecorded, HandoffIsDone,
         UncertainIsOpen, EmptyMap
<1>2. IInv /\ WrittenInv /\ EffectInv /\ [Next]_vars => EffectInv'
  <2> SUFFICES ASSUME IInv, WrittenInv, EffectInv, [Next]_vars
               PROVE  EffectInv'
    OBVIOUS
  <2> QED
    BY AnswerAgreesKept, EffectsRecordedKept, HandoffIsDoneKept,
       UncertainIsOpenKept DEF EffectInv
<1> QED
  BY <1>1, <1>2, KernelInvariant, WrittenInvariant, PTL DEF Spec

\* commit's conflict scan sees every operation whose native transaction is
\* under way or whose session the host holds, after any crash and any
\* uncertain append.
THEOREM EffectsAreExclusive == Spec => []EffectsBlockAdmission
<1>1. IInv /\ WrittenInv /\ EffectInv => EffectsBlockAdmission
  <2> SUFFICES ASSUME IInv, WrittenInv, EffectInv, Serving,
                      NEW o \in Operations,
                      native[o] = "begun" \/ sessionAt[o] = "host"
               PROVE  o \in DOMAIN operations /\ Blocks(o)
    BY DEF EffectsBlockAdmission
  <2>1. o \in DOMAIN durable
    BY DEF WrittenInv, EffectsFollowExecution, EffectInv, EffectsRecorded
  <2>2. DurablyBlocks(o)
    BY DEF EffectInv, EffectsRecorded, DurablyBlocks
  <2> QED BY <2>1, <2>2 DEF IInv, CoveringMemory, Serving
<1> QED
  BY <1>1, KernelInvariant, WrittenInvariant, EffectInvariant, PTL

\* host_close never lets a poisoned host go: the operation whose append is
\* uncertain is a close obligation whatever that append was.
THEOREM PoisonedHostStays == Spec => []PoisonedHostDefersExit
<1>1. EffectInv => PoisonedHostDefersExit
  BY DEF EffectInv, UncertainIsOpen, PoisonedHostDefersExit, Disposition
<1> QED
  BY <1>1, EffectInvariant, PTL

-----------------------------------------------------------------------------
(* Safe recoveries and the exit of a healthy host                          *)

\* A port that keeps its contract gives an answer the kernel accepts.
LEMMA AnswersAccepted ==
  ASSUME IInv, SessionsOfLaunches, ~PortFaults,
         NEW o \in Operations, PortReturns(o)
  PROVE  NoAnswerRejected'
<1>1. PICK step \in PortSteps, n \in NativeStates, s \in Custodians :
        /\ OwnerMoves(o, n, s)
        /\ OwnerAnswers(o, step, n, s)
        /\ call' = [call EXCEPT !.at = "finish", !.step = step]
  BY DEF PortReturns
<1>2. call'.op = o /\ call'.step = step /\ operations' = operations
  BY <1>1 DEF PortReturns, IInv, TypeOK, Calls
<1>3. s # "none" => operations[o].commit.plan \in LaunchPlans
  BY <1>1, PortMoves DEF OwnerMoves, SessionsOfLaunches
<1>4. ~RejectedStep(o, step)
  <2>1. CASE step.kind = "progress"
    BY <1>1, <2>1 DEF OwnerAnswers, RejectedStep
  <2>2. CASE step.kind = "complete"
    BY <1>1, <1>3, <2>2 DEF OwnerAnswers, RejectedStep
  <2> QED BY <2>1, <2>2 DEF RejectedStep
<1> QED
  BY <1>2, <1>4 DEF NoAnswerRejected, RejectedStep

LEMMA NoAnswerRejectedKept ==
  ASSUME IInv, SessionsOfLaunches, NoAnswerRejected, ~PortFaults, [Next]_vars
  PROVE  NoAnswerRejected'
<1>1. ASSUME NEW o \in Operations, PortReturns(o) PROVE NoAnswerRejected'
  BY <1>1, AnswersAccepted
<1>2. ASSUME NEW o \in Operations, HandoffSession(o) PROVE NoAnswerRejected'
  BY <1>2 DEF HandoffSession, NoCall, NoAnswerRejected
<1>3. ASSUME \A o \in Operations : ~PortReturns(o) /\ ~HandoffSession(o),
             call'.at = "finish"
      PROVE  NoAnswerRejected'
  BY <1>3, CallStays DEF NoAnswerRejected, RejectedStep
<1> QED
  BY <1>1, <1>2, <1>3 DEF NoAnswerRejected

\* A session is spawned by a launch, and its record keeps its commit.
LEMMA SessionsOfLaunchesKept ==
  ASSUME IInv, WrittenInv, EffectInv, SessionsOfLaunches, [Next]_vars
  PROVE  SessionsOfLaunches'
<1>1. \A o \in DOMAIN durable : durable[o] \in Records /\ Sound(durable[o])
  BY DEF IInv, TypeOK, WrittenInv, SoundJournal
<1>2. ASSUME NEW o \in Operations, PortReturns(o) PROVE SessionsOfLaunches'
  <2>1. sessionAt'[o] # "none" => durable[o].commit.plan \in LaunchPlans
    BY <1>2, PortMoves DEF OwnerMoves, SessionsOfLaunches
  <2> QED BY <1>2, <2>1, PortMoves DEF SessionsOfLaunches
<1>3. ASSUME NEW o \in Operations, HandoffSession(o)
      PROVE  SessionsOfLaunches'
  <2>1. durable[o].commit.plan \in LaunchPlans
    BY <1>1, <1>3, HandoffMoves DEF Sound, WellFormed
  <2> QED BY <1>3, <2>1, HandoffMoves DEF SessionsOfLaunches
<1>4. ASSUME \A o \in Operations : ~PortReturns(o) /\ ~HandoffSession(o)
      PROVE  SessionsOfLaunches'
  <2>1. UNCHANGED <<native, sessionAt>>
    BY <1>4, OwnerMovesByCalls
  <2>2. \A x \in Operations : sessionAt[x] # "none" => x \in DOMAIN durable
    BY DEF WrittenInv, EffectsFollowExecution, EffectInv, EffectsRecorded
  <2>3. CASE UNCHANGED durable
    BY <2>1, <2>3 DEF SessionsOfLaunches
  <2>4. ASSUME NEW o \in Operations, NEW c \in CommitInputs, Admits(o, c)
        PROVE  SessionsOfLaunches'
    BY <2>1, <2>2, <2>4, AdmitsIs DEF SessionsOfLaunches
  <2>5. ASSUME NEW o \in DOMAIN durable, NEW rec \in Records, Rewrites(o, rec)
        PROVE  SessionsOfLaunches'
    <3>1. /\ DOMAIN durable' = DOMAIN durable
          /\ durable'[o] = rec
          /\ \A x \in DOMAIN durable : x # o => durable'[x] = durable[x]
      BY <2>5, RewritesIs
    <3>2. rec.commit = durable[o].commit
      BY <1>1, <2>5, RewritesAreValid DEF Rewrites, WrittenInv
    <3> QED BY <2>1, <2>2, <3>1, <3>2 DEF SessionsOfLaunches
  <2> QED BY <2>3, <2>4, <2>5, JournalStep DEF journal, Acknowledges
<1> QED
  BY <1>2, <1>3, <1>4

\* A step that leaves every operation but one as it is.
OthersStay(o) ==
  \A x \in DOMAIN operations' \ interrupted' :
    x # o =>
      /\ x \in DOMAIN operations \ interrupted
      /\ operations'[x] = operations[x]
      /\ native'[x] = native[x] /\ sessionAt'[x] = sessionAt[x]
      /\ x \in unpublished' => x \in unpublished
      /\ Called(x) => Called(x)'

\* It has to be looked at for that one operation only.
LEMMA OneAtBoundary ==
  ASSUME SafeIsAtBoundary, up, ~poisoned, NEW o, OthersStay(o),
         /\ o \in DOMAIN operations' \ interrupted'
         /\ operations'[o].phase = "recovery"
         /\ operations'[o].safe
         /\ ~Called(o)'
         => AtBoundary(o)'
  PROVE  SafeIsAtBoundary'
<1> SUFFICES ASSUME NEW x \in DOMAIN operations' \ interrupted', x # o,
                    operations'[x].phase = "recovery", operations'[x].safe,
                    ~Called(x)'
             PROVE  AtBoundary(x)'
  BY DEF SafeIsAtBoundary
<1>1. /\ x \in DOMAIN operations \ interrupted
      /\ operations'[x] = operations[x]
      /\ native'[x] = native[x] /\ sessionAt'[x] = sessionAt[x]
      /\ x \in unpublished' => x \in unpublished
      /\ ~Called(x)
  BY DEF OthersStay
<1>2. AtBoundary(x)
  BY <1>1 DEF SafeIsAtBoundary
<1> QED BY <1>1, <1>2 DEF AtBoundary

\* A safe recovery is recorded by finish_step alone, from an answer that says
\* where the owner is, and never with a publication pending; every other
\* handler leaves it, resolves it as unsafe, or calls the port for it.
LEMMA SafeIsAtBoundaryKept ==
  ASSUME IInv, IInv', WrittenInv, EffectInv, ExitInv, ~PortFaults, [Next]_vars
  PROVE  SafeIsAtBoundary'
<1> SUFFICES ASSUME up', ~poisoned' PROVE SafeIsAtBoundary'
  BY DEF SafeIsAtBoundary
<1>1. SafeIsAtBoundary /\ NoAnswerRejected
  BY DEF ExitInv
<1>2. \A o \in DOMAIN operations : operations[o] \in Records
  BY DEF IInv, TypeOK
<1>3. ASSUME UNCHANGED <<up, poisoned, operations, interrupted, native,
                         sessionAt, unpublished, call>>
      PROVE  SafeIsAtBoundary'
  BY <1>1, <1>3 DEF SafeIsAtBoundary, AtBoundary, Called
<1>4. CASE HostStep
  <2>1. CASE Open
    <3>1. /\ operations' = durable
          /\ \A o \in DOMAIN durable \ interrupted' :
               durable[o].phase = "terminal"
      BY <2>1 DEF Open, InterruptedIn
    <3> QED BY <3>1 DEF SafeIsAtBoundary
  <2>2. CASE RequestHostClose
    BY <1>3, <2>2 DEF RequestHostClose, process, memory, owner
  <2>3. CASE Exit \/ Crash
    BY <2>3 DEF Exit, Crash
  <2>4. ASSUME NEW o \in Operations, ResolveInterrupted(o)
        PROVE  SafeIsAtBoundary'
    <3>1. /\ up /\ ~poisoned /\ o \in DOMAIN operations
          /\ operations' = Put(operations, o, Resolved(operations[o]))
          /\ interrupted' = interrupted \ {o}
          /\ UNCHANGED <<native, sessionAt, unpublished, call>>
      BY <2>4 DEF ResolveInterrupted, Persist, IInv, TypeOK, owner
    <3>2. OthersStay(o)
      BY <3>1 DEF OthersStay, Put, Called
    <3>3. operations'[o] = Resolved(operations[o])
      BY <3>1 DEF Put
    <3>4. ~(operations'[o].phase = "recovery" /\ operations'[o].safe)
      BY <1>2, <3>1, <3>3 DEF Resolved, Records
    <3> QED BY <1>1, <3>1, <3>2, <3>4, OneAtBoundary
  <2>5. ASSUME NEW o \in Operations, ResolveFails(o) PROVE FALSE
    BY <2>5 DEF ResolveFails
  <2> QED BY <1>4, <2>1, <2>2, <2>3, <2>4, <2>5 DEF HostStep
<1>5. CASE PlanStep
  BY <1>3, <1>5 DEF PlanStep, Expire, Prepare, PrepareRefused, CommitExpired,
                    process, memory, owner
<1>6. ASSUME NEW o \in Operations, AdmissionStep(o) PROVE SafeIsAtBoundary'
  <2>1. PICK c \in CommitInputs : Commit(o, c)
    BY <1>6 DEF AdmissionStep, CommitUncertain
  <2>2. /\ up /\ ~poisoned
        /\ operations' = Put(operations, o, Admitted(c))
        /\ UNCHANGED <<interrupted, native, sessionAt, unpublished, call>>
    BY <2>1 DEF Commit, Persist, Idle, Serving, Admissible, RequireOpen,
                process, owner
  <2>3. OthersStay(o)
    BY <2>2 DEF OthersStay, Put, Called
  <2>4. operations'[o].phase = "admitted"
    BY <2>2 DEF Put, Admitted
  <2> QED BY <1>1, <2>2, <2>3, <2>4, OneAtBoundary
<1>7. ASSUME NEW o \in Operations, PumpStep(o) PROVE SafeIsAtBoundary'
  <2>1. up /\ ~poisoned /\ call.at = "idle" /\ o \in DOMAIN operations
    BY <1>7 DEF PumpStep, Advance, AdvanceUncertain, SettlementRetained,
                OwnerSettles, PumpMay, IsNextReady, Ready, Idle, Serving
  <2>2. CASE Advance(o)
    <3>1. /\ operations' = Put(operations, o, Started(operations[o]))
          /\ operations[o].phase \in {"admitted", "executing"}
          /\ UNCHANGED <<interrupted, native, sessionAt, unpublished>>
      BY <2>2 DEF Advance, InFlight, Persist, process, owner
    <3>2. OthersStay(o)
      BY <2>1, <3>1 DEF OthersStay, Put, Called
    <3>3. operations'[o].phase = "executing"
      BY <1>2, <2>1, <3>1 DEF Put, Started, Records
    <3> QED BY <1>1, <2>1, <3>2, <3>3, OneAtBoundary
  <2>3. CASE AdvanceUncertain(o)
    BY <2>3 DEF AdvanceUncertain, PersistUncertain
  <2>4. CASE SettlementRetained(o)
    BY <1>3, <2>4 DEF SettlementRetained, process, owner
  <2>5. CASE OwnerSettles(o)
    <3>1. UNCHANGED <<up, poisoned, operations, interrupted, native,
                      sessionAt, unpublished>>
      BY <2>5 DEF OwnerSettles, process
    <3> QED BY <1>1, <2>1, <3>1 DEF SafeIsAtBoundary, AtBoundary, Called
  <2> QED BY <1>7, <2>2, <2>3, <2>4, <2>5 DEF PumpStep
<1>8. ASSUME NEW o \in Operations, PortReturns(o) PROVE SafeIsAtBoundary'
  <2>1. /\ up /\ ~poisoned /\ call.at = "port" /\ call.op = o
        /\ call'.at = "finish" /\ call'.op = o
        /\ unpublished' \subseteq unpublished \cup {o}
        /\ UNCHANGED <<operations, interrupted>>
    BY <1>8 DEF PortReturns, Serving, process, IInv, TypeOK, Calls
  <2>2. \A x \in Operations : x # o => /\ native'[x] = native[x]
                                       /\ sessionAt'[x] = sessionAt[x]
    BY <1>8, PortMoves
  <2>3. OthersStay(o)
    BY <2>1, <2>2 DEF OthersStay, Called, IInv, TypeOK
  <2>4. Called(o)'
    BY <2>1 DEF Called
  <2> QED BY <1>1, <2>1, <2>3, <2>4, OneAtBoundary
<1>9. ASSUME NEW o \in Operations, FinishCall(o) PROVE SafeIsAtBoundary'
  <2>1. /\ up /\ ~poisoned /\ call.op = o /\ o \in DOMAIN operations
        /\ UNCHANGED <<native, sessionAt, interrupted>>
    BY <1>9
       DEF FinishCall, FinishStep, FinishUncertain, FinishRefused,
           AcknowledgeSettlement, AcknowledgeUncertain, RecordHandoff,
           RecordHandoffUncertain, Serving, process, owner, IInv, TypeOK,
           CallInProgress
  <2>2. CASE FinishStep(o)
    <3>1. PICK rec \in StepRecords(o, call.step) : Persist(o, rec)
      BY <2>2 DEF FinishStep
    <3>2. /\ operations' = Put(operations, o, rec)
          /\ unpublished' \subseteq unpublished
          /\ call.at = "finish" /\ ~RejectedStep(o, call.step)
      BY <2>2, <3>1 DEF FinishStep, Persist
    <3>3. OthersStay(o)
      BY <2>1, <3>2 DEF OthersStay, Put, Called
    <3>4. operations'[o] = rec
      BY <3>2 DEF Put
    <3>5. ASSUME rec.phase = "recovery", rec.safe
          PROVE  /\ native[o] # "begun" /\ o \notin unpublished
                 /\ sessionAt[o] = "host" => rec.session
      <4>1. /\ OwnerAnswers(o, call.step, native[o], sessionAt[o])
            /\ call.step \in PortSteps /\ operations[o] \in Records
        BY <1>2, <2>1, <3>2 DEF EffectInv, AnswerAgrees, WrittenInv,
                                AnswerHeld
      <4>2. CASE call.step.kind = "progress"
        <5>1. operations[o].phase = "executing"
          BY <4>1, <4>2 DEF OwnerAnswers
        <5>2. rec = [operations[o] EXCEPT
                       !.cancellable = call.step.cancellable]
          BY <3>1, <4>2 DEF StepRecords
        <5> QED BY <3>5, <4>1, <5>1, <5>2 DEF Records
      <4>3. CASE call.step.kind = "complete"
        <5>1. /\ native[o] = "finished"
              /\ call.step.session = (sessionAt[o] = "host")
          BY <4>1, <4>3 DEF OwnerAnswers
        <5>2. \/ rec = Completed(operations[o], call.step)
              \/ rec = Unresolved(o, operations[o], TRUE, call.step.session)
          BY <3>1, <4>3 DEF StepRecords
        <5> QED BY <3>5, <4>1, <5>1, <5>2 DEF Completed, Unresolved, Records
      <4>4. CASE call.step.kind \notin {"progress", "complete"}
        <5>1. rec = Unresolved(o, operations[o], call.step.safe,
                               operations[o].session)
          BY <3>1, <4>4 DEF StepRecords
        <5>2. /\ rec.safe = (call.step.safe /\ o \notin unpublished)
              /\ rec.session = operations[o].session
          BY <4>1, <5>1 DEF Unresolved, Records
        <5>3. call.step.kind = "recovery"
          BY <3>5, <4>1, <5>2 DEF PortSteps
        <5> QED BY <3>5, <4>1, <5>2, <5>3 DEF OwnerAnswers
      <4> QED BY <4>2, <4>3, <4>4
    <3> QED
      BY <1>1, <2>1, <3>2, <3>3, <3>4, <3>5, OneAtBoundary DEF AtBoundary
  <2>3. CASE FinishRefused(o)
    BY <1>1, <2>1, <2>3 DEF FinishRefused, NoAnswerRejected
  <2>4. CASE AcknowledgeSettlement(o)
    <3>1. /\ call.at = "settle" /\ operations' = operations
          /\ unpublished' \subseteq unpublished
      BY <2>4 DEF AcknowledgeSettlement
    <3> QED
      BY <1>1, <2>1, <3>1 DEF SafeIsAtBoundary, AtBoundary, Called
  <2>5. CASE RecordHandoff(o)
    <3>1. /\ operations' = Put(operations, o, HandedOff(operations[o]))
          /\ call.at = "handoff" /\ unpublished' \subseteq unpublished
      BY <2>5 DEF RecordHandoff, Persist
    <3>2. OthersStay(o)
      BY <2>1, <3>1 DEF OthersStay, Put, Called
    <3>3. operations'[o] = HandedOff(operations[o])
      BY <3>1 DEF Put
    <3>4. /\ operations'[o].phase = operations[o].phase
          /\ operations'[o].safe = operations[o].safe
      BY <1>2, <2>1, <3>3 DEF HandedOff, Records
    <3>5. sessionAt[o] = "owner" /\ ~Called(o)
      BY <2>1, <3>1 DEF EffectInv, HandoffIsDone, Called
    <3>6. /\ o \in DOMAIN operations' \ interrupted'
          /\ operations'[o].phase = "recovery" /\ operations'[o].safe
          => AtBoundary(o)'
      BY <1>1, <2>1, <3>1, <3>4, <3>5 DEF SafeIsAtBoundary, AtBoundary
    <3> QED BY <1>1, <2>1, <3>2, <3>6, OneAtBoundary
  <2>6. CASE \/ FinishUncertain(o) \/ AcknowledgeUncertain(o)
             \/ RecordHandoffUncertain(o)
    BY <2>6 DEF FinishUncertain, AcknowledgeUncertain,
                RecordHandoffUncertain, PersistUncertain
  <2> QED BY <1>9, <2>2, <2>3, <2>4, <2>5, <2>6 DEF FinishCall
<1>10. ASSUME NEW o \in Operations, RequestStep(o) PROVE SafeIsAtBoundary'
  <2>1. up /\ ~poisoned /\ call.at = "idle" /\ o \in DOMAIN operations
    BY <1>10 DEF RequestStep, Recover, Cancel, CancelUncertain,
                 CancelChanges, HandoffRefused, HandoffSession, HandoffMay,
                 Idle, Serving
  <2>2. CASE Recover(o)
    <3>1. /\ call'.at = "port" /\ call'.op = o
          /\ UNCHANGED <<operations, interrupted, native, sessionAt,
                         unpublished>>
      BY <2>2 DEF Recover, process, owner, NoCall
    <3>2. OthersStay(o) /\ Called(o)'
      BY <2>1, <3>1 DEF OthersStay, Called
    <3> QED BY <1>1, <2>1, <3>2, OneAtBoundary
  <2>3. CASE Cancel(o)
    <3>1. /\ operations' = Put(operations, o, CancelRecord(operations[o]))
          /\ operations[o].phase \in {"admitted", "executing"}
          /\ unpublished' \subseteq unpublished
          /\ UNCHANGED <<interrupted, native, sessionAt, call>>
      BY <2>3 DEF Cancel, CancelChanges, Persist, process, owner
    <3>2. OthersStay(o)
      BY <2>1, <3>1 DEF OthersStay, Put, Called
    <3>3. operations'[o] = CancelRecord(operations[o])
      BY <3>1 DEF Put
    <3>4. operations'[o].phase # "recovery"
      BY <1>2, <2>1, <3>1, <3>3 DEF CancelRecord, Records
    <3> QED BY <1>1, <2>1, <3>2, <3>4, OneAtBoundary
  <2>4. CASE CancelUncertain(o)
    BY <2>4 DEF CancelUncertain, PersistUncertain
  <2>5. CASE HandoffRefused(o)
    BY <1>3, <2>5 DEF HandoffRefused, process, owner
  <2>6. CASE HandoffSession(o)
    <3>1. /\ UNCHANGED <<up, poisoned, interrupted>>
          /\ UNCHANGED <<operations, native, unpublished>>
          /\ sessionAt'[o] = "owner"
          /\ \A x \in Operations : x # o => sessionAt'[x] = sessionAt[x]
      BY <2>6, HandoffMoves DEF HandoffSession, process
    <3>2. OthersStay(o)
      BY <2>1, <3>1 DEF OthersStay, Called, IInv, TypeOK
    <3>3. /\ o \in DOMAIN operations' \ interrupted'
          /\ operations'[o].phase = "recovery" /\ operations'[o].safe
          => AtBoundary(o)'
      BY <1>1, <2>1, <3>1 DEF SafeIsAtBoundary, AtBoundary, Called
    <3> QED BY <1>1, <2>1, <3>2, <3>3, OneAtBoundary
  <2> QED BY <1>10, <2>2, <2>3, <2>4, <2>5, <2>6 DEF RequestStep
<1>11. CASE UNCHANGED vars
  BY <1>3, <1>11 DEF vars, process, memory, owner
<1> QED
  BY <1>4, <1>5, <1>6, <1>7, <1>8, <1>9, <1>10, <1>11 DEF Next

\* With ports that keep their contract, what a safe recovery says of its owner
\* is true whenever the port is not at work.
THEOREM ExitInvariant == Spec => []ExitInv
<1>1. Init => ExitInv
  BY NoCallIs
     DEF Init, ExitInv, SafeIsAtBoundary, SessionsOfLaunches,
         NoAnswerRejected
<1>2. IInv /\ IInv' /\ WrittenInv /\ EffectInv /\ ExitInv /\ [Next]_vars
        => ExitInv'
  <2> SUFFICES ASSUME IInv, IInv', WrittenInv, EffectInv, ExitInv,
                      [Next]_vars, ~PortFaults
               PROVE  /\ SafeIsAtBoundary' /\ SessionsOfLaunches'
                      /\ NoAnswerRejected'
    BY DEF ExitInv
  <2> QED
    BY SafeIsAtBoundaryKept, SessionsOfLaunchesKept, NoAnswerRejectedKept
       DEF ExitInv
<1> QED
  BY <1>1, <1>2, KernelInvariant, WrittenInvariant, EffectInvariant, PTL
     DEF Spec

\* exit_when_safe ends the host only when no native transaction is under way,
\* every session has another custodian and every reservation is settled, if
\* the ports keep the contract of operations/ports.rs.
THEOREM ExitIsClean ==
  ASSUME ~PortFaults
  PROVE  Spec => ExitLeavesNothingOpen
<1>1. IInv /\ WrittenInv /\ EffectInv /\ ExitInv /\ [Next]_vars
        => [Exit => NothingOpen]_vars
  <2> SUFFICES ASSUME IInv, WrittenInv, EffectInv, ExitInv, Exit
               PROVE  NothingOpen
    OBVIOUS
  <2>1. /\ up /\ interrupted = {} /\ call.at = "idle"
        /\ \A o \in DOMAIN operations : ~Defers(o)
    BY DEF Exit, Idle, Serving, Disposition
  <2>2. ~poisoned
    BY <2>1 DEF EffectInv, UncertainIsOpen
  <2>3. operations = durable /\ settled = durableSettled
    BY <2>1, <2>2 DEF IInv, HealthyMemory
  <2>4. \A o \in DOMAIN durable :
          /\ durable[o] \in Records /\ ~durable[o].session
          /\ durable[o].phase # "terminal" =>
               durable[o].phase = "recovery" /\ durable[o].safe
    BY <2>1, <2>3 DEF Defers, IInv, TypeOK, Records, Phases
  <2>5. ASSUME NEW o \in Operations,
               native[o] = "begun" \/ sessionAt[o] = "host"
        PROVE  FALSE
    <3>1. /\ o \in DOMAIN durable
          /\ durable[o].phase # "terminal" \/ durable[o].session
      BY <2>5 DEF WrittenInv, EffectsFollowExecution, EffectInv,
                  EffectsRecorded
    <3>2. /\ o \in DOMAIN operations \ interrupted
          /\ operations[o].phase = "recovery" /\ operations[o].safe
          /\ ~operations[o].session /\ ~Called(o)
      BY <2>1, <2>3, <2>4, <3>1 DEF Called
    <3>3. AtBoundary(o)
      BY <2>1, <2>2, <3>2 DEF ExitInv, SafeIsAtBoundary
    <3> QED BY <2>5, <3>2, <3>3 DEF AtBoundary
  <2>6. ASSUME NEW o \in DOMAIN durable, RequiresSettlement(durable[o])
        PROVE  o \in durableSettled
    BY <2>1, <2>3, <2>6 DEF Defers, SettlementPending
  <2> QED BY <2>5, <2>6 DEF NothingOpen
<1> QED
  BY <1>1, KernelInvariant, WrittenInvariant, EffectInvariant, ExitInvariant,
     PTL DEF Spec, ExitLeavesNothingOpen

\* release_worker is never reached with a publication pending and no outcome:
\* what a worker has to publish survives every handler but the one that
\* records its outcome, if the ports keep their contract.
THEOREM PublicationsAreKept ==
  ASSUME ~PortFaults
  PROVE  Spec => PublicationNotDropped
<1>1. IInv /\ ExitInv /\ [Next]_vars => [up' => PublicationKept]_vars
  <2> SUFFICES ASSUME IInv, ExitInv, Next, up'
               PROVE  PublicationKept
    OBVIOUS
  <2>1. /\ unpublished \subseteq workers /\ workers \subseteq DOMAIN operations
        /\ \A o \in DOMAIN operations : operations[o] \in Records
    BY DEF IInv, TypeOK
  <2>2. ASSUME unpublished \subseteq unpublished' PROVE PublicationKept
    BY <2>2 DEF PublicationKept
  <2>3. CASE HostStep
    BY <2>2, <2>3 DEF HostStep, Open, RequestHostClose, Exit, Crash,
                      ResolveInterrupted, ResolveFails, memory
  <2>4. CASE PlanStep
    BY <2>2, <2>4 DEF PlanStep, Expire, Prepare, PrepareRefused,
                      CommitExpired, memory
  <2>5. ASSUME NEW o \in Operations,
               AdmissionStep(o) \/ PumpStep(o) \/ PortReturns(o)
        PROVE  PublicationKept
    BY <2>2, <2>5 DEF AdmissionStep, Commit, CommitUncertain, PumpStep,
         Advance, AdvanceUncertain, SettlementRetained, OwnerSettles,
         PortReturns
  <2>6. ASSUME NEW o \in Operations, FinishCall(o) PROVE PublicationKept
    <3>1. call.op = o /\ o \in DOMAIN operations /\ up /\ ~poisoned
      BY <2>6
         DEF FinishCall, FinishStep, FinishUncertain, FinishRefused,
             AcknowledgeSettlement, AcknowledgeUncertain, RecordHandoff,
             RecordHandoffUncertain, IInv, TypeOK, CallInProgress, Serving
    <3>2. CASE \/ FinishUncertain(o) \/ FinishRefused(o)
               \/ AcknowledgeUncertain(o) \/ RecordHandoffUncertain(o)
      BY <2>2, <3>2 DEF FinishUncertain, FinishRefused, AcknowledgeUncertain,
                        RecordHandoffUncertain, memory
    <3>3. CASE FinishStep(o)
      <4>1. PICK rec \in StepRecords(o, call.step) :
              /\ operations' = Put(operations, o, rec)
              /\ workers' = WorkersAfter(o, rec)
              /\ unpublished' = IF rec.phase = "terminal"
                                THEN unpublished \ {o}
                                ELSE unpublished \cap workers'
        BY <3>3 DEF FinishStep, Persist
      <4>2. operations'[o] = rec
        BY <4>1 DEF Put
      <4>3. CASE rec.phase = "terminal"
        BY <4>1, <4>2, <4>3 DEF PublicationKept
      <4>4. CASE rec.phase # "terminal" /\ o \notin unpublished
        BY <2>1, <2>2, <4>1, <4>4 DEF WorkersAfter
      <4>5. CASE rec.phase # "terminal" /\ o \in unpublished
        <5>1. ~(rec.phase = "recovery" /\ rec.safe)
          <6>1. /\ operations[o] \in Records
                /\ operations[o].phase \in {"executing", "recovery"}
                /\ ~RejectedStep(o, call.step)
            BY <2>1, <3>1, <3>3 DEF FinishStep, IInv, CallInProgress
          <6>2. CASE call.step.kind = "progress"
            <7>1. operations[o].phase = "executing"
              BY <6>1, <6>2 DEF RejectedStep
            <7>2. rec = [operations[o] EXCEPT
                           !.cancellable = call.step.cancellable]
              BY <4>1, <6>2 DEF StepRecords
            <7> QED BY <6>1, <7>1, <7>2 DEF Records
          <6>3. CASE call.step.kind # "progress"
            <7>1. \/ rec = Completed(operations[o], call.step)
                  \/ rec = Unresolved(o, operations[o], TRUE,
                                      call.step.session)
                  \/ rec = Unresolved(o, operations[o], call.step.safe,
                                      operations[o].session)
              BY <4>1, <6>3 DEF StepRecords
            <7> QED
              BY <4>5, <6>1, <7>1 DEF Completed, Unresolved, Records
          <6> QED BY <6>2, <6>3
        <5>2. workers' = workers
          BY <4>1, <4>5, <5>1 DEF WorkersAfter
        <5> QED BY <2>1, <2>2, <4>1, <4>5, <5>2
      <4> QED BY <4>3, <4>4, <4>5
    <3>4. CASE AcknowledgeSettlement(o)
      <4>1. /\ operations[o].phase = "terminal" /\ operations' = operations
            /\ unpublished' = unpublished \cap workers'
            /\ workers \ {o} \subseteq workers'
        BY <3>1, <3>4 DEF AcknowledgeSettlement, IInv, CallInProgress
      <4> QED BY <2>1, <4>1 DEF PublicationKept
    <3>5. CASE RecordHandoff(o)
      <4>1. /\ operations' = Put(operations, o, HandedOff(operations[o]))
            /\ workers' = WorkersAfter(o, HandedOff(operations[o]))
            /\ unpublished' = unpublished \cap workers'
            /\ call.at = "handoff" /\ interrupted = {}
        BY <3>5 DEF RecordHandoff, Persist, Serving
      <4>2. /\ operations'[o].phase = operations[o].phase
            /\ HandedOff(operations[o]).phase = operations[o].phase
            /\ HandedOff(operations[o]).safe = operations[o].safe
        <5>1. operations'[o] = HandedOff(operations[o])
          BY <4>1 DEF Put
        <5> QED BY <2>1, <3>1, <5>1 DEF HandedOff, Records
      <4>3. CASE operations[o].phase = "terminal"
        BY <2>1, <4>1, <4>2, <4>3 DEF PublicationKept, WorkersAfter
      <4>4. CASE operations[o].phase = "recovery" /\ operations[o].safe
        <5>1. o \notin unpublished
          BY <3>1, <4>1, <4>4
             DEF ExitInv, SafeIsAtBoundary, AtBoundary, Called
        <5> QED BY <2>1, <2>2, <4>1, <5>1 DEF WorkersAfter
      <4>5. CASE /\ operations[o].phase # "terminal"
                 /\ ~(operations[o].phase = "recovery" /\ operations[o].safe)
        BY <2>1, <2>2, <4>1, <4>2, <4>5 DEF WorkersAfter
      <4> QED BY <4>3, <4>4, <4>5
    <3> QED BY <2>6, <3>2, <3>3, <3>4, <3>5 DEF FinishCall
  <2>7. ASSUME NEW o \in Operations, RequestStep(o) PROVE PublicationKept
    <3>1. CASE \/ Recover(o) \/ CancelUncertain(o) \/ HandoffRefused(o)
               \/ HandoffSession(o)
      BY <2>2, <3>1 DEF Recover, CancelUncertain, HandoffRefused,
                        HandoffSession
    <3>2. CASE Cancel(o)
      <4> DEFINE rec == CancelRecord(operations[o])
      <4>1. /\ o \in DOMAIN operations
            /\ operations[o].phase \in {"admitted", "executing"}
            /\ operations' = Put(operations, o, rec)
            /\ workers' = WorkersAfter(o, rec)
            /\ unpublished' = unpublished \cap workers'
        BY <3>2 DEF Cancel, CancelChanges, Persist
      <4>2. operations'[o] = rec /\ rec.phase \in {"terminal", "executing"}
        <5>1. operations'[o] = rec
          BY <4>1 DEF Put
        <5>2. rec.phase \in {"terminal", "executing"}
          BY <2>1, <4>1 DEF CancelRecord, Records
        <5> QED BY <5>1, <5>2
      <4> HIDE DEF rec
      <4> QED BY <2>1, <4>1, <4>2 DEF PublicationKept, WorkersAfter
    <3> QED BY <2>7, <3>1, <3>2 DEF RequestStep
  <2> QED BY <2>3, <2>4, <2>5, <2>6, <2>7 DEF Next
<1> QED
  BY <1>1, KernelInvariant, ExitInvariant, PTL
     DEF Spec, PublicationNotDropped

=============================================================================
