------------------------ MODULE BridgeKernelJournal --------------------------
(***************************************************************************)
(* Theorems about what BridgeKernel writes: the journal a host leaves is   *)
(* one the next Engine::open accepts, and the owner's native effects, its  *)
(* settlements and the identities of the operations agree with it, for any *)
(* operations, plans, keys and bounds.                                     *)
(***************************************************************************)
EXTENDS BridgeKernelProofs, FiniteSetTheorems

-----------------------------------------------------------------------------
(* The inductive invariant                                                 *)

\* A record the journal may hold: well formed, and without an outcome before
\* it is terminal.
Sound(rec) ==
  WellFormed(rec) /\ (rec.phase # "terminal" => rec.outcome = "none")

\* The journal holds sound records, never more than an open accepts.
SoundJournal ==
  /\ \A o \in DOMAIN durable : Sound(durable[o])
  /\ IsFiniteSet(DOMAIN durable)
  /\ Cardinality(DOMAIN durable) <= MaxOperations

\* What a call in progress holds: an answer of the port's type, or a
\* reservation its owner has settled.
AnswerHeld ==
  /\ call.at = "finish" => call.step \in PortSteps
  /\ call.at = "settle" => call.op \in ownerSettled

\* No record is of a later host, and a plan of this host that was committed
\* is no longer prepared.
CommitsConsumePlans ==
  /\ prepared \subseteq issued
  /\ \A o \in DOMAIN durable : durable[o].commit.epoch <= epoch
  /\ up => \A o \in DOMAIN operations :
             /\ operations[o].commit.epoch <= epoch
             /\ operations[o].commit.epoch = epoch =>
                  operations[o].commit.plan \in issued \ prepared

WrittenInv ==
  /\ SoundJournal /\ AnswerHeld /\ CommitsConsumePlans
  /\ EffectsFollowExecution /\ SettlementFollowsOutcome
  /\ OneOperationPerCommit

-----------------------------------------------------------------------------
(* What a step may write                                                   *)

\* A new operation is admitted while memory and journal agree.
Admits(o, c) ==
  /\ Commit(o, c) \/ CommitUncertain(o, c)
  /\ Idle /\ ~poisoned /\ operations = durable /\ Admissible(c)
  /\ o \notin DOMAIN durable
  /\ durable' = Put(durable, o, Admitted(c))

\* What the record of a known operation may become: open resolves it, advance
\* starts it, cancel and handoff_session change it, finish_step records what
\* the port answered.
Rewritten(o, rec) ==
  \/ durable[o].phase # "terminal" /\ rec = Resolved(durable[o])
  \/ /\ durable[o].phase \in {"admitted", "executing"}
     /\ rec \in {Started(durable[o]), CancelRecord(durable[o])}
  \/ /\ call.at = "handoff" /\ call.op = o
     /\ durable[o].session /\ rec = HandedOff(durable[o])
  \/ /\ call.at = "finish" /\ call.op = o
     /\ operations = durable
     /\ durable[o].phase \in {"executing", "recovery"}
     /\ ~RejectedStep(o, call.step)
     /\ rec \in StepRecords(o, call.step)
Rewrites(o, rec) == Rewritten(o, rec) /\ durable' = Put(durable, o, rec)

\* An acknowledgement of the settlement the call in progress holds.
Acknowledges(o) ==
  /\ call.at = "settle" /\ call.op = o /\ o \in DOMAIN durable
  /\ operations = durable /\ settled = durableSettled
  /\ UNCHANGED durable
  /\ durableSettled' = durableSettled \cup {o}

\* A step writes one record or one acknowledgement, or leaves the journal.
LEMMA JournalStep ==
  ASSUME IInv, [Next]_vars
  PROVE  \/ UNCHANGED journal
         \/ /\ UNCHANGED durableSettled
            /\ \/ \E o \in Operations, c \in CommitInputs : Admits(o, c)
               \/ \E o \in DOMAIN durable, rec \in Records : Rewrites(o, rec)
         \/ \E o \in Operations : Acknowledges(o)
<1> DEFINE Goal == \/ UNCHANGED journal
                   \/ /\ UNCHANGED durableSettled
                      /\ \/ \E o \in Operations, c \in CommitInputs :
                              Admits(o, c)
                         \/ \E o \in DOMAIN durable, rec \in Records :
                              Rewrites(o, rec)
                   \/ \E o \in Operations : Acknowledges(o)
<1> SUFFICES Goal
  OBVIOUS
<1>1. up /\ ~poisoned => operations = durable /\ settled = durableSettled
  BY DEF IInv, HealthyMemory
<1>2. /\ DOMAIN durable \subseteq Operations
      /\ \A o \in DOMAIN durable : durable[o] \in Records
  BY DEF IInv, TypeOK
<1>3. ASSUME NEW o \in DOMAIN durable, NEW rec \in Records, Rewritten(o, rec),
             durable' \in {durable, Put(durable, o, rec)},
             UNCHANGED durableSettled
      PROVE  Goal
  BY <1>3 DEF Rewrites, journal
<1>4. CASE HostStep
  <2>1. CASE Open \/ RequestHostClose \/ Exit \/ Crash
    BY <2>1 DEF Open, RequestHostClose, Exit, Crash
  <2>2. ASSUME NEW o \in Operations, ResolveInterrupted(o) \/ ResolveFails(o)
        PROVE  Goal
    <3>1. /\ up /\ ~poisoned /\ o \in DOMAIN operations
          /\ operations[o].phase # "terminal"
          /\ UNCHANGED durableSettled
          /\ durable' \in {durable, Put(durable, o, Resolved(operations[o]))}
      BY <2>2 DEF ResolveInterrupted, ResolveFails, Persist, IInv, TypeOK,
                  ResolvingHost
    <3>2. Resolved(durable[o]) \in Records
      BY <1>1, <1>2, <3>1, ChangesKeepRecords
    <3> QED BY <1>1, <1>3, <3>1, <3>2 DEF Rewritten
  <2> QED BY <1>4, <2>1, <2>2 DEF HostStep
<1>5. CASE PlanStep
  BY <1>5 DEF PlanStep, Expire, Prepare, PrepareRefused, CommitExpired
<1>6. ASSUME NEW o \in Operations, AdmissionStep(o) PROVE Goal
  <2>1. PICK c \in CommitInputs : Commit(o, c) \/ CommitUncertain(o, c)
    BY <1>6 DEF AdmissionStep
  <2>2. /\ Idle /\ Admissible(c) /\ o \notin DOMAIN operations
        /\ ~poisoned /\ up
        /\ UNCHANGED durableSettled
        /\ durable' \in {durable, Put(durable, o, Admitted(c))}
    BY <2>1 DEF Commit, CommitUncertain, Persist, Admissible, RequireOpen,
                Idle, Serving
  <2> QED BY <1>1, <2>1, <2>2 DEF Admits, journal
<1>7. ASSUME NEW o \in Operations, PumpStep(o) PROVE Goal
  <2>1. CASE SettlementRetained(o) \/ OwnerSettles(o)
    BY <2>1 DEF SettlementRetained, OwnerSettles
  <2>2. CASE Advance(o) \/ AdvanceUncertain(o)
    <3>1. /\ up /\ ~poisoned /\ o \in DOMAIN operations
          /\ operations[o].phase \in {"admitted", "executing"}
          /\ UNCHANGED durableSettled
          /\ durable' \in {durable, Put(durable, o, Started(operations[o]))}
      BY <2>2 DEF Advance, AdvanceUncertain, PumpMay, InFlight, IsNextReady,
                  Ready, Persist, PersistUncertain, Idle, Serving
    <3>2. Started(durable[o]) \in Records
      BY <1>1, <1>2, <3>1, ChangesKeepRecords
    <3> QED BY <1>1, <1>3, <3>1, <3>2 DEF Rewritten
  <2> QED BY <1>7, <2>1, <2>2 DEF PumpStep
<1>8. ASSUME NEW o \in Operations, PortReturns(o) PROVE Goal
  BY <1>8 DEF PortReturns
<1>9. ASSUME NEW o \in Operations, FinishCall(o) PROVE Goal
  <2>1. /\ call.op = o /\ up /\ ~poisoned /\ o \in DOMAIN operations
        /\ call.at \in {"finish", "settle", "handoff"}
    BY <1>9 DEF FinishCall, FinishStep, FinishUncertain, FinishRefused,
         AcknowledgeSettlement, AcknowledgeUncertain, RecordHandoff,
         RecordHandoffUncertain, IInv, TypeOK, CallInProgress
  <2>2. CASE FinishStep(o) \/ FinishUncertain(o)
    <3>1. PICK rec \in StepRecords(o, call.step) :
            durable' \in {durable, Put(durable, o, rec)}
      BY <2>2 DEF FinishStep, FinishUncertain, Persist, PersistUncertain
    <3>2. /\ call.at = "finish" /\ ~RejectedStep(o, call.step)
          /\ UNCHANGED durableSettled
      BY <2>2 DEF FinishStep, FinishUncertain
    <3>3. rec \in Records /\ operations[o].phase \in {"executing", "recovery"}
      BY <2>1, <3>2, StepRecordsKeep DEF IInv, TypeOK, Calls, CallInProgress
    <3> QED BY <1>1, <1>3, <2>1, <3>1, <3>2, <3>3 DEF Rewritten
  <2>3. CASE FinishRefused(o)
    BY <2>3 DEF FinishRefused
  <2>4. CASE AcknowledgeSettlement(o) \/ AcknowledgeUncertain(o)
    <3>1. /\ call.at = "settle" /\ UNCHANGED durable
          /\ durableSettled' \in {durableSettled, durableSettled \cup {o}}
      BY <2>4 DEF AcknowledgeSettlement, AcknowledgeUncertain
    <3> QED BY <1>1, <2>1, <3>1 DEF Acknowledges, journal
  <2>5. CASE RecordHandoff(o) \/ RecordHandoffUncertain(o)
    <3>1. /\ call.at = "handoff" /\ operations[o].session
          /\ UNCHANGED durableSettled
          /\ durable' \in {durable, Put(durable, o, HandedOff(operations[o]))}
      BY <2>1, <2>5 DEF RecordHandoff, RecordHandoffUncertain, Persist,
                        PersistUncertain, IInv, CallInProgress
    <3>2. HandedOff(durable[o]) \in Records
      BY <1>1, <1>2, <2>1, ChangesKeepRecords
    <3> QED BY <1>1, <1>3, <2>1, <3>1, <3>2 DEF Rewritten
  <2> QED BY <1>9, <2>2, <2>3, <2>4, <2>5 DEF FinishCall
<1>10. ASSUME NEW o \in Operations, RequestStep(o) PROVE Goal
  <2>1. CASE Recover(o) \/ HandoffRefused(o) \/ HandoffSession(o)
    BY <2>1 DEF Recover, HandoffRefused, HandoffSession
  <2>2. CASE Cancel(o) \/ CancelUncertain(o)
    <3>1. /\ up /\ ~poisoned /\ o \in DOMAIN operations
          /\ operations[o].phase \in {"admitted", "executing"}
          /\ UNCHANGED durableSettled
          /\ durable' \in
               {durable, Put(durable, o, CancelRecord(operations[o]))}
      BY <2>2 DEF Cancel, CancelUncertain, CancelChanges, Persist,
                  PersistUncertain, Idle, Serving
    <3>2. CancelRecord(durable[o]) \in Records
      BY <1>1, <1>2, <3>1, ChangesKeepRecords
    <3> QED BY <1>1, <1>3, <3>1, <3>2 DEF Rewritten
  <2> QED BY <1>10, <2>1, <2>2 DEF RequestStep
<1>11. CASE UNCHANGED vars
  BY <1>11 DEF vars
<1> QED
  BY <1>4, <1>5, <1>6, <1>7, <1>8, <1>9, <1>10, <1>11 DEF Next

\* Every change to a record is one validate_transition accepts, and leads to a
\* record validate_durable accepts; only an admitted operation is cancelled.
LEMMA RewritesAreValid ==
  ASSUME NEW o \in DOMAIN durable, NEW rec \in Records,
         durable[o] \in Records, Sound(durable[o]), AnswerHeld,
         Rewritten(o, rec)
  PROVE  /\ Sound(rec)
         /\ rec = durable[o] \/ ValidTransition(durable[o], rec)
         /\ rec.commit = durable[o].commit
         /\ durable[o].phase # "admitted" => rec.phase # "admitted"
         /\ durable[o].phase = "terminal" => rec.phase = "terminal"
         /\ rec.outcome = "cancelled" =>
              durable[o].phase = "admitted" \/ durable[o].outcome = "cancelled"
<1> DEFINE old == durable[o]
<1> USE DEF Sound, WellFormed, ValidTransition, Records, Phases, Outcomes
<1>1. CASE old.phase # "terminal" /\ rec = Resolved(old)
  BY <1>1 DEF Resolved
<1>2. CASE /\ old.phase \in {"admitted", "executing"}
           /\ rec \in {Started(old), CancelRecord(old)}
  BY <1>2 DEF Started, CancelRecord
<1>3. CASE old.session /\ rec = HandedOff(old)
  BY <1>3 DEF HandedOff
<1>4. CASE /\ call.at = "finish" /\ call.op = o
           /\ operations = durable
           /\ old.phase \in {"executing", "recovery"}
           /\ ~RejectedStep(o, call.step)
           /\ rec \in StepRecords(o, call.step)
  <2>1. call.step \in PortSteps
    BY <1>4 DEF AnswerHeld
  <2>2. CASE call.step.kind = "progress"
    <3>1. rec = [old EXCEPT !.cancellable = call.step.cancellable]
      BY <1>4, <2>2 DEF StepRecords
    <3>2. old.phase = "executing"
      BY <1>4, <2>2 DEF RejectedStep
    <3> QED BY <3>1, <3>2
  <2>3. CASE call.step.kind = "complete"
    <3>1. /\ call.step.outcome \in {"changed", "unchanged"}
          /\ call.step.session \in BOOLEAN
          /\ call.step.session => /\ old.commit.plan \in LaunchPlans
                                 /\ call.step.outcome = "changed"
      BY <1>4, <2>1, <2>3 DEF PortSteps, RejectedStep, Steps
    <3>2. \/ rec = Completed(old, call.step)
          \/ rec = Unresolved(o, old, TRUE, call.step.session)
      BY <1>4, <2>3 DEF StepRecords
    <3>3. CASE rec = Completed(old, call.step)
      BY <1>4, <3>1, <3>3 DEF Completed
    <3>4. CASE rec = Unresolved(o, old, TRUE, call.step.session)
      BY <1>4, <3>1, <3>4 DEF Unresolved
    <3> QED BY <3>2, <3>3, <3>4
  <2>4. CASE call.step.kind \notin {"progress", "complete"}
    <3>1. rec = Unresolved(o, old, call.step.safe, old.session)
      BY <1>4, <2>4 DEF StepRecords
    <3>2. call.step.safe \in BOOLEAN
      BY <2>1 DEF PortSteps, Steps
    <3> QED BY <1>4, <3>1, <3>2 DEF Unresolved
  <2> QED BY <2>2, <2>3, <2>4
<1> HIDE DEF Sound, WellFormed, ValidTransition, Records, Phases, Outcomes
<1> QED BY <1>1, <1>2, <1>3, <1>4 DEF Rewritten

\* An admission writes a sound record.
LEMMA AdmittedIsSound ==
  ASSUME NEW c \in Commits
  PROVE  Sound(Admitted(c)) /\ Admitted(c).commit = c
         /\ Admitted(c).phase = "admitted" /\ Admitted(c).outcome = "none"
BY DEF Admitted, Sound, WellFormed

\* Admission adds one record, under a key no other has and for a plan that
\* was prepared by this host.
LEMMA AdmitsIs ==
  ASSUME NEW o \in Operations, NEW c \in CommitInputs, Admits(o, c)
  PROVE  /\ DOMAIN durable' = DOMAIN durable \cup {o}
         /\ o \notin DOMAIN durable
         /\ durable'[o] = Admitted(c)
         /\ \A x \in DOMAIN durable : durable'[x] = durable[x]
         /\ \A x \in DOMAIN durable : durable[x].commit.key # c.key
         /\ c.epoch = epoch /\ c.plan \in prepared
<1>1. durable' = Put(durable, o, Admitted(c)) /\ o \notin DOMAIN durable
  BY DEF Admits
<1>2. \A x \in DOMAIN durable : durable[x].commit.key # c.key
  BY DEF Admits, Admissible, KeyIsFree
<1>3. c.epoch = epoch /\ c.plan \in prepared
  BY DEF Admits, Admissible
<1> QED BY <1>1, <1>2, <1>3 DEF Put

\* A rewrite changes one record and no other.
LEMMA RewritesIs ==
  ASSUME NEW o \in DOMAIN durable, NEW rec \in Records, Rewrites(o, rec)
  PROVE  /\ DOMAIN durable' = DOMAIN durable
         /\ durable'[o] = rec
         /\ \A x \in DOMAIN durable : x # o => durable'[x] = durable[x]
<1>1. durable' = Put(durable, o, rec)
  BY DEF Rewrites
<1> QED BY <1>1 DEF Put

\* The journal stays sound and bounded.
LEMMA SoundJournalKept ==
  ASSUME IInv, SoundJournal, AnswerHeld, [Next]_vars
  PROVE  SoundJournal'
<1>1. CASE UNCHANGED durable
  BY <1>1 DEF SoundJournal
<1>2. ASSUME NEW o \in Operations, NEW c \in CommitInputs, Admits(o, c)
      PROVE  SoundJournal'
  <2>1. /\ DOMAIN durable' = DOMAIN durable \cup {o}
        /\ durable'[o] = Admitted(c)
        /\ \A x \in DOMAIN durable : durable'[x] = durable[x]
        /\ o \notin DOMAIN durable
        /\ Cardinality(DOMAIN durable) < MaxOperations
    <3>1. Cardinality(DOMAIN durable) < MaxOperations
      BY <1>2 DEF Admits, Admissible
    <3> QED BY <1>2, <3>1, AdmitsIs
  <2>2. c \in Commits
    BY DEF CommitInputs, Commits, IInv, TypeOK
  <2>3. /\ IsFiniteSet(DOMAIN durable')
        /\ Cardinality(DOMAIN durable') = Cardinality(DOMAIN durable) + 1
        /\ Cardinality(DOMAIN durable) \in Nat
    BY <2>1, FS_AddElement, FS_CardinalityType DEF SoundJournal
  <2>4. Cardinality(DOMAIN durable') <= MaxOperations
    BY <2>1, <2>3, BoundsAssumption
  <2> QED BY <2>1, <2>2, <2>3, <2>4, AdmittedIsSound DEF SoundJournal
<1>3. ASSUME NEW o \in DOMAIN durable, NEW rec \in Records, Rewrites(o, rec)
      PROVE  SoundJournal'
  <2>1. /\ DOMAIN durable' = DOMAIN durable
        /\ durable'[o] = rec
        /\ \A x \in DOMAIN durable : x # o => durable'[x] = durable[x]
    BY <1>3, RewritesIs
  <2>2. Sound(rec)
    BY <1>3, RewritesAreValid DEF Rewrites, SoundJournal, IInv, TypeOK
  <2> QED BY <2>1, <2>2 DEF SoundJournal
<1> QED
  BY <1>1, <1>2, <1>3, JournalStep DEF journal, Acknowledges

\* An answer or a settled reservation stays in hand until the call is done.
LEMMA AnswerHeldKept ==
  ASSUME IInv, AnswerHeld, [Next]_vars
  PROVE  AnswerHeld'
<1>1. CASE HostStep
  BY <1>1, NoCallIs
     DEF HostStep, Open, RequestHostClose, Exit, Crash, ResolveInterrupted,
         ResolveFails, ResetMemory, AnswerHeld, owner
<1>2. CASE PlanStep
  BY <1>2 DEF PlanStep, Expire, Prepare, PrepareRefused, CommitExpired,
              AnswerHeld, owner
<1>3. ASSUME NEW o \in Operations, AdmissionStep(o) PROVE AnswerHeld'
  BY <1>3 DEF AdmissionStep, Commit, CommitUncertain, AnswerHeld, owner
<1>4. ASSUME NEW o \in Operations, PumpStep(o) PROVE AnswerHeld'
  BY <1>4 DEF PumpStep, Advance, AdvanceUncertain, SettlementRetained,
              OwnerSettles, AnswerHeld, owner, NoCall
<1>5. ASSUME NEW o \in Operations, PortReturns(o) PROVE AnswerHeld'
  BY <1>5 DEF PortReturns, AnswerHeld, IInv, TypeOK, Calls
<1>6. ASSUME NEW o \in Operations, FinishCall(o) PROVE AnswerHeld'
  BY <1>6, NoCallIs
     DEF FinishCall, FinishStep, FinishUncertain, FinishRefused,
         AcknowledgeSettlement, AcknowledgeUncertain, RecordHandoff,
         RecordHandoffUncertain, AnswerHeld
<1>7. ASSUME NEW o \in Operations, RequestStep(o) PROVE AnswerHeld'
  BY <1>7 DEF RequestStep, Recover, Cancel, CancelUncertain, HandoffRefused,
              HandoffSession, AnswerHeld, owner, NoCall
<1>8. CASE UNCHANGED vars
  BY <1>8 DEF vars, owner, AnswerHeld
<1> QED
  BY <1>1, <1>2, <1>3, <1>4, <1>5, <1>6, <1>7, <1>8 DEF Next

\* Native work is the owner's answer to a call, which is made only behind a
\* record beyond admission; such a record is never cancelled.
LEMMA EffectsKept ==
  ASSUME IInv, SoundJournal, AnswerHeld, EffectsFollowExecution, [Next]_vars
  PROVE  EffectsFollowExecution'
<1>1. \A o \in DOMAIN durable : durable[o] \in Records /\ Sound(durable[o])
  BY DEF IInv, TypeOK, SoundJournal
<1>2. ASSUME NEW o \in Operations, PortReturns(o)
      PROVE  EffectsFollowExecution'
  <2>1. /\ UNCHANGED durable
        /\ \A x \in Operations : x # o => native'[x] = native[x]
    BY <1>2 DEF PortReturns, journal, IInv, TypeOK
  <2>2. /\ o \in DOMAIN durable
        /\ durable[o].phase \in {"executing", "recovery"}
    BY <1>2 DEF PortReturns, IInv, TypeOK, CallInProgress, HealthyMemory
  <2>3. durable[o].outcome = "none"
    BY <1>1, <2>2 DEF Sound
  <2> QED BY <2>1, <2>2, <2>3 DEF EffectsFollowExecution
<1>3. ASSUME UNCHANGED native PROVE EffectsFollowExecution'
  <2>1. CASE UNCHANGED durable
    BY <1>3, <2>1 DEF EffectsFollowExecution
  <2>2. ASSUME NEW o \in Operations, NEW c \in CommitInputs, Admits(o, c)
        PROVE  EffectsFollowExecution'
    BY <1>3, <2>2, AdmitsIs DEF EffectsFollowExecution
  <2>3. ASSUME NEW o \in DOMAIN durable, NEW rec \in Records, Rewrites(o, rec)
        PROVE  EffectsFollowExecution'
    <3>1. /\ DOMAIN durable' = DOMAIN durable
          /\ durable'[o] = rec
          /\ \A x \in DOMAIN durable : x # o => durable'[x] = durable[x]
      BY <2>3, RewritesIs
    <3>2. /\ durable[o].phase # "admitted" => rec.phase # "admitted"
          /\ rec.outcome = "cancelled" =>
               durable[o].phase = "admitted"
               \/ durable[o].outcome = "cancelled"
      BY <1>1, <2>3, RewritesAreValid DEF Rewrites
    <3> QED BY <1>3, <3>1, <3>2 DEF EffectsFollowExecution
  <2> QED BY <2>1, <2>2, <2>3, JournalStep DEF journal, Acknowledges
<1>4. CASE \E o \in Operations : PortReturns(o)
  BY <1>2, <1>4
<1>5. CASE ~\E o \in Operations : PortReturns(o)
  <2>1. UNCHANGED native
    <3>1. CASE HostStep
      BY <3>1 DEF HostStep, Open, RequestHostClose, Exit, Crash,
                  ResolveInterrupted, ResolveFails, owner
    <3>2. CASE PlanStep
      BY <3>2 DEF PlanStep, Expire, Prepare, PrepareRefused, CommitExpired,
                  owner
    <3>3. ASSUME NEW o \in Operations,
                 \/ AdmissionStep(o) \/ PumpStep(o) \/ FinishCall(o)
                 \/ RequestStep(o)
          PROVE  UNCHANGED native
      BY <3>3
         DEF AdmissionStep, Commit, CommitUncertain, PumpStep, Advance,
             AdvanceUncertain, SettlementRetained, OwnerSettles, FinishCall,
             FinishStep, FinishUncertain, FinishRefused,
             AcknowledgeSettlement, AcknowledgeUncertain, RecordHandoff,
             RecordHandoffUncertain, RequestStep, Recover, Cancel,
             CancelUncertain, HandoffRefused, HandoffSession, owner
    <3>4. CASE UNCHANGED vars
      BY <3>4 DEF vars, owner
    <3> QED BY <1>5, <3>1, <3>2, <3>3, <3>4 DEF Next
  <2> QED BY <1>3, <2>1
<1> QED BY <1>4, <1>5

\* The owner settles behind a terminal record, which stays terminal, and is
\* acknowledged only for the reservation it settled.
LEMMA SettlementKept ==
  ASSUME IInv, SoundJournal, AnswerHeld, SettlementFollowsOutcome, [Next]_vars
  PROVE  SettlementFollowsOutcome'
<1>1. \A o \in DOMAIN durable : durable[o] \in Records /\ Sound(durable[o])
  BY DEF IInv, TypeOK, SoundJournal
<1>2. \A o \in DOMAIN durable :
        durable[o].phase = "terminal" =>
          o \in DOMAIN durable' /\ durable'[o].phase = "terminal"
  <2>1. CASE UNCHANGED durable
    BY <2>1
  <2>2. ASSUME NEW o \in Operations, NEW c \in CommitInputs, Admits(o, c)
        PROVE  \A x \in DOMAIN durable :
                 x \in DOMAIN durable' /\ durable'[x] = durable[x]
    BY <2>2, AdmitsIs
  <2>3. ASSUME NEW o \in DOMAIN durable, NEW rec \in Records, Rewrites(o, rec)
        PROVE  \A x \in DOMAIN durable :
                 durable[x].phase = "terminal" =>
                   x \in DOMAIN durable' /\ durable'[x].phase = "terminal"
    <3>1. /\ DOMAIN durable' = DOMAIN durable
          /\ durable'[o] = rec
          /\ \A x \in DOMAIN durable : x # o => durable'[x] = durable[x]
      BY <2>3, RewritesIs
    <3>2. durable[o].phase = "terminal" => rec.phase = "terminal"
      BY <1>1, <2>3, RewritesAreValid DEF Rewrites
    <3> QED BY <3>1, <3>2
  <2> QED BY <2>1, <2>2, <2>3, JournalStep DEF journal, Acknowledges
<1>3. durableSettled' \subseteq durableSettled \cup ownerSettled
  <2>1. ASSUME NEW o \in Operations, Acknowledges(o)
        PROVE  durableSettled' \subseteq durableSettled \cup ownerSettled
    BY <2>1 DEF Acknowledges, AnswerHeld
  <2> QED BY <2>1, JournalStep DEF journal
<1>4. \/ ownerSettled' = ownerSettled
      \/ \E o \in DOMAIN durable :
           /\ durable[o].phase = "terminal"
           /\ ownerSettled' = ownerSettled \cup {o}
  <2> DEFINE Settled ==
        \/ ownerSettled' = ownerSettled
        \/ \E o \in DOMAIN durable :
             /\ durable[o].phase = "terminal"
             /\ ownerSettled' = ownerSettled \cup {o}
  <2>1. CASE HostStep
    BY <2>1 DEF HostStep, Open, RequestHostClose, Exit, Crash,
                ResolveInterrupted, ResolveFails, owner
  <2>2. CASE PlanStep
    BY <2>2 DEF PlanStep, Expire, Prepare, PrepareRefused, CommitExpired,
                owner
  <2>3. ASSUME NEW o \in Operations,
               \/ AdmissionStep(o) \/ Advance(o) \/ AdvanceUncertain(o)
               \/ SettlementRetained(o) \/ PortReturns(o)
        PROVE  Settled
    BY <2>3 DEF AdmissionStep, Commit, CommitUncertain, Advance,
                AdvanceUncertain, SettlementRetained, PortReturns, owner
  <2>4. ASSUME NEW o \in Operations, FinishCall(o) \/ RequestStep(o)
        PROVE  Settled
    BY <2>4
       DEF FinishCall, FinishStep, FinishUncertain, FinishRefused,
           AcknowledgeSettlement, AcknowledgeUncertain, RecordHandoff,
           RecordHandoffUncertain, RequestStep, Recover, Cancel,
           CancelUncertain, HandoffRefused, HandoffSession, owner
  <2>5. ASSUME NEW o \in Operations, OwnerSettles(o) PROVE Settled
    <3>1. /\ o \in DOMAIN operations /\ operations[o].phase = "terminal"
          /\ ownerSettled' = ownerSettled \cup {o}
          /\ operations = durable
      BY <2>5 DEF OwnerSettles, PumpMay, IsNextReady, Ready, SettlementDue,
                  Idle, Serving, IInv, HealthyMemory
    <3> QED BY <3>1
  <2>6. CASE UNCHANGED vars
    BY <2>6 DEF vars, owner
  <2> QED
    BY <2>1, <2>2, <2>3, <2>4, <2>5, <2>6 DEF Next, PumpStep
<1> QED BY <1>2, <1>3, <1>4 DEF SettlementFollowsOutcome

-----------------------------------------------------------------------------
(* One operation per commit                                                *)

\* OneOperationPerCommit, of one map.
Distinct(records) ==
  \A a, b \in DOMAIN records :
    a # b =>
      /\ records[a].commit.key # records[b].commit.key
      /\ \/ records[a].commit.epoch # records[b].commit.epoch
         \/ records[a].commit.plan # records[b].commit.plan

\* The epochs a map's records are of, and the plans of this host it consumed.
Consumed(records) ==
  \A o \in DOMAIN records :
    /\ records[o].commit.epoch <= epoch
    /\ records[o].commit.epoch = epoch =>
         records[o].commit.plan \in issued \ prepared

\* Two maps that hold the same operations under the same commits.
SameCommits(left, right) ==
  /\ DOMAIN left = DOMAIN right
  /\ \A o \in DOMAIN left : left[o].commit = right[o].commit

LEMMA SameCommitsKeep ==
  ASSUME NEW left, NEW right, SameCommits(left, right), Distinct(left)
  PROVE  Distinct(right)
BY DEF SameCommits, Distinct

\* Apart from an admission, a step of a living host keeps the commits of its
\* memory and those of its journal.
LEMMA CommitsStay ==
  ASSUME IInv, IInv', [Next]_vars, up, up',
         \A o \in Operations : ~AdmissionStep(o)
  PROVE  SameCommits(operations, operations') /\ SameCommits(durable, durable')
<1>1. SameCommits(durable, durable')
  <2>1. CASE UNCHANGED durable
    BY <2>1 DEF SameCommits
  <2>2. ASSUME NEW o \in Operations, NEW c \in CommitInputs, Admits(o, c)
        PROVE  FALSE
    BY <2>2 DEF Admits, AdmissionStep
  <2>3. ASSUME NEW o \in DOMAIN durable, NEW rec \in Records, Rewrites(o, rec)
        PROVE  SameCommits(durable, durable')
    <3>1. durable[o] \in Records
      BY DEF IInv, TypeOK
    <3>2. rec.commit = durable[o].commit
      BY <2>3, <3>1, ChangesKeepRecords, StepRecordsKeep
         DEF Rewrites, Rewritten, IInv, TypeOK, Calls
    <3> QED BY <2>3, <3>2, RewritesIs DEF SameCommits
  <2> QED BY <2>1, <2>2, <2>3, JournalStep DEF journal, Acknowledges
<1>2. ASSUME poisoned' PROVE operations' = operations
  <2> USE <1>2
  <2>1. CASE HostStep
    BY <2>1 DEF HostStep, Open, RequestHostClose, Exit, Crash, ResetMemory,
                ResolveInterrupted, ResolveFails, Persist, memory, IInv,
                ResolvingHost
  <2>2. CASE PlanStep
    BY <2>2 DEF PlanStep, Expire, Prepare, PrepareRefused, CommitExpired,
                memory
  <2>3. ASSUME NEW o \in Operations, PumpStep(o)
        PROVE  operations' = operations
    BY <2>3 DEF PumpStep, Advance, AdvanceUncertain, SettlementRetained,
                OwnerSettles, PumpMay, Persist, PersistUncertain
  <2>4. ASSUME NEW o \in Operations, PortReturns(o) \/ FinishCall(o)
        PROVE  operations' = operations
    BY <2>4 DEF PortReturns, FinishCall, FinishStep, FinishUncertain,
         FinishRefused, AcknowledgeSettlement, AcknowledgeUncertain,
         RecordHandoff, RecordHandoffUncertain, Persist, PersistUncertain,
         IInv, CallInProgress, memory
  <2>5. ASSUME NEW o \in Operations, RequestStep(o)
        PROVE  operations' = operations
    BY <2>5 DEF RequestStep, Recover, Cancel, CancelUncertain, CancelChanges,
                HandoffRefused, HandoffSession, Persist, PersistUncertain
  <2>6. CASE UNCHANGED vars
    BY <2>6 DEF vars, memory
  <2> QED BY <2>1, <2>2, <2>3, <2>4, <2>5, <2>6 DEF Next
<1>3. ASSUME ~poisoned' PROVE ~poisoned
  <2> USE <1>3
  <2>1. CASE HostStep
    BY <2>1 DEF HostStep, Open, RequestHostClose, Exit, Crash, ResetMemory,
                ResolveInterrupted, ResolveFails, Persist
  <2>2. CASE PlanStep
    BY <2>2 DEF PlanStep, Expire, Prepare, PrepareRefused, CommitExpired
  <2>3. ASSUME NEW o \in Operations, PumpStep(o) PROVE ~poisoned
    BY <2>3 DEF PumpStep, Advance, AdvanceUncertain, SettlementRetained,
                OwnerSettles, PumpMay
  <2>4. ASSUME NEW o \in Operations, PortReturns(o) \/ FinishCall(o)
        PROVE  ~poisoned
    BY <2>4 DEF PortReturns, FinishCall, FinishStep, FinishUncertain,
         FinishRefused, AcknowledgeSettlement, AcknowledgeUncertain,
         RecordHandoff, RecordHandoffUncertain, IInv, CallInProgress
  <2>5. ASSUME NEW o \in Operations, RequestStep(o) PROVE ~poisoned
    BY <2>5 DEF RequestStep, Recover, Cancel, CancelUncertain, CancelChanges,
                HandoffRefused, HandoffSession, HandoffMay
  <2>6. CASE UNCHANGED vars
    BY <2>6 DEF vars
  <2> QED BY <2>1, <2>2, <2>3, <2>4, <2>5, <2>6 DEF Next
<1>4. CASE poisoned'
  BY <1>1, <1>2, <1>4 DEF SameCommits
<1>5. CASE ~poisoned'
  <2>1. operations = durable /\ operations' = durable'
    BY <1>3, <1>5 DEF IInv, HealthyMemory
  <2> QED BY <1>1, <2>1
<1> QED BY <1>4, <1>5

\* A plan of this host that was committed is not prepared again.
LEMMA ConsumedStay ==
  ASSUME IInv, prepared \subseteq issued, [Next]_vars, up, up',
         \A o \in Operations : ~AdmissionStep(o)
  PROVE  /\ epoch' = epoch /\ prepared' \subseteq issued'
         /\ issued \ prepared \subseteq issued' \ prepared'
<1>1. CASE HostStep
  BY <1>1 DEF HostStep, Open, RequestHostClose, Exit, Crash,
              ResolveInterrupted, ResolveFails, process, plans
<1>2. CASE PlanStep
  BY <1>2 DEF PlanStep, Expire, Prepare, PrepareRefused, CommitExpired,
              process
<1>3. ASSUME NEW o \in Operations,
             PumpStep(o) \/ PortReturns(o) \/ FinishCall(o) \/ RequestStep(o)
      PROVE  UNCHANGED <<process, plans>>
  BY <1>3
     DEF PumpStep, Advance, AdvanceUncertain, SettlementRetained,
         OwnerSettles, PortReturns, FinishCall, FinishStep, FinishUncertain,
         FinishRefused, AcknowledgeSettlement, AcknowledgeUncertain,
         RecordHandoff, RecordHandoffUncertain, RequestStep, Recover, Cancel,
         CancelUncertain, HandoffRefused, HandoffSession
<1>4. CASE UNCHANGED vars
  BY <1>4 DEF vars, process, plans
<1>5. ASSUME UNCHANGED <<process, plans>>
      PROVE  /\ epoch' = epoch /\ prepared' \subseteq issued'
             /\ issued \ prepared \subseteq issued' \ prepared'
  BY <1>5 DEF process, plans
<1> QED BY <1>1, <1>2, <1>3, <1>4, <1>5 DEF Next

\* The commits of a map with one admission more.
LEMMA AdmissionIsDistinct ==
  ASSUME NEW f, NEW o, NEW c, o \notin DOMAIN f, Distinct(f), Consumed(f),
         \A x \in DOMAIN f : f[x].commit.key # c.key,
         c.epoch = epoch, c.plan \in prepared
  PROVE  Distinct(Put(f, o, Admitted(c)))
<1> DEFINE g == Put(f, o, Admitted(c))
<1>1. /\ DOMAIN g = DOMAIN f \cup {o}
      /\ g[o].commit = c
      /\ \A x \in DOMAIN f : g[x] = f[x]
  BY DEF Put, Admitted
<1>2. \A x \in DOMAIN f :
        \/ f[x].commit.epoch # c.epoch
        \/ f[x].commit.plan # c.plan
  BY DEF Consumed
<1> HIDE DEF g
<1>3. Distinct(g)
  BY <1>1, <1>2 DEF Distinct
<1> QED BY <1>3 DEF g

\* An admission uses a key no operation has and consumes its plan; whatever
\* else happens keeps the commits, and a new host starts a new epoch.
LEMMA CommitsKept ==
  ASSUME IInv, IInv', CommitsConsumePlans, OneOperationPerCommit, [Next]_vars
  PROVE  CommitsConsumePlans' /\ OneOperationPerCommit'
<1>1. OneOperationPerCommit <=> Distinct(operations) /\ Distinct(durable)
  BY DEF OneOperationPerCommit, Distinct
<1>2. OneOperationPerCommit' <=> Distinct(operations') /\ Distinct(durable')
  BY DEF OneOperationPerCommit, Distinct
<1>3. /\ epoch \in Nat
      /\ \A o \in DOMAIN durable : durable[o].commit.epoch \in Nat
      /\ \A o \in DOMAIN operations : operations[o].commit.epoch \in Nat
  BY DEF IInv, TypeOK, Records, Commits
<1>4. CASE ~up'
  <2>1. operations' = EmptyMap /\ Distinct(operations')
    BY <1>4 DEF IInv, DownIsEmpty, EmptyMap, Distinct
  <2>2. epoch' = epoch /\ prepared' \subseteq issued'
        /\ SameCommits(durable, durable')
    <3>1. CASE HostStep
      <4>1. CASE Open \/ RequestHostClose \/ Exit \/ Crash
        BY <1>4, <4>1 DEF Open, RequestHostClose, Exit, Crash, ResetMemory,
                          process, plans, journal, SameCommits,
                          CommitsConsumePlans
      <4>2. ASSUME NEW o \in Operations, ResolveInterrupted(o)
            PROVE  FALSE
        BY <1>4, <4>2 DEF ResolveInterrupted
      <4>3. ASSUME NEW o \in Operations, ResolveFails(o)
            PROVE  epoch' = epoch /\ prepared' \subseteq issued'
                   /\ SameCommits(durable, durable')
        <5>1. /\ epoch' = epoch /\ prepared' \subseteq issued'
              /\ up /\ ~poisoned /\ o \in DOMAIN operations
              /\ durable' \in {durable, Put(durable, o, Resolved(operations[o]))}
          BY <4>3 DEF ResolveFails, ResetMemory, IInv, TypeOK, ResolvingHost
        <5>2. operations = durable
          BY <5>1 DEF IInv, HealthyMemory
        <5>3. durable[o] \in Records
          BY <5>1, <5>2 DEF IInv, TypeOK
        <5>4. Resolved(durable[o]).commit = durable[o].commit
          BY <5>3, ChangesKeepRecords
        <5> QED BY <5>1, <5>2, <5>4 DEF SameCommits, Put
      <4> QED BY <3>1, <4>1, <4>2, <4>3 DEF HostStep
    <3>2. CASE ~HostStep
      <4>1. CASE UNCHANGED vars
        BY <4>1 DEF vars, process, plans, journal, SameCommits,
                    CommitsConsumePlans
      <4>2. CASE PlanStep /\ ~up
        BY <4>2 DEF PlanStep, Expire, Prepare, PrepareRefused, CommitExpired,
                    Idle, Serving
      <4>3. CASE PlanStep /\ up
        BY <1>4, <4>3 DEF PlanStep, Expire, Prepare, PrepareRefused,
                          CommitExpired, process
      <4>4. ASSUME NEW o \in Operations,
                   AdmissionStep(o) \/ PumpStep(o) \/ RequestStep(o)
            PROVE  FALSE
        BY <1>4, <4>4
           DEF AdmissionStep, Commit, CommitUncertain, PumpStep, Advance,
               AdvanceUncertain, SettlementRetained, OwnerSettles, PumpMay,
               RequestStep, Recover, Cancel, CancelUncertain, CancelChanges,
               HandoffRefused, HandoffSession, HandoffMay, Idle, Serving,
               process
      <4>5. ASSUME NEW o \in Operations, PortReturns(o) \/ FinishCall(o)
            PROVE  FALSE
        <5>1. CASE PortReturns(o)
          BY <1>4, <5>1 DEF PortReturns, Serving, process
        <5>2. CASE \/ FinishStep(o) \/ FinishUncertain(o)
                   \/ FinishRefused(o)
          BY <1>4, <5>2 DEF FinishStep, FinishUncertain, FinishRefused,
                            Serving, process
        <5>3. CASE \/ AcknowledgeSettlement(o) \/ AcknowledgeUncertain(o)
                   \/ RecordHandoff(o) \/ RecordHandoffUncertain(o)
          BY <1>4, <5>3 DEF AcknowledgeSettlement, AcknowledgeUncertain,
                 RecordHandoff, RecordHandoffUncertain, Serving, process
        <5> QED BY <4>5, <5>1, <5>2, <5>3 DEF FinishCall
      <4> QED BY <3>2, <4>1, <4>2, <4>3, <4>4, <4>5 DEF Next
    <3> QED BY <3>1, <3>2
  <2>3. Distinct(durable')
    BY <1>1, <2>2, SameCommitsKeep
  <2> QED BY <1>2, <1>4, <2>1, <2>2, <2>3
          DEF CommitsConsumePlans, SameCommits
<1>5. CASE ~up /\ up'
  <2>1. Open
    <3>1. CASE HostStep
      BY <1>5, <3>1 DEF HostStep, RequestHostClose, Exit, Crash,
                        ResolveInterrupted, ResolveFails, Idle, Serving
    <3>2. CASE PlanStep
      BY <1>5, <3>2 DEF PlanStep, Expire, Prepare, PrepareRefused,
                        CommitExpired, Idle, Serving
    <3>3. ASSUME NEW o \in Operations,
                 \/ AdmissionStep(o) \/ PumpStep(o) \/ PortReturns(o)
                 \/ FinishCall(o) \/ RequestStep(o)
          PROVE  FALSE
      BY <1>5, <3>3
         DEF AdmissionStep, Commit, CommitUncertain, PumpStep, Advance,
             AdvanceUncertain, SettlementRetained, OwnerSettles, PumpMay,
             PortReturns, FinishCall, FinishStep, FinishUncertain,
             FinishRefused, AcknowledgeSettlement, AcknowledgeUncertain,
             RecordHandoff, RecordHandoffUncertain, RequestStep, Recover,
             Cancel, CancelUncertain, CancelChanges, HandoffRefused,
             HandoffSession, HandoffMay, Idle, Serving
    <3>4. CASE UNCHANGED vars
      BY <1>5, <3>4 DEF vars, process
    <3> QED BY <3>1, <3>2, <3>3, <3>4 DEF Next
  <2>2. /\ epoch' = epoch + 1 /\ operations' = durable /\ durable' = durable
        /\ prepared' = prepared /\ issued' = issued
    BY <2>1 DEF Open, journal, plans
  <2>3. \A o \in DOMAIN durable : durable[o].commit.epoch < epoch'
    BY <1>3, <2>2 DEF CommitsConsumePlans
  <2>4. CommitsConsumePlans'
    BY <1>3, <2>2, <2>3 DEF CommitsConsumePlans
  <2> QED BY <1>1, <1>2, <2>2, <2>4
<1>6. ASSUME up, up', NEW o \in Operations, AdmissionStep(o)
      PROVE  CommitsConsumePlans' /\ OneOperationPerCommit'
  <2>1. PICK c \in CommitInputs : Commit(o, c) \/ CommitUncertain(o, c)
    BY <1>6 DEF AdmissionStep
  <2>2. /\ Admissible(c) /\ ~poisoned /\ o \notin DOMAIN operations
        /\ operations' = Put(operations, o, Admitted(c))
        /\ durable' \in {durable, Put(durable, o, Admitted(c))}
        /\ prepared' = prepared \ {c.plan} /\ issued' = issued
        /\ epoch' = epoch
    BY <2>1 DEF Commit, CommitUncertain, Persist, Admissible, RequireOpen,
                process
  <2>3. operations = durable
    BY <1>6, <2>2 DEF IInv, HealthyMemory
  <2>4. /\ c.epoch = epoch /\ c.plan \in prepared
        /\ \A x \in DOMAIN durable : durable[x].commit.key # c.key
    BY <2>2, <2>3 DEF Admissible, KeyIsFree
  <2>5. Consumed(durable)
    BY <1>6, <2>3 DEF CommitsConsumePlans, Consumed
  <2>6. Distinct(Put(durable, o, Admitted(c)))
    BY <1>1, <2>2, <2>3, <2>4, <2>5, AdmissionIsDistinct
  <2>7. Distinct(operations') /\ Distinct(durable')
    BY <1>1, <2>2, <2>3, <2>6
  <2>8. /\ DOMAIN operations' = DOMAIN durable \cup {o}
        /\ operations'[o].commit = c
        /\ \A x \in DOMAIN durable : operations'[x] = durable[x]
        /\ durable' = durable \/ durable' = operations'
    BY <2>2, <2>3 DEF Put, Admitted
  <2>9. CommitsConsumePlans'
    BY <1>3, <1>6, <2>2, <2>3, <2>4, <2>5, <2>8
       DEF CommitsConsumePlans, Consumed
  <2> QED BY <1>2, <2>7, <2>9
<1>7. ASSUME up, up', \A o \in Operations : ~AdmissionStep(o)
      PROVE  CommitsConsumePlans' /\ OneOperationPerCommit'
  <2>1. /\ SameCommits(operations, operations')
        /\ SameCommits(durable, durable')
    BY <1>7, CommitsStay
  <2>2. /\ epoch' = epoch /\ prepared' \subseteq issued'
        /\ issued \ prepared \subseteq issued' \ prepared'
    BY <1>7, ConsumedStay DEF CommitsConsumePlans
  <2>3. CommitsConsumePlans'
    BY <1>7, <2>1, <2>2 DEF CommitsConsumePlans, SameCommits
  <2>4. Distinct(operations') /\ Distinct(durable')
    BY <1>1, <2>1, SameCommitsKeep
  <2> QED BY <1>2, <2>3, <2>4
<1> QED BY <1>4, <1>5, <1>6, <1>7

-----------------------------------------------------------------------------
(* The theorems                                                            *)

\* An empty journal is sound.
LEMMA InitWritten == Init => WrittenInv
<1> SUFFICES ASSUME Init PROVE WrittenInv
  OBVIOUS
<1>1. /\ DOMAIN durable = {} /\ DOMAIN operations = {}
      /\ call.at = "idle" /\ prepared = {} /\ issued = {} /\ ~up
      /\ durableSettled = {} /\ ownerSettled = {}
      /\ native = [o \in Operations |-> "idle"]
  BY NoCallIs DEF Init, EmptyMap
<1>2. IsFiniteSet({}) /\ Cardinality({}) = 0
  BY FS_EmptySet
<1>3. SoundJournal
  BY <1>1, <1>2, BoundsAssumption DEF SoundJournal
<1>4. AnswerHeld /\ CommitsConsumePlans
  BY <1>1 DEF AnswerHeld, CommitsConsumePlans
<1>5. EffectsFollowExecution /\ SettlementFollowsOutcome
  BY <1>1 DEF EffectsFollowExecution, SettlementFollowsOutcome
<1>6. OneOperationPerCommit
  BY <1>1 DEF OneOperationPerCommit
<1> QED BY <1>3, <1>4, <1>5, <1>6 DEF WrittenInv

\* Whatever a host writes, also before a crash and with its last append in
\* doubt, the invariant of the journal holds: the appends of open, commit,
\* advance, recover, cancel, handoff_session and settle_terminal keep it.
THEOREM WrittenInvariant == Spec => []WrittenInv
<1>1. Init => WrittenInv
  BY InitWritten
<1>2. IInv /\ IInv' /\ WrittenInv /\ [Next]_vars => WrittenInv'
  <2> SUFFICES ASSUME IInv, IInv', WrittenInv, [Next]_vars PROVE WrittenInv'
    OBVIOUS
  <2>1. SoundJournal'
    BY SoundJournalKept DEF WrittenInv
  <2>2. AnswerHeld'
    BY AnswerHeldKept DEF WrittenInv
  <2>3. CommitsConsumePlans' /\ OneOperationPerCommit'
    BY CommitsKept DEF WrittenInv
  <2>4. EffectsFollowExecution'
    BY EffectsKept DEF WrittenInv
  <2>5. SettlementFollowsOutcome'
    BY SettlementKept DEF WrittenInv
  <2> QED BY <2>1, <2>2, <2>3, <2>4, <2>5 DEF WrittenInv
<1> QED
  BY <1>1, <1>2, KernelInvariant, PTL DEF Spec

\* The native owner is at work only for operations the journal shows beyond
\* admission: a replay after any crash never takes work under way for a
\* pre-commit cancellation.
THEOREM EffectsAreRecorded == Spec => []EffectsFollowExecution
<1>1. WrittenInv => EffectsFollowExecution
  BY DEF WrittenInv
<1> QED
  BY <1>1, WrittenInvariant, PTL

\* A reservation is settled behind its durable outcome, and acknowledged only
\* once its owner settled it (settle_terminal).
THEOREM SettlementsAreOrdered == Spec => []SettlementFollowsOutcome
<1>1. WrittenInv => SettlementFollowsOutcome
  BY DEF WrittenInv
<1> QED
  BY <1>1, WrittenInvariant, PTL

\* commit admits one operation for an idempotency key and for a plan
\* reference, in memory and in the journal, across any number of hosts.
THEOREM CommitsAreUnique == Spec => []OneOperationPerCommit
<1>1. WrittenInv => OneOperationPerCommit
  BY DEF WrittenInv
<1> QED
  BY <1>1, WrittenInvariant, PTL

\* A step that changes the journal appends what replay accepts: a first record
\* that is admitted, or a change validate_transition allows, or a settlement
\* of a terminal operation that requires one.
LEMMA AppendsAreAcceptable ==
  ASSUME IInv, WrittenInv, WrittenInv', [Next]_vars
  PROVE  [AcceptableAppend]_journal
<1>1. /\ Cardinality(DOMAIN durable') <= MaxOperations
      /\ \A o \in DOMAIN durable' : WellFormed(durable'[o])
  BY DEF WrittenInv, SoundJournal, Sound
<1>2. \A o \in DOMAIN durable : durable[o] \in Records /\ Sound(durable[o])
  BY DEF IInv, TypeOK, WrittenInv, SoundJournal
<1>3. ASSUME NEW o \in Operations, NEW c \in CommitInputs, Admits(o, c),
             UNCHANGED durableSettled
      PROVE  AcceptableAppend
  <2>1. /\ DOMAIN durable' = DOMAIN durable \cup {o}
        /\ o \notin DOMAIN durable
        /\ durable'[o] = Admitted(c)
        /\ \A x \in DOMAIN durable : durable'[x] = durable[x]
    BY <1>3, AdmitsIs
  <2>2. durable'[o].phase = "admitted"
    BY <2>1 DEF Admitted
  <2> QED BY <1>1, <1>3, <2>1, <2>2 DEF AcceptableAppend
<1>4. ASSUME NEW o \in DOMAIN durable, NEW rec \in Records, Rewrites(o, rec),
             UNCHANGED durableSettled
      PROVE  AcceptableAppend
  <2>1. /\ DOMAIN durable' = DOMAIN durable
        /\ durable'[o] = rec
        /\ \A x \in DOMAIN durable : x # o => durable'[x] = durable[x]
    BY <1>4, RewritesIs
  <2>2. rec = durable[o] \/ ValidTransition(durable[o], rec)
    BY <1>2, <1>4, RewritesAreValid DEF Rewrites, WrittenInv
  <2> QED BY <1>1, <1>4, <2>1, <2>2 DEF AcceptableAppend
<1>5. ASSUME NEW o \in Operations, Acknowledges(o) PROVE AcceptableAppend
  <2>1. /\ o \in DOMAIN durable /\ UNCHANGED durable
        /\ durableSettled' \ durableSettled \subseteq {o}
        /\ durable[o].phase = "terminal" /\ RequiresSettlement(durable[o])
    BY <1>5 DEF Acknowledges, IInv, CallInProgress, SettlementPending
  <2> QED BY <1>1, <2>1 DEF AcceptableAppend
<1> QED
  BY <1>3, <1>4, <1>5, JournalStep

\* No sequence of legal calls, crashes and failed appends makes the journal
\* one that Engine::open refuses as corrupt, and no recorded outcome is ever
\* replaced (replay, validate_durable, validate_transition).
THEOREM JournalNeverCorrupts == Spec => JournalReplays
<1>1. IInv /\ WrittenInv /\ WrittenInv' /\ [Next]_vars
        => [AcceptableAppend]_journal
  BY AppendsAreAcceptable
<1> QED
  BY <1>1, KernelInvariant, WrittenInvariant, PTL DEF Spec, JournalReplays
=============================================================================
