------------------------- MODULE BridgeKernelProofs -------------------------
(***************************************************************************)
(* Theorems about BridgeKernel, for any operations, plans, keys, resources *)
(* and bounds.  The inductive invariant IInv says what the engine's memory *)
(* is worth against its journal at every point where a crash may come.     *)
(***************************************************************************)
EXTENDS BridgeKernel, TLAPS

-----------------------------------------------------------------------------
(* The inductive invariant                                                 *)

\* Blocks(o), said of the journal instead of the memory.
DurablyBlocks(o) ==
  \/ durable[o].phase # "terminal"
  \/ durable[o].session
  \/ RequiresSettlement(durable[o]) /\ o \notin durableSettled

\* A host that is down has no memory.
DownIsEmpty ==
  ~up => /\ operations = EmptyMap /\ workers = {} /\ unpublished = {}
         /\ interrupted = {} /\ call = NoCall /\ ~poisoned

\* Until the interrupted work is resolved the host holds no custody.
ResolvingHost ==
  /\ interrupted # {} => workers = {} /\ call = NoCall /\ ~poisoned
  /\ \A o \in interrupted : operations[o].phase # "terminal"

\* A healthy memory is the journal.
HealthyMemory ==
  up /\ ~poisoned => operations = durable /\ settled = durableSettled

\* What the journal would block after a crash, the memory blocks already,
\* under the same commit.
CoveringMemory ==
  up => /\ \A o \in DOMAIN durable :
             DurablyBlocks(o) => o \in DOMAIN operations /\ Blocks(o)
        /\ \A o \in DOMAIN durable \cap DOMAIN operations :
             durable[o].commit = operations[o].commit

\* Blocking operations own disjoint resources, in memory and in the journal.
MemoryDisjoint ==
  \A a, b \in DOMAIN operations :
    a # b /\ Blocks(a) /\ Blocks(b) =>
      ~Overlap(ResourcesOf(operations[a]), ResourcesOf(operations[b]))
JournalDisjoint ==
  \A a, b \in DOMAIN durable :
    a # b /\ DurablyBlocks(a) /\ DurablyBlocks(b) =>
      ~Overlap(ResourcesOf(durable[a]), ResourcesOf(durable[b]))

\* Custody is held only for operations that block, and for all in flight.
WorkersBlock == \A o \in workers : Blocks(o)
InFlightHeld ==
  \A o \in DOMAIN operations : InFlight(o) => o \in workers \cup interrupted

\* What an engine call in progress has established.
CallInProgress ==
  /\ call.at # "idle" =>
       /\ up /\ ~poisoned /\ interrupted = {}
       /\ call.op \in workers
  /\ call.at \in {"port", "finish"} =>
       operations[call.op].phase \in {"executing", "recovery"}
  /\ call.at = "settle" =>
       operations[call.op].phase = "terminal" /\ SettlementPending(call.op)
  /\ call.at = "handoff" => operations[call.op].session

IInv ==
  /\ TypeOK
  /\ DownIsEmpty /\ ResolvingHost /\ HealthyMemory /\ CoveringMemory
  /\ MemoryDisjoint /\ JournalDisjoint
  /\ WorkersBlock /\ InFlightHeld /\ CallInProgress

-----------------------------------------------------------------------------
(* Records and maps                                                        *)

\* The engine between two calls.
LEMMA NoCallIs == NoCall \in Calls /\ NoCall.at = "idle"
BY DEF NoCall, NoStep, Calls, Steps, Outcomes

\* Every change the kernel makes to a record keeps its type and its commit.
LEMMA ChangesKeepRecords ==
  ASSUME NEW rec \in Records
  PROVE  /\ Started(rec) \in Records /\ Started(rec).commit = rec.commit
         /\ Resolved(rec) \in Records /\ Resolved(rec).commit = rec.commit
         /\ CancelRecord(rec) \in Records
         /\ CancelRecord(rec).commit = rec.commit
         /\ HandedOff(rec) \in Records /\ HandedOff(rec).commit = rec.commit
BY DEF Records, Phases, Outcomes, Started, Resolved, CancelRecord, HandedOff

\* The records finish_step may write have their type and keep the commit.
LEMMA StepRecordsKeep ==
  ASSUME TypeOK, NEW o \in DOMAIN operations, NEW step \in Steps,
         NEW rec \in StepRecords(o, step)
  PROVE  rec \in Records /\ rec.commit = operations[o].commit
<1>1. operations[o] \in Records
  BY DEF TypeOK
<1>2. Completed(operations[o], step) \in Records
      /\ Completed(operations[o], step).commit = operations[o].commit
  BY <1>1 DEF Completed, Records, Steps, Phases, Outcomes
<1>3. ASSUME NEW safe \in BOOLEAN, NEW session \in BOOLEAN
      PROVE  Unresolved(o, operations[o], safe, session) \in Records
             /\ Unresolved(o, operations[o], safe, session).commit
                  = operations[o].commit
  BY <1>1 DEF Unresolved, Records, Phases, Outcomes
<1>4. step.safe \in BOOLEAN /\ step.session \in BOOLEAN
      /\ step.cancellable \in BOOLEAN /\ operations[o].session \in BOOLEAN
  BY <1>1 DEF Steps, Records
<1>5. CASE step.kind = "progress"
  BY <1>1, <1>4, <1>5 DEF StepRecords, Records, Phases, Outcomes
<1>6. CASE step.kind = "complete"
  <2>1. rec \in {Completed(operations[o], step),
                 Unresolved(o, operations[o], TRUE, step.session)}
    BY <1>6 DEF StepRecords
  <2> QED
    BY <2>1, <1>2, <1>3, <1>4
<1>7. CASE step.kind \notin {"progress", "complete"}
  <2>1. rec = Unresolved(o, operations[o], step.safe, operations[o].session)
    BY <1>7 DEF StepRecords
  <2> QED
    BY <2>1, <1>3, <1>4
<1> QED
  BY <1>5, <1>6, <1>7

-----------------------------------------------------------------------------
(* What appends and resets do to the memory and the journal                *)

\* The part of IInv that relates the engine's memory to its journal.
MemoryAndJournal ==
  /\ HealthyMemory /\ CoveringMemory /\ MemoryDisjoint /\ JournalDisjoint

\* The type of the two maps.
MapsOK ==
  /\ DOMAIN operations \subseteq Operations
  /\ \A o \in DOMAIN operations : operations[o] \in Records
  /\ DOMAIN durable \subseteq Operations
  /\ \A o \in DOMAIN durable : durable[o] \in Records

\* Rewriting a blocking operation in memory and in the journal keeps them
\* equal, and blocks nothing that was not blocked before.
LEMMA PersistKeeps ==
  ASSUME IInv, up, ~poisoned, up', ~poisoned',
         NEW o \in DOMAIN operations, NEW rec \in Records,
         rec.commit = operations[o].commit, Blocks(o), Persist(o, rec),
         settled' = settled, durableSettled' = durableSettled
  PROVE  MemoryAndJournal' /\ MapsOK'
<1>1. operations = durable /\ settled = durableSettled
  BY DEF IInv, HealthyMemory
<1>2. /\ DOMAIN operations' = DOMAIN operations
      /\ operations'[o] = rec
      /\ \A x \in DOMAIN operations : x # o => operations'[x] = operations[x]
      /\ durable' = operations'
  <2>1. operations' = Put(operations, o, rec) /\ durable' = operations'
    BY <1>1 DEF Persist
  <2>2. /\ DOMAIN Put(operations, o, rec) = DOMAIN operations
        /\ Put(operations, o, rec)[o] = rec
        /\ \A x \in DOMAIN operations :
             x # o => Put(operations, o, rec)[x] = operations[x]
    BY DEF Put
  <2> QED
    BY <2>1, <2>2
<1>3. \A x \in DOMAIN operations :
        /\ operations'[x].commit = operations[x].commit
        /\ Blocks(x)' => Blocks(x)
        /\ DurablyBlocks(x)' <=> Blocks(x)'
  BY <1>1, <1>2 DEF Blocks, DurablyBlocks, SettlementPending,
                    RequiresSettlement
<1>4. HealthyMemory'
  BY <1>1, <1>2 DEF HealthyMemory
<1>5. CoveringMemory'
  BY <1>2, <1>3 DEF CoveringMemory
<1>6. MemoryDisjoint'
  BY <1>2, <1>3 DEF IInv, MemoryDisjoint, ResourcesOf, Overlap
<1>7. JournalDisjoint'
  BY <1>2, <1>3, <1>6 DEF MemoryDisjoint, JournalDisjoint
<1>8. MapsOK'
  BY <1>1, <1>2 DEF IInv, TypeOK, MapsOK
<1> QED
  BY <1>4, <1>5, <1>6, <1>7, <1>8 DEF MemoryAndJournal

\* An append that is left uncertain for a blocking operation: the memory goes
\* on blocking it, whatever the journal has come to say.
LEMMA UncertainKeeps ==
  ASSUME IInv, up, ~poisoned, up',
         NEW o \in DOMAIN operations, NEW rec \in Records,
         rec.commit = operations[o].commit, Blocks(o),
         PersistUncertain(o, rec),
         settled' = settled, durableSettled' = durableSettled
  PROVE  MemoryAndJournal' /\ MapsOK'
<1>1. operations = durable /\ settled = durableSettled
  BY DEF IInv, HealthyMemory
<1>2. operations' = operations /\ poisoned'
  BY DEF PersistUncertain
<1>3. /\ DOMAIN durable' = DOMAIN durable
      /\ durable'[o] \in {durable[o], rec}
      /\ \A x \in DOMAIN durable : x # o => durable'[x] = durable[x]
  <2>1. o \in DOMAIN durable /\ durable' \in {durable, Put(durable, o, rec)}
    BY <1>1 DEF PersistUncertain
  <2>2. /\ DOMAIN Put(durable, o, rec) = DOMAIN durable
        /\ Put(durable, o, rec)[o] = rec
        /\ \A x \in DOMAIN durable :
             x # o => Put(durable, o, rec)[x] = durable[x]
    BY <2>1 DEF Put
  <2>3. CASE durable' = Put(durable, o, rec)
    BY <2>2, <2>3
  <2> QED
    BY <2>1, <2>3
<1>4. \A x \in DOMAIN operations : Blocks(x)' <=> Blocks(x)
  BY <1>2 DEF Blocks, SettlementPending, RequiresSettlement
<1>5. \A x \in DOMAIN durable :
        /\ durable'[x].commit = operations'[x].commit
        /\ DurablyBlocks(x)' => Blocks(x)'
  BY <1>1, <1>2, <1>3, <1>4
     DEF Blocks, DurablyBlocks, SettlementPending, RequiresSettlement
<1>6. HealthyMemory'
  BY <1>2 DEF HealthyMemory
<1>7. CoveringMemory'
  BY <1>1, <1>2, <1>3, <1>5 DEF CoveringMemory
<1>8. MemoryDisjoint'
  BY <1>2, <1>4 DEF IInv, MemoryDisjoint, ResourcesOf, Overlap
<1>9. JournalDisjoint'
  BY <1>1, <1>2, <1>3, <1>5, <1>8
     DEF MemoryDisjoint, JournalDisjoint, ResourcesOf, Overlap
<1>10. MapsOK'
  BY <1>1, <1>2, <1>3 DEF IInv, TypeOK, MapsOK
<1> QED
  BY <1>6, <1>7, <1>8, <1>9, <1>10 DEF MemoryAndJournal

\* A step that leaves memory, journal, process and poison alone.
LEMMA UnchangedKeeps ==
  ASSUME IInv, up' = up, poisoned' = poisoned,
         UNCHANGED <<operations, settled, durable, durableSettled>>
  PROVE  MemoryAndJournal' /\ MapsOK'
<1>1. \A x : Blocks(x)' <=> Blocks(x)
  BY DEF Blocks, SettlementPending, RequiresSettlement
<1>2. \A x : DurablyBlocks(x)' <=> DurablyBlocks(x)
  BY DEF DurablyBlocks, RequiresSettlement
<1> QED
  BY <1>1, <1>2
     DEF IInv, MemoryAndJournal, MapsOK, TypeOK, HealthyMemory,
         CoveringMemory, MemoryDisjoint, JournalDisjoint, ResourcesOf,
         Overlap

\* A process that ends leaves a journal of disjoint obligations.
LEMMA ResetKeeps ==
  ASSUME IInv, up' = FALSE, ResetMemory, interrupted' = {},
         durableSettled' = durableSettled, JournalDisjoint',
         DOMAIN durable' = DOMAIN durable,
         \A o \in DOMAIN durable' : durable'[o] \in Records,
         UNCHANGED epoch, UNCHANGED owner
  PROVE  IInv'
<1>1. DOMAIN operations' = {}
  BY DEF ResetMemory, EmptyMap
<1>2. call' \in Calls
  BY DEF ResetMemory, NoCall, NoStep, Calls, Steps, Outcomes
<1>3. TypeOK'
  <2>1. /\ up' \in BOOLEAN /\ epoch' \in Nat
        /\ closing' \in BOOLEAN /\ poisoned' \in BOOLEAN
        /\ lastAdvanced' \in Nat /\ workers' = {} /\ unpublished' = {}
        /\ prepared' = {} /\ expired' = {} /\ issued' = {} /\ settled' = {}
    BY DEF IInv, TypeOK, ResetMemory
  <2>2. /\ durableSettled' \subseteq DOMAIN durable'
        /\ DOMAIN durable' \subseteq Operations
        /\ native' \in [Operations -> NativeStates]
        /\ sessionAt' \in [Operations -> Custodians]
        /\ ownerSettled' \subseteq Operations
    BY DEF IInv, TypeOK, owner
  <2> QED
    BY <1>1, <1>2, <2>1, <2>2 DEF TypeOK
<1>4. DownIsEmpty' /\ ResolvingHost' /\ HealthyMemory' /\ CoveringMemory'
  BY DEF DownIsEmpty, ResolvingHost, HealthyMemory, CoveringMemory,
         ResetMemory
<1>5. MemoryDisjoint' /\ WorkersBlock' /\ InFlightHeld'
  BY <1>1 DEF MemoryDisjoint, WorkersBlock, InFlightHeld, ResetMemory
<1>6. CallInProgress'
  BY DEF CallInProgress, ResetMemory, NoCall
<1> QED
  BY <1>3, <1>4, <1>5, <1>6 DEF IInv

\* Dropping the worker with the last obligation leaves custody exactly for
\* what blocks, and for everything in flight.
LEMMA WorkersAfterKeep ==
  ASSUME IInv, NEW o \in workers, NEW rec,
         operations' = Put(operations, o, rec),
         workers' = WorkersAfter(o, rec),
         settled' = settled, interrupted' = interrupted
  PROVE  WorkersBlock' /\ InFlightHeld' /\ workers' \subseteq workers
<1>1. o \in DOMAIN operations
  BY DEF IInv, TypeOK
<1>2. /\ DOMAIN operations' = DOMAIN operations
      /\ operations'[o] = rec
      /\ \A x \in DOMAIN operations : x # o => operations'[x] = operations[x]
  BY <1>1 DEF Put
<1>3. workers' \subseteq workers
      /\ \A x \in workers : x # o => x \in workers'
  BY DEF WorkersAfter
<1>4. \A x \in DOMAIN operations :
        x # o => /\ Blocks(x)' <=> Blocks(x)
                 /\ InFlight(x)' <=> InFlight(x)
  BY <1>2 DEF Blocks, SettlementPending, RequiresSettlement, InFlight
<1>5. o \in workers' => Blocks(o)'
  BY <1>1, <1>2 DEF WorkersAfter, Blocks, SettlementPending,
                    RequiresSettlement
<1>6. InFlight(o)' => o \in workers'
  BY <1>1, <1>2 DEF WorkersAfter, InFlight
<1>7. WorkersBlock'
  BY <1>3, <1>4, <1>5 DEF WorkersBlock, IInv, TypeOK
<1>8. InFlightHeld'
  BY <1>2, <1>3, <1>4, <1>6 DEF InFlightHeld, IInv
<1> QED
  BY <1>3, <1>7, <1>8

\* A whole step whose append of a blocking operation is left uncertain.
LEMMA UncertainStepKeeps ==
  ASSUME IInv, up, ~poisoned, interrupted = {},
         NEW o \in DOMAIN operations, NEW rec \in Records,
         rec.commit = operations[o].commit, Blocks(o),
         PersistUncertain(o, rec),
         call' = NoCall \/ (call.at = "idle" /\ call' = call),
         UNCHANGED <<process, settled, workers, unpublished, prepared, expired,
                     issued, lastAdvanced, closing, durableSettled, owner>>
  PROVE  IInv'
<1>1. MemoryAndJournal' /\ MapsOK'
  BY UncertainKeeps DEF process
<1>2. /\ operations' = operations /\ poisoned' = TRUE
      /\ DOMAIN durable \subseteq DOMAIN durable'
  BY DEF PersistUncertain, Put
<1>3. call' \in Calls /\ call'.at = "idle"
  BY NoCallIs DEF IInv, TypeOK
<1>4. TypeOK'
  BY <1>1, <1>2, <1>3 DEF IInv, TypeOK, MapsOK, process, owner
<1>5. \A x : /\ Blocks(x)' <=> Blocks(x)
             /\ InFlight(x)' <=> InFlight(x)
  BY <1>2 DEF Blocks, SettlementPending, RequiresSettlement, InFlight
<1>6. DownIsEmpty' /\ ResolvingHost' /\ WorkersBlock' /\ InFlightHeld'
  BY <1>2, <1>5 DEF DownIsEmpty, ResolvingHost, WorkersBlock, InFlightHeld,
                    IInv, process
<1>7. CallInProgress'
  BY <1>3 DEF CallInProgress
<1> QED
  BY <1>1, <1>4, <1>6, <1>7 DEF IInv, MemoryAndJournal

-----------------------------------------------------------------------------
(* The invariant holds initially and every action keeps it                 *)

LEMMA InitInv == Init => IInv
<1> SUFFICES ASSUME Init PROVE IInv
  OBVIOUS
<1>1. DOMAIN operations = {} /\ DOMAIN durable = {}
  BY DEF Init, EmptyMap
<1>2. call \in Calls /\ call.at = "idle"
  BY DEF Init, NoCall, NoStep, Calls, Steps, Outcomes
<1>3. TypeOK
  BY <1>1, <1>2 DEF Init, TypeOK, NativeStates, Custodians
<1>4. DownIsEmpty /\ ResolvingHost /\ HealthyMemory /\ CoveringMemory
  BY DEF Init, DownIsEmpty, ResolvingHost, HealthyMemory, CoveringMemory
<1>5. MemoryDisjoint /\ JournalDisjoint /\ WorkersBlock /\ InFlightHeld
  BY <1>1 DEF MemoryDisjoint, JournalDisjoint, WorkersBlock, InFlightHeld,
              Init
<1>6. CallInProgress
  BY <1>2 DEF CallInProgress
<1> QED
  BY <1>3, <1>4, <1>5, <1>6 DEF IInv

\* Steps that change neither memory nor journal nor what a call holds.
LEMMA QuietStepKeeps ==
  ASSUME IInv, UNCHANGED <<process, memory, journal, poisoned, call, owner>>,
         prepared' \subseteq Plans, expired' \subseteq prepared',
         issued' \subseteq Plans, closing' \in BOOLEAN, lastAdvanced' \in Nat
  PROVE  IInv'
<1>1. MemoryAndJournal'
  BY UnchangedKeeps DEF process, memory, journal
<1>2. TypeOK'
  BY DEF IInv, TypeOK, process, memory, journal, owner
<1>3. \A x : /\ Blocks(x)' <=> Blocks(x)
             /\ InFlight(x)' <=> InFlight(x)
             /\ SettlementPending(x)' <=> SettlementPending(x)
  BY DEF memory, Blocks, SettlementPending, RequiresSettlement, InFlight
<1>4. DownIsEmpty' /\ ResolvingHost' /\ WorkersBlock' /\ InFlightHeld'
  BY <1>3 DEF IInv, DownIsEmpty, ResolvingHost, WorkersBlock, InFlightHeld,
              process, memory
<1>5. CallInProgress'
  BY <1>3 DEF IInv, CallInProgress, process, memory
<1> QED
  BY <1>1, <1>2, <1>4, <1>5 DEF IInv, MemoryAndJournal

\* A plan's expiry, preparation or refusal changes no operation.
LEMMA PlanStepKeeps == IInv /\ PlanStep => IInv'
<1> SUFFICES ASSUME IInv, PlanStep PROVE IInv'
  OBVIOUS
<1>1. ASSUME NEW p \in Plans, Expire(p) PROVE IInv'
  BY <1>1, QuietStepKeeps
     DEF Expire, IInv, TypeOK, process, memory, journal, owner
<1>2. ASSUME NEW p \in Plans, Prepare(p) PROVE IInv'
  BY <1>2, QuietStepKeeps
     DEF Prepare, IInv, TypeOK, process, memory, journal, owner
<1>3. ASSUME PrepareRefused PROVE IInv'
  BY <1>3, QuietStepKeeps
     DEF PrepareRefused, IInv, TypeOK, process, memory, journal, owner
<1>4. ASSUME NEW c \in CommitInputs, CommitExpired(c) PROVE IInv'
  BY <1>4, QuietStepKeeps
     DEF CommitExpired, IInv, TypeOK, process, memory, journal, owner
<1> QED
  BY <1>1, <1>2, <1>3, <1>4 DEF PlanStep

\* Opening, resolving, closing, exiting and crashing.
LEMMA HostStepKeeps == IInv /\ HostStep => IInv'
<1> SUFFICES ASSUME IInv, HostStep PROVE IInv'
  OBVIOUS
<1>1. ASSUME Open PROVE IInv'
  <2> USE <1>1
  <2>1. /\ up' = TRUE /\ poisoned' = FALSE
        /\ operations' = durable /\ settled' = durableSettled
        /\ durable' = durable /\ durableSettled' = durableSettled
        /\ workers' = {} /\ unpublished' = {} /\ call' = NoCall
        /\ interrupted' = InterruptedIn(durable)
    BY DEF Open, IInv, TypeOK, DownIsEmpty, journal
  <2>2. TypeOK'
    BY <2>1 DEF Open, IInv, TypeOK, InterruptedIn, plans, owner
  <2>3. \A x : Blocks(x)' <=> DurablyBlocks(x)
    BY <2>1 DEF Blocks, DurablyBlocks, SettlementPending, RequiresSettlement
  <2>4. \A x : DurablyBlocks(x)' <=> DurablyBlocks(x)
    BY <2>1 DEF DurablyBlocks, RequiresSettlement
  <2>5. DownIsEmpty' /\ ResolvingHost' /\ HealthyMemory' /\ CoveringMemory'
    BY <2>1, <2>3, <2>4
       DEF DownIsEmpty, ResolvingHost, HealthyMemory, CoveringMemory,
           InterruptedIn
  <2>6. MemoryDisjoint' /\ JournalDisjoint'
    BY <2>1, <2>3, <2>4
       DEF IInv, MemoryDisjoint, JournalDisjoint, ResourcesOf, Overlap
  <2>7. WorkersBlock' /\ InFlightHeld'
    BY <2>1 DEF WorkersBlock, InFlightHeld, InFlight, InterruptedIn
  <2>8. CallInProgress'
    BY <2>1 DEF CallInProgress, NoCall
  <2> QED
    BY <2>2, <2>5, <2>6, <2>7, <2>8 DEF IInv
<1>2. ASSUME RequestHostClose PROVE IInv'
  BY <1>2, QuietStepKeeps DEF RequestHostClose, IInv, TypeOK, plans
<1>3. ASSUME Exit \/ Crash PROVE IInv'
  <2>1. /\ up' = FALSE /\ ResetMemory /\ interrupted' = {}
        /\ durable' = durable /\ durableSettled' = durableSettled
        /\ UNCHANGED epoch /\ UNCHANGED owner
    BY <1>3 DEF Exit, Crash, Idle, Serving, journal
  <2>2. JournalDisjoint'
    BY <2>1 DEF IInv, JournalDisjoint, DurablyBlocks, RequiresSettlement,
                ResourcesOf, Overlap
  <2> QED
    BY <2>1, <2>2, ResetKeeps DEF IInv, TypeOK
<1>4. ASSUME NEW o \in Operations, ResolveInterrupted(o) PROVE IInv'
  <2> USE <1>4
  <2>1. /\ up = TRUE /\ up' = TRUE /\ o \in interrupted
        /\ workers = {} /\ call = NoCall /\ poisoned = FALSE
        /\ poisoned' = FALSE /\ workers' = {} /\ call' = NoCall
        /\ unpublished' = {}
        /\ interrupted' = interrupted \ {o}
        /\ settled' = settled /\ durableSettled' = durableSettled
        /\ Persist(o, Resolved(operations[o]))
    BY DEF ResolveInterrupted, Persist, IInv, TypeOK, ResolvingHost
  <2>2. /\ o \in DOMAIN operations /\ operations[o] \in Records
        /\ operations[o].phase # "terminal"
    BY <2>1 DEF IInv, TypeOK, ResolvingHost
  <2>3. Resolved(operations[o]) \in Records
        /\ Resolved(operations[o]).commit = operations[o].commit
        /\ Resolved(operations[o]).phase \in {"terminal", "recovery"}
    BY <2>2, ChangesKeepRecords DEF Resolved, Records
  <2>4. MemoryAndJournal' /\ MapsOK'
    BY <2>1, <2>2, <2>3, PersistKeeps DEF Blocks
  <2>5. /\ DOMAIN operations' = DOMAIN operations
        /\ operations'[o] = Resolved(operations[o])
        /\ \A x \in DOMAIN operations : x # o => operations'[x] = operations[x]
        /\ DOMAIN durable \subseteq DOMAIN durable'
    BY <2>1, <2>2 DEF Persist, Put
  <2>6. TypeOK'
    BY <2>1, <2>4, <2>5
       DEF IInv, TypeOK, MapsOK, ResolveInterrupted, plans, owner
  <2>7. DownIsEmpty' /\ ResolvingHost' /\ WorkersBlock'
    BY <2>1, <2>5 DEF IInv, TypeOK, DownIsEmpty, ResolvingHost, WorkersBlock
  <2>8. InFlightHeld'
    BY <2>1, <2>3, <2>5 DEF IInv, InFlightHeld, InFlight
  <2>9. CallInProgress'
    BY <2>1 DEF CallInProgress, NoCall
  <2> QED
    BY <2>4, <2>6, <2>7, <2>8, <2>9 DEF IInv, MemoryAndJournal
<1>5. ASSUME NEW o \in Operations, ResolveFails(o) PROVE IInv'
  <2> USE <1>5
  <2>1. /\ up = TRUE /\ poisoned = FALSE /\ up' = FALSE /\ interrupted' = {}
        /\ ResetMemory /\ durableSettled' = durableSettled
        /\ UNCHANGED epoch /\ UNCHANGED owner
    BY DEF ResolveFails, IInv, TypeOK, ResolvingHost
  <2>2. operations = durable /\ settled = durableSettled
    BY <2>1 DEF IInv, HealthyMemory
  <2>3. /\ o \in DOMAIN durable /\ durable[o] \in Records
        /\ durable[o].phase # "terminal"
    BY <2>2 DEF ResolveFails, IInv, TypeOK, ResolvingHost
  <2>4. Resolved(durable[o]) \in Records
        /\ Resolved(durable[o]).commit = durable[o].commit
    BY <2>3, ChangesKeepRecords
  <2>5. /\ DOMAIN durable' = DOMAIN durable
        /\ durable'[o] \in {durable[o], Resolved(durable[o])}
        /\ \A x \in DOMAIN durable : x # o => durable'[x] = durable[x]
    BY <2>2, <2>3 DEF ResolveFails, Put
  <2>6. \A x \in DOMAIN durable :
          /\ durable'[x].commit = durable[x].commit
          /\ DurablyBlocks(x)' => DurablyBlocks(x)
    BY <2>1, <2>3, <2>4, <2>5 DEF DurablyBlocks, RequiresSettlement
  <2>7. JournalDisjoint'
    BY <2>5, <2>6 DEF IInv, JournalDisjoint, ResourcesOf, Overlap
  <2>8. \A x \in DOMAIN durable' : durable'[x] \in Records
    BY <2>4, <2>5 DEF IInv, TypeOK
  <2> QED
    BY <2>1, <2>5, <2>7, <2>8, ResetKeeps
<1> QED
  BY <1>1, <1>2, <1>3, <1>4, <1>5 DEF HostStep

\* Admission gives the new operation resources no blocking one owns.
LEMMA AdmissionKeeps ==
  ASSUME IInv, NEW o \in Operations, AdmissionStep(o)
  PROVE  IInv'
<1>1. PICK c \in CommitInputs : Commit(o, c) \/ CommitUncertain(o, c)
  BY DEF AdmissionStep
<1> DEFINE rec == Admitted(c)
<1>2. /\ Idle /\ ~poisoned /\ NoConflict(PlanResources[c.plan])
      /\ o \notin DOMAIN operations
      /\ workers' = workers \cup {o}
      /\ operations' = Put(operations, o, rec)
      /\ durable' \in {durable, Put(durable, o, rec)}
      /\ ~poisoned' => durable' = Put(durable, o, rec)
      /\ poisoned' \in BOOLEAN
      /\ UNCHANGED <<process, settled, unpublished, expired, issued, call,
                     lastAdvanced, closing, durableSettled, owner>>
      /\ prepared' = prepared \ {c.plan}
      /\ c.plan \in prepared \ expired
  BY <1>1 DEF Commit, CommitUncertain, Admissible, RequireOpen, Persist,
              IInv, TypeOK
<1>3. /\ operations = durable /\ settled = durableSettled
      /\ up /\ up' = up /\ interrupted = {} /\ interrupted' = {}
      /\ call = NoCall \/ call.at = "idle"
  BY <1>2 DEF Idle, Serving, process, IInv, HealthyMemory
<1>4. rec \in Records /\ rec.phase = "admitted" /\ rec.commit = c
  BY DEF Admitted, Records, Commits, CommitInputs, Phases, Outcomes
<1>5. /\ DOMAIN operations' = DOMAIN operations \cup {o}
      /\ operations'[o] = rec
      /\ \A x \in DOMAIN operations : operations'[x] = operations[x]
  BY <1>2 DEF Put
<1>6. /\ durable' = durable \/ durable' = operations'
      /\ ~poisoned' => durable' = operations'
  BY <1>2, <1>3
<1>7. \A x \in DOMAIN operations :
        /\ Blocks(x)' <=> Blocks(x)
        /\ InFlight(x)' <=> InFlight(x)
  BY <1>2, <1>5 DEF Blocks, SettlementPending, RequiresSettlement, InFlight
<1>8. Blocks(o)'
  BY <1>4, <1>5 DEF Blocks
<1>9. \A x \in DOMAIN durable' : DurablyBlocks(x)' => Blocks(x)'
  BY <1>2, <1>3, <1>5, <1>6
     DEF Blocks, DurablyBlocks, SettlementPending, RequiresSettlement
<1>10. TypeOK'
  <2>1. \A x \in DOMAIN operations' : operations'[x] \in Records
    BY <1>4, <1>5 DEF IInv, TypeOK
  <2>2. DOMAIN operations' \subseteq Operations
    BY <1>5 DEF IInv, TypeOK
  <2>3. /\ DOMAIN durable' \subseteq Operations
        /\ \A x \in DOMAIN durable' : durable'[x] \in Records
        /\ durableSettled' \subseteq DOMAIN durable'
    BY <1>2, <1>3, <1>5, <1>6, <2>1, <2>2 DEF IInv, TypeOK
  <2>4. /\ workers' \subseteq DOMAIN operations'
        /\ unpublished' \subseteq workers'
        /\ interrupted' \subseteq DOMAIN operations'
        /\ prepared' \subseteq Plans /\ expired' \subseteq prepared'
    BY <1>2, <1>3, <1>5 DEF IInv, TypeOK
  <2> QED
    BY <1>2, <2>1, <2>2, <2>3, <2>4 DEF IInv, TypeOK, process, owner
<1>11. DownIsEmpty' /\ ResolvingHost' /\ HealthyMemory'
  BY <1>2, <1>3, <1>6 DEF DownIsEmpty, ResolvingHost, HealthyMemory
<1>12. CoveringMemory'
  BY <1>3, <1>5, <1>6, <1>9 DEF CoveringMemory
<1>13. MemoryDisjoint'
  <2>1. \A x \in DOMAIN operations :
          Blocks(x) => ~Overlap(ResourcesOf(rec), ResourcesOf(operations[x]))
    BY <1>2, <1>4 DEF NoConflict, ResourcesOf
  <2> QED
    BY <1>5, <1>7, <2>1
       DEF IInv, MemoryDisjoint, ResourcesOf, Overlap
<1>14. JournalDisjoint'
  BY <1>3, <1>5, <1>6, <1>9, <1>13
     DEF MemoryDisjoint, JournalDisjoint, ResourcesOf, Overlap
<1>15. WorkersBlock' /\ InFlightHeld'
  BY <1>2, <1>3, <1>5, <1>7, <1>8
     DEF IInv, TypeOK, WorkersBlock, InFlightHeld
<1>16. CallInProgress'
  BY <1>2 DEF CallInProgress, Idle
<1> QED
  BY <1>10, <1>11, <1>12, <1>13, <1>14, <1>15, <1>16 DEF IInv

\* A pump step: starting an operation, calling its owner, settling it.
LEMMA PumpKeeps ==
  ASSUME IInv, NEW o \in Operations, PumpStep(o)
  PROVE  IInv'
<1>1. /\ Idle /\ ~poisoned /\ up /\ interrupted = {}
      /\ o \in DOMAIN operations /\ operations[o] \in Records
      /\ InFlight(o) \/ SettlementDue(o)
      /\ o \in Nat
  BY OperationsAssumption
     DEF PumpStep, Advance, AdvanceUncertain, SettlementRetained,
         OwnerSettles, PumpMay, Idle, Serving, IsNextReady, Ready, IInv, TypeOK
<1>2. Blocks(o)
  BY <1>1 DEF InFlight, SettlementDue, Blocks
<1>3. Started(operations[o]) \in Records
      /\ Started(operations[o]).commit = operations[o].commit
  BY <1>1, ChangesKeepRecords
<1>4. ASSUME Advance(o) PROVE IInv'
  <2> USE <1>4
  <2>1. /\ Persist(o, Started(operations[o]))
        /\ UNCHANGED <<process, settled, workers, unpublished, plans,
                       lastAdvanced, closing, durableSettled, owner>>
        /\ call' = [NoCall EXCEPT !.at = "port", !.op = o]
        /\ poisoned' = poisoned /\ InFlight(o)
    BY DEF Advance, Persist
  <2>2. MemoryAndJournal' /\ MapsOK'
    BY <1>1, <1>2, <1>3, <2>1, PersistKeeps DEF process
  <2>3. /\ DOMAIN operations' = DOMAIN operations
        /\ operations'[o] = Started(operations[o])
        /\ \A x \in DOMAIN operations :
             x # o => operations'[x] = operations[x]
        /\ DOMAIN durable \subseteq DOMAIN durable'
    BY <1>1, <2>1 DEF Persist, Put
  <2>4. call' \in Calls /\ call'.at = "port" /\ call'.op = o
    BY <2>1 DEF NoCall, NoStep, Calls, Steps, Outcomes
  <2>5. TypeOK'
    BY <2>1, <2>2, <2>3, <2>4
       DEF IInv, TypeOK, MapsOK, process, plans, owner
  <2>6. Started(operations[o]).phase = "executing" /\ o \in workers
    BY <1>1, <2>1 DEF Started, InFlight, Records, IInv, InFlightHeld
  <2>7. \A x \in DOMAIN operations :
          x # o => /\ Blocks(x)' <=> Blocks(x)
                   /\ InFlight(x)' <=> InFlight(x)
    BY <2>1, <2>3 DEF Blocks, SettlementPending, RequiresSettlement, InFlight
  <2>8. Blocks(o)'
    BY <2>3, <2>6 DEF Blocks
  <2>9. DownIsEmpty' /\ ResolvingHost' /\ WorkersBlock' /\ InFlightHeld'
    BY <1>1, <2>1, <2>3, <2>6, <2>7, <2>8
       DEF DownIsEmpty, ResolvingHost, WorkersBlock, InFlightHeld, IInv,
           TypeOK, process
  <2>10. CallInProgress'
    BY <1>1, <2>1, <2>3, <2>4, <2>6 DEF CallInProgress, process
  <2> QED
    BY <2>2, <2>5, <2>9, <2>10 DEF IInv, MemoryAndJournal
<1>5. ASSUME AdvanceUncertain(o) PROVE IInv'
  BY <1>1, <1>2, <1>3, <1>5, UncertainStepKeeps
     DEF AdvanceUncertain, Idle, plans, process, owner
<1>6. ASSUME SettlementRetained(o) \/ OwnerSettles(o) PROVE IInv'
  <2> USE <1>6
  <2>1. /\ workers' \in {workers, workers \cup {o}}
        /\ UNCHANGED <<process, operations, settled, unpublished, plans,
                       closing, poisoned, journal, native, sessionAt>>
        /\ lastAdvanced' \in Nat
        /\ ownerSettled' \subseteq Operations
        /\ operations[o].phase = "terminal" /\ SettlementPending(o)
    BY <1>1 DEF SettlementRetained, OwnerSettles, SettlementDue, IInv, TypeOK,
                owner
  <2>2. /\ call' \in Calls
        /\ \/ call' = call
           \/ call'.at = "settle" /\ call'.op = o /\ o \in workers'
    <3>1. CASE SettlementRetained(o)
      BY <3>1 DEF SettlementRetained, IInv, TypeOK
    <3>2. CASE OwnerSettles(o)
      BY <3>2 DEF OwnerSettles, NoCall, NoStep, Calls, Steps, Outcomes
    <3> QED
      BY <3>1, <3>2
  <2>3. MemoryAndJournal'
    BY <2>1, UnchangedKeeps DEF process, journal
  <2>4. TypeOK'
    BY <1>1, <2>1, <2>2 DEF IInv, TypeOK, process, plans, journal
  <2>5. \A x : /\ Blocks(x)' <=> Blocks(x)
               /\ InFlight(x)' <=> InFlight(x)
               /\ SettlementPending(x)' <=> SettlementPending(x)
    BY <2>1 DEF Blocks, SettlementPending, RequiresSettlement, InFlight
  <2>6. DownIsEmpty' /\ ResolvingHost' /\ WorkersBlock' /\ InFlightHeld'
    BY <1>1, <1>2, <2>1, <2>5
       DEF DownIsEmpty, ResolvingHost, WorkersBlock, InFlightHeld, IInv,
           process
  <2>7. CallInProgress'
    BY <1>1, <2>1, <2>2, <2>5 DEF CallInProgress, Idle, process
  <2> QED
    BY <2>3, <2>4, <2>6, <2>7 DEF IInv, MemoryAndJournal
<1> QED
  BY <1>4, <1>5, <1>6 DEF PumpStep

\* The owner's answer changes neither the memory nor the journal.
LEMMA PortReturnsKeeps ==
  ASSUME IInv, NEW o \in Operations, PortReturns(o)
  PROVE  IInv'
<1>1. PICK step \in PortSteps, n \in NativeStates, s \in Custodians :
        /\ native' = [native EXCEPT ![o] = n]
        /\ sessionAt' = [sessionAt EXCEPT ![o] = s]
        /\ call' = [call EXCEPT !.at = "finish", !.step = step]
        /\ unpublished' \in {unpublished, unpublished \cup {o}}
  BY DEF PortReturns
<1>2. /\ call.at = "port" /\ call.op = o /\ o \in workers
      /\ operations[o].phase \in {"executing", "recovery"}
      /\ UNCHANGED <<process, operations, settled, workers, plans,
                     lastAdvanced, closing, poisoned, journal, ownerSettled>>
  BY DEF PortReturns, IInv, CallInProgress
<1>3. step \in Steps
  BY DEF PortSteps
<1>4. call' \in Calls /\ call'.at = "finish" /\ call'.op = o
  BY <1>1, <1>2, <1>3 DEF IInv, TypeOK, Calls
<1>5. MemoryAndJournal'
  BY <1>2, UnchangedKeeps DEF process, journal
<1>6. TypeOK'
  BY <1>1, <1>2, <1>4 DEF IInv, TypeOK, process, plans, journal
<1>7. \A x : /\ Blocks(x)' <=> Blocks(x)
             /\ InFlight(x)' <=> InFlight(x)
  BY <1>2 DEF Blocks, SettlementPending, RequiresSettlement, InFlight
<1>8. DownIsEmpty' /\ ResolvingHost' /\ WorkersBlock' /\ InFlightHeld'
  BY <1>2, <1>7 DEF DownIsEmpty, ResolvingHost, WorkersBlock, InFlightHeld,
                    IInv, CallInProgress, process
<1>9. CallInProgress'
  BY <1>2, <1>4 DEF IInv, CallInProgress, process
<1> QED
  BY <1>5, <1>6, <1>8, <1>9 DEF IInv, MemoryAndJournal

\* A whole step that rewrites an operation and drops its worker with the last
\* obligation: finish_step, cancel and handoff_session end in this way.
LEMMA RewriteStepKeeps ==
  ASSUME IInv, up, ~poisoned, interrupted = {},
         NEW o \in workers, NEW rec \in Records,
         rec.commit = operations[o].commit, Blocks(o), Persist(o, rec),
         workers' = WorkersAfter(o, rec), unpublished' \subseteq workers',
         call' = NoCall \/ (call.at = "idle" /\ call' = call),
         lastAdvanced' \in Nat,
         UNCHANGED <<process, settled, prepared, expired, issued, closing,
                     durableSettled, owner>>
  PROVE  IInv'
<1>1. o \in DOMAIN operations /\ poisoned' = poisoned
  BY DEF IInv, TypeOK, Persist
<1>2. MemoryAndJournal' /\ MapsOK'
  BY <1>1, PersistKeeps DEF process
<1>3. WorkersBlock' /\ InFlightHeld' /\ workers' \subseteq workers
  BY WorkersAfterKeep DEF Persist, process
<1>4. /\ DOMAIN operations' = DOMAIN operations
      /\ DOMAIN durable \subseteq DOMAIN durable'
  BY <1>1 DEF Persist, Put
<1>5. call' \in Calls /\ call'.at = "idle"
  BY NoCallIs DEF IInv, TypeOK
<1>6. TypeOK'
  BY <1>1, <1>2, <1>3, <1>4, <1>5
     DEF IInv, TypeOK, MapsOK, process, owner
<1>7. DownIsEmpty' /\ ResolvingHost'
  BY DEF DownIsEmpty, ResolvingHost, process
<1>8. CallInProgress'
  BY <1>5 DEF CallInProgress
<1> QED
  BY <1>2, <1>3, <1>6, <1>7, <1>8 DEF IInv, MemoryAndJournal

\* The engine records what the call led to, or fails to.
LEMMA FinishCallKeeps ==
  ASSUME IInv, NEW o \in Operations, FinishCall(o)
  PROVE  IInv'
<1>1. /\ Serving /\ call.op = o /\ call.at # "idle"
      /\ up /\ ~poisoned /\ interrupted = {} /\ o \in workers
  BY DEF FinishCall, FinishStep, FinishUncertain, FinishRefused,
         AcknowledgeSettlement, AcknowledgeUncertain, RecordHandoff,
         RecordHandoffUncertain, IInv, CallInProgress
<1>2. /\ o \in DOMAIN operations /\ operations[o] \in Records /\ Blocks(o)
      /\ call.step \in Steps /\ o \in Nat
  BY <1>1, OperationsAssumption DEF IInv, TypeOK, WorkersBlock, Calls
<1>3. ASSUME FinishStep(o) PROVE IInv'
  <2>1. PICK rec \in StepRecords(o, call.step) :
          /\ Persist(o, rec)
          /\ workers' = WorkersAfter(o, rec)
          /\ unpublished' = IF rec.phase = "terminal"
                            THEN unpublished \ {o}
                            ELSE unpublished \cap workers'
    BY <1>3 DEF FinishStep
  <2>2. rec \in Records /\ rec.commit = operations[o].commit
    BY <1>2, StepRecordsKeep DEF IInv
  <2>3. unpublished' \subseteq workers'
    BY <2>1 DEF IInv, TypeOK, WorkersAfter
  <2>4. lastAdvanced' \in Nat
    BY <1>2, <1>3 DEF FinishStep, IInv, TypeOK
  <2>5. call' = NoCall
        /\ UNCHANGED <<process, settled, prepared, expired, issued, closing,
                       durableSettled, owner>>
    BY <1>3 DEF FinishStep, plans
  <2> QED
    BY <1>1, <1>2, <2>1, <2>2, <2>3, <2>4, <2>5, RewriteStepKeeps
<1>4. ASSUME FinishUncertain(o) PROVE IInv'
  <2>1. PICK rec \in StepRecords(o, call.step) : PersistUncertain(o, rec)
    BY <1>4 DEF FinishUncertain
  <2>2. rec \in Records /\ rec.commit = operations[o].commit
    BY <1>2, StepRecordsKeep DEF IInv
  <2>3. call' = NoCall
        /\ UNCHANGED <<process, settled, workers, unpublished, prepared,
                       expired, issued, lastAdvanced, closing,
                       durableSettled, owner>>
    BY <1>4 DEF FinishUncertain, plans
  <2> QED
    BY <1>1, <1>2, <2>1, <2>2, <2>3, UncertainStepKeeps
<1>5. ASSUME FinishRefused(o) PROVE IInv'
  <2>1. call' = NoCall
        /\ UNCHANGED <<process, memory, plans, lastAdvanced, closing,
                       poisoned, journal, owner>>
    BY <1>5 DEF FinishRefused
  <2>2. MemoryAndJournal'
    BY <2>1, UnchangedKeeps DEF process, memory, journal
  <2>3. TypeOK'
    BY <2>1, NoCallIs DEF IInv, TypeOK, process, memory, plans, journal, owner
  <2>4. \A x : /\ Blocks(x)' <=> Blocks(x)
               /\ InFlight(x)' <=> InFlight(x)
    BY <2>1 DEF memory, Blocks, SettlementPending, RequiresSettlement,
                InFlight
  <2>5. DownIsEmpty' /\ ResolvingHost' /\ WorkersBlock' /\ InFlightHeld'
    BY <2>1, <2>4 DEF IInv, DownIsEmpty, ResolvingHost, WorkersBlock,
                      InFlightHeld, process, memory
  <2>6. CallInProgress'
    BY <2>1, NoCallIs DEF CallInProgress
  <2> QED
    BY <2>2, <2>3, <2>5, <2>6 DEF IInv, MemoryAndJournal
<1>6. ASSUME AcknowledgeSettlement(o) PROVE IInv'
  <2> USE <1>6
  <2>1. /\ durableSettled' = durableSettled \cup {o}
        /\ settled' = settled \cup {o}
        /\ workers' = IF operations[o].session THEN workers
                                               ELSE workers \ {o}
        /\ unpublished' \subseteq workers'
        /\ lastAdvanced' = o /\ call' = NoCall
        /\ UNCHANGED <<process, operations, plans, closing, poisoned,
                       durable, owner>>
    BY DEF AcknowledgeSettlement
  <2>2. operations[o].phase = "terminal" /\ operations = durable
        /\ settled = durableSettled
    BY <1>1 DEF AcknowledgeSettlement, IInv, CallInProgress, HealthyMemory
  <2>3. TypeOK'
    BY <1>2, <2>1, <2>2, NoCallIs DEF IInv, TypeOK, process, plans, owner
  <2>4. \A x \in DOMAIN operations :
          /\ Blocks(x)' => Blocks(x)
          /\ x # o => (Blocks(x)' <=> Blocks(x))
          /\ InFlight(x)' <=> InFlight(x)
          /\ DurablyBlocks(x)' <=> Blocks(x)'
    BY <2>1, <2>2 DEF Blocks, DurablyBlocks, SettlementPending,
                      RequiresSettlement, InFlight
  <2>5. DownIsEmpty' /\ ResolvingHost' /\ HealthyMemory'
    BY <1>1, <2>1, <2>2 DEF DownIsEmpty, ResolvingHost, HealthyMemory, process
  <2>6. CoveringMemory' /\ MemoryDisjoint' /\ JournalDisjoint'
    BY <2>1, <2>2, <2>4
       DEF IInv, CoveringMemory, MemoryDisjoint, JournalDisjoint,
           ResourcesOf, Overlap
  <2>7. WorkersBlock'
    <3>1. operations[o].session => Blocks(o)'
      BY <2>1 DEF Blocks
    <3> QED
      BY <2>1, <2>4, <3>1 DEF IInv, TypeOK, WorkersBlock
  <2>8. InFlightHeld'
    BY <1>1, <2>1, <2>2, <2>4 DEF IInv, InFlightHeld, InFlight, process
  <2>9. CallInProgress'
    BY <2>1, NoCallIs DEF CallInProgress
  <2> QED
    BY <2>3, <2>5, <2>6, <2>7, <2>8, <2>9 DEF IInv
<1>7. ASSUME AcknowledgeUncertain(o) PROVE IInv'
  <2> USE <1>7
  <2>1. /\ durableSettled' \in {durableSettled, durableSettled \cup {o}}
        /\ poisoned' = TRUE /\ call' = NoCall
        /\ UNCHANGED <<process, memory, plans, lastAdvanced, closing,
                       durable, owner>>
    BY DEF AcknowledgeUncertain
  <2>2. operations = durable /\ settled = durableSettled
    BY <1>1 DEF IInv, HealthyMemory
  <2>3. TypeOK'
    BY <1>2, <2>1, <2>2, NoCallIs
       DEF IInv, TypeOK, process, memory, plans, owner
  <2>4. \A x \in DOMAIN operations :
          /\ Blocks(x)' <=> Blocks(x)
          /\ InFlight(x)' <=> InFlight(x)
          /\ DurablyBlocks(x)' => Blocks(x)'
    BY <2>1, <2>2 DEF Blocks, DurablyBlocks, SettlementPending,
                      RequiresSettlement, InFlight, memory
  <2>5. DownIsEmpty' /\ ResolvingHost' /\ HealthyMemory'
    BY <1>1, <2>1 DEF DownIsEmpty, ResolvingHost, HealthyMemory, process
  <2>6. CoveringMemory' /\ MemoryDisjoint' /\ JournalDisjoint'
    BY <2>1, <2>2, <2>4
       DEF IInv, CoveringMemory, MemoryDisjoint, JournalDisjoint,
           ResourcesOf, Overlap, memory
  <2>7. WorkersBlock' /\ InFlightHeld'
    BY <2>1, <2>4 DEF IInv, TypeOK, WorkersBlock, InFlightHeld, process,
                      memory
  <2>8. CallInProgress'
    BY <2>1, NoCallIs DEF CallInProgress
  <2> QED
    BY <2>3, <2>5, <2>6, <2>7, <2>8 DEF IInv
<1>8. ASSUME RecordHandoff(o) PROVE IInv'
  <2>1. HandedOff(operations[o]) \in Records
        /\ HandedOff(operations[o]).commit = operations[o].commit
    BY <1>2, ChangesKeepRecords
  <2>2. unpublished' \subseteq workers' /\ lastAdvanced' \in Nat
    BY <1>8 DEF RecordHandoff, IInv, TypeOK
  <2>3. /\ Persist(o, HandedOff(operations[o]))
        /\ workers' = WorkersAfter(o, HandedOff(operations[o]))
        /\ call' = NoCall
        /\ UNCHANGED <<process, settled, prepared, expired, issued, closing,
                       durableSettled, owner>>
    BY <1>8 DEF RecordHandoff, plans
  <2> QED
    BY <1>1, <1>2, <2>1, <2>2, <2>3, RewriteStepKeeps
<1>9. ASSUME RecordHandoffUncertain(o) PROVE IInv'
  <2>1. HandedOff(operations[o]) \in Records
        /\ HandedOff(operations[o]).commit = operations[o].commit
    BY <1>2, ChangesKeepRecords
  <2>2. /\ PersistUncertain(o, HandedOff(operations[o]))
        /\ call' = NoCall
        /\ UNCHANGED <<process, settled, workers, unpublished, prepared,
                       expired, issued, lastAdvanced, closing,
                       durableSettled, owner>>
    BY <1>9 DEF RecordHandoffUncertain, plans
  <2> QED
    BY <1>1, <1>2, <2>1, <2>2, UncertainStepKeeps
<1> QED
  BY <1>3, <1>4, <1>5, <1>6, <1>7, <1>8, <1>9 DEF FinishCall

\* A whole step that takes an operation's custody, and may start a call on it.
LEMMA AcquireStepKeeps ==
  ASSUME IInv, Idle, ~poisoned, NEW o \in DOMAIN operations, Blocks(o),
         workers' = workers \cup {o},
         \/ call' = call
         \/ call' = [NoCall EXCEPT !.at = "port", !.op = o]
            /\ operations[o].phase = "recovery"
         \/ call' = [NoCall EXCEPT !.at = "handoff", !.op = o]
            /\ operations[o].session,
         sessionAt' \in [Operations -> Custodians],
         UNCHANGED <<process, operations, settled, unpublished, plans,
                     lastAdvanced, closing, poisoned, journal, native,
                     ownerSettled>>
  PROVE  IInv'
<1>1. up /\ interrupted = {} /\ call.at = "idle" /\ o \in Operations
  BY DEF Idle, Serving, IInv, TypeOK
<1>2. /\ call' \in Calls
      /\ call'.at \in {"idle", "port", "handoff"}
      /\ call'.at # "idle" => call'.op = o
      /\ call'.at = "port" => operations[o].phase = "recovery"
      /\ call'.at = "handoff" => operations[o].session
  <2>1. CASE call' = call
    BY <1>1, <2>1 DEF IInv, TypeOK
  <2>2. CASE call' = [NoCall EXCEPT !.at = "port", !.op = o]
             /\ operations[o].phase = "recovery"
    BY <1>1, <2>2 DEF NoCall, NoStep, Calls, Steps, Outcomes
  <2>3. CASE call' = [NoCall EXCEPT !.at = "handoff", !.op = o]
             /\ operations[o].session
    BY <1>1, <2>3 DEF NoCall, NoStep, Calls, Steps, Outcomes
  <2> QED
    BY <2>1, <2>2, <2>3
<1>3. MemoryAndJournal'
  BY UnchangedKeeps DEF process, journal
<1>4. TypeOK'
  BY <1>1, <1>2 DEF IInv, TypeOK, process, plans, journal
<1>5. \A x : /\ Blocks(x)' <=> Blocks(x)
             /\ InFlight(x)' <=> InFlight(x)
  BY DEF Blocks, SettlementPending, RequiresSettlement, InFlight
<1>6. DownIsEmpty' /\ ResolvingHost' /\ WorkersBlock' /\ InFlightHeld'
  BY <1>1, <1>5 DEF DownIsEmpty, ResolvingHost, WorkersBlock, InFlightHeld,
                    IInv, process
<1>7. CallInProgress'
  BY <1>1, <1>2 DEF CallInProgress, process
<1> QED
  BY <1>3, <1>4, <1>6, <1>7 DEF IInv, MemoryAndJournal

\* What the owning application and its clients ask of an operation.
LEMMA RequestKeeps ==
  ASSUME IInv, NEW o \in Operations, RequestStep(o)
  PROVE  IInv'
<1>1. /\ Idle /\ ~poisoned /\ up /\ interrupted = {} /\ call.at = "idle"
      /\ o \in DOMAIN operations /\ operations[o] \in Records
  BY DEF RequestStep, Recover, Cancel, CancelUncertain, CancelChanges,
         HandoffRefused, HandoffSession, HandoffMay, Idle, Serving, IInv,
         TypeOK
<1>2. CancelRecord(operations[o]) \in Records
      /\ CancelRecord(operations[o]).commit = operations[o].commit
  BY <1>1, ChangesKeepRecords
<1>3. ASSUME Recover(o) PROVE IInv'
  <2>1. Blocks(o) /\ operations[o].phase = "recovery"
    BY <1>3 DEF Recover, Blocks
  <2>2. /\ workers' = workers \cup {o}
        /\ call' = [NoCall EXCEPT !.at = "port", !.op = o]
        /\ sessionAt' \in [Operations -> Custodians]
        /\ UNCHANGED <<process, operations, settled, unpublished, plans,
                       lastAdvanced, closing, poisoned, journal, native,
                       ownerSettled>>
    BY <1>3 DEF Recover, owner, IInv, TypeOK
  <2> QED
    BY <1>1, <2>1, <2>2, AcquireStepKeeps
<1>4. ASSUME Cancel(o) PROVE IInv'
  <2>1. /\ operations[o].phase \in {"admitted", "executing"}
        /\ Persist(o, CancelRecord(operations[o]))
        /\ workers' = WorkersAfter(o, CancelRecord(operations[o]))
        /\ unpublished' = unpublished \cap workers'
        /\ UNCHANGED <<process, settled, plans, call, lastAdvanced, closing,
                       durableSettled, owner>>
    BY <1>4 DEF Cancel, CancelChanges
  <2>2. o \in workers /\ Blocks(o)
    BY <1>1, <2>1 DEF IInv, InFlightHeld, InFlight, Blocks
  <2>3. /\ unpublished' \subseteq workers' /\ lastAdvanced' \in Nat
        /\ call.at = "idle" /\ call' = call
        /\ UNCHANGED <<process, settled, prepared, expired, issued, closing,
                       durableSettled, owner>>
    BY <1>1, <2>1 DEF plans, IInv, TypeOK
  <2> QED
    BY <1>1, <1>2, <2>1, <2>2, <2>3, RewriteStepKeeps
<1>5. ASSUME CancelUncertain(o) PROVE IInv'
  <2>1. /\ operations[o].phase \in {"admitted", "executing"}
        /\ PersistUncertain(o, CancelRecord(operations[o]))
        /\ call' = call
        /\ UNCHANGED <<process, settled, workers, unpublished, prepared,
                       expired, issued, lastAdvanced, closing,
                       durableSettled, owner>>
    BY <1>5 DEF CancelUncertain, CancelChanges, plans
  <2>2. Blocks(o)
    BY <2>1 DEF Blocks
  <2> QED
    BY <1>1, <1>2, <2>1, <2>2, UncertainStepKeeps
<1>6. ASSUME HandoffRefused(o) \/ HandoffSession(o) PROVE IInv'
  <2>1. Blocks(o) /\ operations[o].session
    BY <1>6 DEF HandoffRefused, HandoffSession, HandoffMay, Blocks
  <2>2. /\ workers' = workers \cup {o}
        /\ \/ call' = call
           \/ call' = [NoCall EXCEPT !.at = "handoff", !.op = o]
        /\ UNCHANGED <<process, operations, settled, unpublished, plans,
                       lastAdvanced, closing, poisoned, journal, native,
                       ownerSettled>>
    BY <1>6 DEF HandoffRefused, HandoffSession, owner
  <2>3. sessionAt' \in [Operations -> Custodians]
    BY <1>6 DEF HandoffRefused, HandoffSession, owner, IInv, TypeOK, Custodians
  <2> QED
    BY <1>1, <2>1, <2>2, <2>3, AcquireStepKeeps
<1> QED
  BY <1>3, <1>4, <1>5, <1>6 DEF RequestStep

-----------------------------------------------------------------------------
(* The theorems                                                            *)

\* IInv is inductive, and so it holds throughout every behavior of the kernel
\* and its host, whatever crashes and appends are left uncertain.
THEOREM KernelInvariant == Spec => []IInv
<1>1. Init => IInv
  BY InitInv
<1>2. IInv /\ [Next]_vars => IInv'
  <2> SUFFICES ASSUME IInv, [Next]_vars PROVE IInv'
    OBVIOUS
  <2>1. CASE HostStep
    BY <2>1, HostStepKeeps
  <2>2. CASE PlanStep
    BY <2>2, PlanStepKeeps
  <2>3. ASSUME NEW o \in Operations, AdmissionStep(o) PROVE IInv'
    BY <2>3, AdmissionKeeps
  <2>4. ASSUME NEW o \in Operations, PumpStep(o) PROVE IInv'
    BY <2>4, PumpKeeps
  <2>5. ASSUME NEW o \in Operations, PortReturns(o) PROVE IInv'
    BY <2>5, PortReturnsKeeps
  <2>6. ASSUME NEW o \in Operations, FinishCall(o) PROVE IInv'
    BY <2>6, FinishCallKeeps
  <2>7. ASSUME NEW o \in Operations, RequestStep(o) PROVE IInv'
    BY <2>7, RequestKeeps
  <2>8. CASE UNCHANGED vars
    <3>1. UNCHANGED <<process, memory, journal, poisoned, call, owner, plans,
                      closing, lastAdvanced>>
      BY <2>8 DEF vars
    <3> QED
      BY <3>1, QuietStepKeeps DEF plans, IInv, TypeOK
  <2> QED
    BY <2>1, <2>2, <2>3, <2>4, <2>5, <2>6, <2>7, <2>8 DEF Next
<1> QED
  BY <1>1, <1>2, PTL DEF Spec

\* Memory, journal and owner state keep their types (open, commit, advance,
\* recover, cancel, handoff_session, settle_terminal and the host's exits).
THEOREM TypeCorrect == Spec => []TypeOK
<1>1. IInv => TypeOK
  BY DEF IInv
<1> QED
  BY <1>1, KernelInvariant, PTL

\* The exclusive leases of commit's conflict scan are never shared, for any
\* number of operations, resources and restarts.
THEOREM LeasesExclusive == Spec => []WorkerExclusion
<1>1. IInv => WorkerExclusion
  BY DEF IInv, TypeOK, WorkersBlock, MemoryDisjoint, WorkerExclusion
<1> QED
  BY <1>1, KernelInvariant, PTL

\* After any crash and any uncertain append, the engine's memory blocks what
\* a replay of its journal would block.
THEOREM JournalCovered == Spec => []MemoryCoversJournal
<1>1. IInv => MemoryCoversJournal
  BY DEF IInv, TypeOK, HealthyMemory, CoveringMemory, DurablyBlocks,
         MemoryCoversJournal, Records
<1> QED
  BY <1>1, KernelInvariant, PTL

\* advance and recover ask a port to act only behind a durable executing or
\* recovery record, under this host's custody, and never while poisoned.
THEOREM PortsBehindJournal == Spec => []PortCallsAreRecorded
<1>1. IInv => PortCallsAreRecorded
  BY DEF IInv, TypeOK, HealthyMemory, CallInProgress, PortCallsAreRecorded
<1> QED
  BY <1>1, KernelInvariant, PTL

\* Whatever the pump may select has its custody and lease in this host.
THEOREM CustodyOfInFlight == Spec => []InFlightHasWorker
<1>1. IInv => InFlightHasWorker
  BY DEF IInv, InFlightHeld, InFlightHasWorker, Serving
<1> QED
  BY <1>1, KernelInvariant, PTL
=============================================================================
