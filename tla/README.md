# A TLA+ development of the Bridge

This directory models the parts of the repository that decide what happens to a
player's installation when something is changed. Of the successor architecture:
the operation kernel of `crates/bridge-engine` with the host that pumps it, the
journal it writes, the stream of events over which a client learns what became
of its work, and, at the other end, what the user interface does with edits it
has not saved yet and with saves it does not know the outcome of. Of the shipped
launcher: the transaction that puts the mod's files into the game directory. The
rest of the repository is inventoried below, with the plan for it.

## The system

**Rust, the successor architecture** (`crates/`, `apps/desktop`, `ui/`). One host
process owns one `Engine` on one thread. Clients (the webview through Tauri IPC)
send frames over a bounded channel; the host answers them, and between requests
it *pumps* the engine: one step of one operation per tick. The engine prepares
plans (read-only captures with a deadline), admits a plan as an operation under
an idempotency key, and drives the operation's native work through
`OperationPorts`, an owner it does not trust to be atomic. Every change of an
operation is appended to a journal before it is visible in memory; a failed
append leaves its durability unknown and poisons the engine.

**C#, the shipped launcher** (`src/STFCCommunityMod.Launcher*`). A WPF process over
a library of file transactions: deployment of the game mod, configuration files,
provider switches, self-update, and the ingest of battle data over a named pipe.
Its transactions are journals of their own in JSON files, under lock files.

| component | state it keeps | operations | what is hard | correct when |
|---|---|---|---|---|
| operation kernel (`operations/mod.rs`, `ports.rs`) | records, settlements, workers (custody + lease), preparations, poisoned | open, prepare, commit, advance, recover, settle, cancel, handoff, close disposition | crash between append, effect and append; failed appends; retries over restarts | effects never outlive their exclusion, journal before effect, one operation per commit, exit only at a boundary |
| host pump (`host/kernel.rs`) | last_advanced, close wish | pump, request_close | one step per tick among many operations | every admitted operation is started |
| journal file (`operations/journal.rs`) | file, expected length, records, poisoned | open, repair, append | torn and unsynchronized frames | what is acknowledged survives, nothing else is invented |
| event stream (`operations/mod.rs`) | sequence, 128 events | publish, resume, snapshot | retention, uncertain admission | snapshot + events = state |
| transport (`host/transport.rs`, `embedded.rs`) | inbox, pending replies, observers, failure | exchange, subscribe, deliver, close | limits, callbacks inside a tick, panics | no observer misses an event unknowingly |
| configuration drafts (`configuration/drafts.rs`) | documents, drafts, vault | open, set, discard, observe, publish completion | lost acknowledgements, documents changing below a draft | a save writes what was reviewed |
| configuration transaction (`transaction.rs`, `bridge-app` operations) | native stage, backup, receipt | begin, advance, recover, settle | one begin only; every boundary may crash | old or new document, never a third |
| UI observation client (`ui/src/client/observation.ts`) | cursor, operations, drafts, buffer | snapshot, event, invalidate | events during a snapshot | authoritative = the host's state |
| UI commit custody (`client/client.ts`, `state/bridge-facade.ts`, `state/action-review.ts`) | calls, replay records, attempts | prepare, confirm, repeat, stay, observe | answers lost or given up, keys used by several holders of the client | what may have happened can always be asked for again |
| UI draft editing (`client/work-context.ts`, `state/bridge-facade.ts`, views) | draft, edits, target, transition | edit, save, discard, stay, navigate, reconcile | views act while a save is under way, late answers, replaced hosts | unsaved edits are neither lost nor written behind the user's back |
| mod deployment (`ModDeployment.cs`) | journal, two members, backups, stages | deploy, uninstall, roll back, recover | interrupted rollback, foreign files | all old or all new, adopted files kept |
| atomic TOML store (`AtomicTomlStore.cs`) | temporary, backup, destination | save, create, transform | external writers between checks | no foreign change is overwritten unseen |
| provider switch (`LauncherProviderSwitchCoordinator.cs`) | outer journal | execute, recover | two participants, one outcome | configuration and artifact agree |
| battle ingest and storage (`Battle*.cs`) | pipe host, slots, chunks, runtime lock, lifecycle journal | start, stop, receive, delete, recover | drain against accept, crash during delete | nothing lost silently |
| self-update, reviewed artifacts, shell | staged plans, leases | stage, verify, launch | another process completes the work | - |

How they interact: client -> transport -> kernel (calls, one at a time) -> ports
(callbacks that return a step) -> native owner; kernel -> journal (append);
kernel -> ports -> kernel (the commit callback of `publish_completion`); kernel ->
transport -> client (events). In the launcher the provider switch calls the
configuration store and the deployment as participants under one root lock.

## Modules

| module | models | notes |
|---|---|---|
| `BridgeKernel` | the engine, the pump, the owner's contract | the core |
| `BridgeKernelProofs` | theorems about it: custody, leases, memory and journal | checked by TLAPS |
| `BridgeKernelJournal` | theorems about what it writes | on top of the former |
| `BridgeKernelExit` | theorems about effects, exclusion and the end of a host | on top of the former |
| `MCBridgeKernel` | instances of it | plans that contend, plans that do not |
| `DurableLog` | what the engine relies on in a `DurableJournal` | abstract |
| `FileJournal` | `FileJournal::open_retained` and `append` over faulty storage | implements `DurableLog` |
| `FileJournalProofs` | theorems about it and its refinement | checked by TLAPS |
| `MCFileJournal` | an instance of it | |
| `ObservationStore` | the client's store as operators on its state | used by the next one |
| `OperationStream` | events, owner turn, registration, poll and client session | composes engine side and client side |
| `OperationStreamProofs` | theorems about it and about the store's operators | checked by TLAPS |
| `MCOperationStream` | instances of it | |
| `CommitCustody` | commit calls, replay records, the save and action controllers | UI, composed with the host's idempotency |
| `CommitCustodyProofs` | theorems about it | checked by TLAPS |
| `MCCommitCustody` | an instance of it | |
| `DraftEditing` | work context, facade, views and the host's draft store | UI and engine composed |
| `MCDraftEditing` | instances of it | |
| `DraftEditingProofs` | theorems about it | |
| `ModDeployment` | the launcher's deployment transaction over files | |
| `MCModDeployment` | instances of it | |
| `ModDeploymentProofs` | theorems about it: old or new, nothing lost | checked by TLAPS |

### BridgeKernel

State of the engine: `operations`, `settled`, `prepared`/`expired`/`issued` (the
preparations and the issued plan identities), `workers`, `unpublished` (workers
whose `completion_pending` holds), `poisoned`, `closing`. State that survives the
process: `durable` and `durableSettled`, the *replay* of the journal (the latest
record of each operation and the acknowledged settlements), and the owner's
`native`, `sessionAt` and `ownerSettled`. `up`, `epoch`, `interrupted` and `call`
say where the process and the one running engine call stand.

The engine is single-threaded, so a handler is one action, except where a crash
can come between two durable effects. Those handlers are split there and
`call` keeps every other call out: `Advance` (append of the executing record),
`PortReturns` (the owner acts and answers), `FinishStep` (append of the
answer); `OwnerSettles`, `AcknowledgeSettlement`; `HandoffSession`,
`RecordHandoff`; `Open` and one `ResolveInterrupted` per interrupted record.
Each append has an uncertain form: memory unchanged, engine poisoned, the record
durable or not (`PersistUncertain`). An append by `publish_completion`'s callback
is part of `FinishStep`/`FinishUncertain`.

The owner is external. `OwnerMoves` and `OwnerAnswers` are the contract of
`ports.rs`: a transaction only moves forward once finished, a *complete* answer
means it is finished, a *safe* recovery means it is at a durable boundary,
progress means it runs, and an *error* means nothing at all, whatever was done.
With `PortFaults` a port may also return what the kernel rejects.

Left out, on purpose: revision counters, cursors, events, the clock's regression
latch, size limits of observations, `validate_transition` as a guard
(`JournalReplays` shows that it never refuses), and every refusal that changes
nothing. Numeric limits `MAX_OPERATIONS`, `MAX_PREPARATIONS`, `MAX_ISSUED_PLANS`
are constants.

### FileJournal

A file is a header, a sequence of complete frames, a tail that is absent, torn or
garbage, and how many of the frames are known to be synchronized. A handle is
`none`, `repairing`, `ready` or `poisoned`. `AppendStart` to
`AppendAcknowledged` are the points of one append at which the process may stop.
`PowerLoss` keeps a prefix of what was not synchronized and anything behind it;
`Damage` makes a frame's digest wrong. `MaxFrames` stands for `MAX_JOURNAL`.

`DurableLog` has a log, records in doubt behind it and a holder. In the
refinement the synchronized frames are the log and the others are in doubt.
A clean open may *read* frames in doubt; they are durable from the next
successful append on. The engine's first act is to append its Host record
(`Engine::open`), so a host never acts on a record that is still in doubt. This
is what lets `BridgeKernel` decide a failed append's fate at once
(`durable' \in {durable, Put(...)}`): between the failed append and the next host
nobody reads the journal.

### ObservationStore and OperationStream

`ObservationStore` is `ui/src/client/observation.ts` as operators on a record: a
cursor, what is shown of each operation, the confidence in it, and the buffer
that is filled while a snapshot is awaited. `OperationStream` puts it at the far
end of the way an operation's change takes: the engine appends it, stores it and
publishes an event (`PersistChanges`, `Publish`); the owner thread serves at most
one request per turn (`phase = "receive"`), then pumps and delivers what was
published to its observer, as far as the channel has room (`Deliver`); a poll
takes one event out (`PollReads`) and brings it to the client (`PollArrives`).
Answers to queries and commands travel beside the events, so each of them is two
steps (`ServeSnapshot`/`SnapshotArrives`, `ServeOperation`/`OperationArrives`).
Nothing orders the two ways, and that is the point of the model.

The pump and the delivery of a turn are one action, because nothing but the
owner itself sees what lies between them; a poll that comes between them takes
what it would take before. The answer to a request goes out before the
pump, hence the phase.

The engine is the one of `BridgeKernel` seen from outside: an operation is a
revision and the class of its state. `Commanded` and `Answered` say which class
may follow which; why, is `BridgeKernel`'s matter. An append that fails
publishes nothing; memory keeps the old state, except for an admission, which
stays in memory without an event (`PersistUncertain`).

Left out: events about drafts; `ObservationSession.resume`, which has no caller
outside tests; the retention gap, because an observer starts at the current
cursor and is served in every turn, and a turn publishes far fewer than
`EVENT_RETENTION` events; the reasons of staleness and the difference between
partial and authoritative; the client's own limit on operations; the end of a
failed host; other observers, which share nothing with this one but the events.

### CommitCustody

Whether a change the user confirmed may be reported as *not submitted* depends on
what three parts of the UI know of a call. `calls` is every commit call with the
custody of its frame: waiting in the transport for a registration, handed to the
native side, executed, or certain never to be (`dead`). `replays` is
`BridgeClient.replays`, bounded by `maximumReplays`: the submission that is kept
under an idempotency key, the newest call that repeated it, and what is known of
its delivery. `attempt` holds the transition of the two controllers that submit
(`BridgeFacade` for saves, `ActionReviewController` for actions), `recovering`
the latter's list of attempts in recovery, `operations` what the host has under
each key.

`Submit` is the first half of `BridgeClient.call`; a call then is refused by the
transport, withdrawn, invoked, refused or executed (`TransportRefuses`, `Invoke`,
`NativeRefuses`, `Execute`), and its answer arrives, or the deadline, an abort or
a lost message ends the wait (`ReplyArrives`, `Abandon`, `AbandonUnsent`), in
every order: a call given up may be executed later. `Confirm`, `Repeat`, `Stay`
and `AcceptCommit` are the controllers' handlers. Another caller of the shared
client may submit and repeat under the same keys (`OtherSubmits`); the client API
and its tests do so.

Left out: the early refusals that leave nothing behind (`pending_limit`, a
disposed client, an invalid capture) are nondeterministic refusals; a rejection
by the host is what a lost answer is to the facade (`bridge-facade.ts` 270-272);
the await of `prepare` is merged with it; the epoch fences of prepare,
`subscribe` and `cancelOperation` do not submit; what a controller observes of an
operation is the operation, without the delay of the store (`OperationStream` is
about that delay). A rejected commit leaves its attempt uncertain, by design.

### DraftEditing

`work` is `WorkContext`: the draft with its local edits, whether it conflicts,
whether a navigation waits for an answer (`pending`), whether a transition is
under way (`busy`), the target the views have bound, and the baseline to be read
again after a save or a discard. `flow` is `BridgeFacade`'s transition, from
synchronizing the edits over preparing, review and commit to observing the
outcome. The host side is `configuration/drafts.rs`: versions of the `documents`,
`drafts` with the acknowledgement that is remembered for a repetition, and the
`operations` the kernel has admitted, of which only the outcome matters here.
`requests` travel one by one; each may be answered, lost, or executed after
nobody waits any more (`LoseAnswer`). The views act behind the transition's back,
as they do in the code: Home resolves and binds a target at any time
(`InspectTarget`), Settings opens drafts (`RefreshSettings`), reconciliation reads
the draft again (`StartReconciliation`, `Reconciled`), and the store learns of a
replaced host late (`ObserveHost`).

Left out: a configuration is read in the step that requests it, the open that
follows keeps its delay; the await of `prepare`; a foreign write between the
native write of a save and its publication; invalid edits, public inputs the user
has not finished, protected entries; the proof of non-delivery of a commit
(`CommitUnsent` may happen where `CommitCustody` shows that it is sound); the
store's own refusals, which are nondeterministic; `dispose`. `MAX_DRAFTS` of the
host is not reached.

### ModDeployment

`disk` says what is at each place of each of the two members (the DLL and the
runtime manifest): in use, staged, put aside on the volume of the game, put aside
in the state directory, being copied there, being copied back, retained for the
player. A file is its bytes and a *mark*, which stands for what receipts and file
identities tell apart. `installed` is the receipt, `journal` the deployment
journal. `todo` is the rest of the running call, one file operation or persisted
phase per entry, so that `Crash` (the process ends), `Throw` (the operation fails
or the call is cancelled, and the handler of that part of the code runs) and
`Disturb` (another program writes or removes a live file, unless the call holds
it open) may come between any two of them. `DeploySteps`, `UninstallSteps`,
`RollBackSteps`/`PlannedSteps` and `CleanupSteps` are the order of the awaits in
`DeployCoreAsync`, `UninstallAsync`, `RollBackAsync` and `CleanupCommittedResidue`;
each entry has an action with the guards of its code. `MemberPlan` is
`BuildRollbackMember` as a case distinction over what recovery finds; each case
names what the earlier branches of the code have excluded. `Init` is every state without an unfinished transaction that
earlier ones can have left: adopted files or none, a release with or without a
manifest, or unmanaged files.

Left out: the commit participant of a provider switch, its coordinated rollback,
and the flag that preserves the live file, which only callbacks injected by tests
set; `Downloading` is merged with `Planned` (no file is written before either
ends); that the game runs is a nondeterministic refusal; the player always
confirms an adoption; the receipt of a copy stage is released together with the
stage's move or deletion; both members' residue at one place is deleted in one
step; the branch for a retained backup that is missing (others write live files
only), legacy receipts, release floors and verification of the bytes. What a
finished transaction has left at its places is forgotten when the next one begins
(`OwnPlaces`), because no code looks at another transaction's places, except the
retained files the receipt names. A deleted or copied file is checked to be the
expected one right before; where nothing else in the model can have changed it,
the check is left out.

## Runs

| run | instance | shows |
|---|---|---|
| `kernel_safety` | 2 operations, 2 plans that overlap, 2 keys (symmetric), 2 epochs, port faults; 2.4M states | `TypeOK`, `WorkerExclusion`, `EffectsBlockAdmission`, `EffectsFollowExecution`, `OneOperationPerCommit`, `MemoryCoversJournal`, `PortCallsAreRecorded`, `SettlementFollowsOutcome`, `InFlightHasWorker`, `JournalReplays` |
| `kernel_exit` | a launch with settlement and a save without, 2 epochs; 1.8M states | `PoisonedHostDefersExit`, `ExitLeavesNothingOpen`, `PublicationNotDropped` |
| `kernel_live` | 2 plans that do not contend, both settled, 1 epoch, fair; 100k states | `AdmittedIsServed` |
| `kernel_close_doc` | 1 operation, port faults | a violation, see below |
| `journal` | 2 values, 4 frames; 18k states | `TypeOK`, `OpenShowsAcknowledged`, `AcknowledgedIsDurable`, refinement of `DurableLog` |
| `stream` | 1 operation of up to 4 revisions, a channel of 3, a buffer of 2, 2 hosts, fair; 772k states | `TypeOK`, `NothingMissed`, `ShownIsCurrentOrComing`, `ShownOnlyAdvances`, `ObservationRecovers` |
| `stream_resume_doc` | 1 operation | a violation, see below |
| `commit_custody` | 2 plans, 2 symmetric keys, 3 calls, 2 replay records; 2.4M states | `TypeOK`, `ForgottenIsSettled`, `RepetitionIsExact`, `RecordedOperationIsOwn`, `UncertainIsRetained`, `GivenUpWasNeverSent` |
| `draft_editing` | 1 edit, 2 targets, 2 versions of the document, 2 drafts of 2 revisions, 2 requests under way, 1 fault; 3.2M states | `TypeOK`, `OneGeneration`, `EditsNotLost`, `DiscardedIsNotWritten` |
| `draft_stay_doc` | the same instance | a violation, see below |
| `mod_deployment` | 2 releases, 2 transactions, 3 faults, 1 foreign change; 1.1M states | `TypeOK`, `PriorIsKept`, `AdoptedIsKept`, `AllOldOrAllNew`, `OthersFilesSurvive` |
| `mod_recovery_doc` | 2 releases, 1 transaction, 1 fault, 1 foreign change | a violation, see below |

Why the bounds are enough: the kernel's exclusion is pairwise, an idempotency
conflict needs two commits, and a crash's consequences are met by the very next
host, so two operations and two epochs contain an operation that meets the
other's remains; two plans with one shared and one private resource contain
both the overlap and its absence; one launch plan and one settled plan contain
each obligation that outlives an outcome, and the exit run puts both on the same
plan. Four frames contain an adopted unsynchronized frame with acknowledged ones
before and behind it. Keys are compared only for equality, hence the symmetry;
operations are ordered (the pump's round robin), hence none there, and the
liveness run uses no symmetry. Its plans must not contend, or the second operation
would not be admitted while the first one runs and nothing could starve it.
`MCFairSpec` leaves out what only ends a wait or doubles the states: the end of
the host, a poisoned journal, expired plans, and exchanging the plans or keys of
the two operations.

For the stream: an admission that is advanced in its own turn publishes three
events (admitted, executing, the answer). An empty channel of three takes them
all and one that still holds an event is overflowed by them, and a buffer of two
is overflowed in both cases; so every batch is met whole, cut, and refused. Four
revisions contain each command and a progress report; the second host contains
operations that were interrupted, completed and never admitted. With one
operation an answer, an event and a snapshot always meet over the same one, which
is where they can disagree. Its safety properties also hold for two operations of
three revisions in one host, with a channel and a buffer of two (1.7M states),
which the runs leave out for their time, and are theorems for any number of
operations.

For commit custody: a conflict over a key needs two plans, a repetition that
overtakes its original and a third call that uses the forgotten key need three
calls; two replay records are both the limit and one per key. Keys are compared
for equality only.

For draft editing: the draft is opened, and opened again by a view or after a
save, so two drafts; an unsynchronized edit on top of a synchronized one is a
content that differs from it, for which an edit and its absence are enough; two
targets and two versions contain each change below the draft. Two requests under
way are the facade's and a view's, or a repeated one beside its forgotten first.
One fault (a lost answer, a replaced host or a foreign write) already meets every
point of every transition; the answers of the views and the users' actions
interleave without faults.

For the deployment: three faults are a failure of the call, one of its rollback and
one of the recovery after it, at any steps; a second transaction works on what
the first one left, deployed, rolled back, uninstalled or detached; one release
has a manifest and one has not, which gives every update from one to the other.
One foreign change may hit either member at any point, with the player's bytes,
those of the release, or none. The same properties also hold for one transaction
with two foreign changes (2.2M states) and for two with two faults and two
foreign changes (5.5M states), which the runs leave out for their time.

Deadlock is not checked: a kernel host that was opened `MaxEpoch` times and has
gone stays gone, users may have nothing left to do within the bounds, and a
deployment that was refused its recovery waits for the player.

### Fairness

`FairSpec` assumes SF for the pump and WF for a port's answer and the engine's
end of the call. Every host tick (`host/transport.rs`, `tick_with_close_signal`)
handles at most one request and then pumps, so requests cannot keep the pump out
although each of them disables it for a moment: hence SF. A port call is a
bounded advancement by contract. There is no fairness for clients, for recovery
("observation and shutdown never automatically recover"), for crashes or for the
owner's progress: `AdmittedIsServed` holds with another operation that
progresses for ever. It is checked without `PortFaults`: a rejected step makes
`pump` return before `last_advanced` is set, and the host then arms its close.

The stream's `FairSpec` assumes that the owner's loop turns (WF for `OwnerTurn`)
and serves its inbox in order, so that a waiting subscription or snapshot query
is not passed over forever (SF, because the phase alternates and other jobs come
first); that the poll timer fires and its answer or fault arrives; and that
`App.svelte` refreshes every five seconds. Losing an answer or a registration is
always possible, and nobody has to ask for a registration again: the
application connects once, when it is mounted. `ObservationRecovers` says
therefore what it needs: a registration that lasts, snapshots that stop failing,
and a host that knows what the client knows. Without the last assumption TLC
finds a client that saw an admission whose append had failed and that refuses
every snapshot of the next host for omitting it (`pending_operation_omitted`).
The revisions are bounded, so the property says nothing of a host whose work
never comes to rest.

### What the code does not do

`kernel_close_doc` checks the sentence of `docs/next/OPERATION_KERNEL.md` (BR04-04)
that normal close waits for unsafe work. A recovery that its owner reported safe
and that is recovered again keeps `safe_owner_boundary` when the port answers
`Progress`: `finish_step` returns `InvalidPortResult` before it touches the
record, whereas an error answer, and a restart, reset the flag. A close requested
then lets the host exit over running native work. Without such a port
(`kernel_exit`) the property holds.

`stream_resume_doc` checks that a client which holds an authoritative snapshot
resumes observation (`docs/next/OPERATING_CONTRACT.md`, "Operation custody and
replay"). An event that the snapshot already covers is skipped when it was
buffered before the snapshot's answer, but is an `unverifiable_duplicate` when it
is polled after it, and costs the client its confidence until the next refresh.
The comment on `ObservationSession` has the events "cross the client first";
nothing makes them do so. What is lost is confidence, never an event
(`NothingMissed`).

`draft_stay_doc` checks that a user who is asked about unsaved changes before
leaving can answer (`docs/next/FRONTEND_COMPONENTS.md`: "Stay abandons navigation
intent while keeping local edits"). The Home view binds a newly resolved target
while a Save or Discard of a navigation is under way; `matchesReview` then fails,
`WorkContext` returns early without releasing its transition, and the facade drops
the attempt all the same. `transitionBusy` stays set with nobody to clear it, and
Stay, Save, Discard and editing are refused until the page is reloaded. Reviews
made in place get stuck in the same way.

`mod_recovery_doc` checks that recovery restores the prior files and removes those
of the transaction (`docs/windows-launcher/MOD_DEPLOYMENT.md` 417-420, and 218:
"Failure restores no-artifact state"). It does not when the writing of the stage
was cut off (`CutOff`): `WriteStageAsync` (`ModDeployment.cs` 2945) creates the
stage and then writes it. If it is interrupted there, by a crash, a full disk or
a cancellation, the stage has not the bytes of the release, `ValidateResidue`
(2804) refuses it, and every recovery gives up, although no live file was touched;
new deployments are refused as long as the journal says so. The same holds for a
copy whose file was created and not yet registered (3025-3035). There is one other
way (`InTheWay`): an uninstall of a release without a manifest, whose receipt names
an adopted one, leaves a manifest that is already live where it is, and once
committed never passes its own validation (1455 against 3414-3419). The theorem
`GivesUpOnlyOverThese` says that, unless another program interferes, there is no
third.

What else the models show, without a run of its own:

- `ModDeployment`: an uninstall of a release without a manifest, whose receipt
  names an adopted one, gives that manifest back but does not plan for it when it
  rolls back (2240): the old DLL is live again and the player's manifest beside it
  (`GivenBackEarly`). `docs/windows-launcher/MOD_DEPLOYMENT.md` (90-94) has both
  members move together, so this is the one mixture that `AllOldOrAllNew` excepts.
  No bytes are lost by it (`AdoptedIsKept`).
- A live DLL that disappears during the download makes the open of the precondition
  fail with a rollback that finds no backup and gives up, although nothing was
  changed.
- An uninstall whose adopted DLL has the very bytes of the release, rolled back
  after it was given back, leaves the removed file at its `.rollback` place.
- `DraftEditing`: edits made after a stage's acknowledgement was lost can neither be
  saved nor discarded, because the host's revision has moved on (`drafts.rs` 513,
  `work-context.ts` 212). If the user stages back to exactly what was last
  acknowledged, reconciliation adopts the host's newer edits (last disjunct of
  `EditsNotLost`). Every in-place save opens another draft and the old one is
  released only by its host's end, against `MAX_DRAFTS` = 32 (`drafts.rs` 324).
  Observation of a save may never end if the saved draft turns stale before its
  clean successor was read, or if the review no longer matches (`work-context.ts`
  362). After the host was replaced a dirty draft can only be kept.

## Proofs

The theorems hold for all values of the constants that satisfy the named
assumption of each module: operations are positive numbers, plans capture known
resources, bounds are natural numbers, and the values that stand for "nothing"
are none of the others. Every inductive invariant below has first been checked
by TLC on the instance of the component's safety run.

**BridgeKernelProofs** (`IInv`): `KernelInvariant`, `TypeCorrect`,
`LeasesExclusive` (`WorkerExclusion`), `JournalCovered` (`MemoryCoversJournal`),
`PortsBehindJournal` (`PortCallsAreRecorded`), `CustodyOfInFlight`
(`InFlightHasWorker`). `WorkerExclusion` speaks of workers, but a
recovery brings a worker back for an operation that had none, so what has to be
disjoint are the resources of all operations that *block* (`MemoryDisjoint`), and,
because a crash replaces memory by the journal, of all that the journal would
block (`JournalDisjoint`). The two are tied by `CoveringMemory`: what the
journal blocks, memory blocks, also in a poisoned engine; that is what a failed
append must not break, and why the engine keeps the *older* record in memory.
Workers belong to blocking operations (`WorkersBlock`) and in-flight operations
to workers or to the unresolved remainder of an open (`InFlightHeld`), and
`CallInProgress` carries what a handler established over the points where it is
split. Each group of actions has a lemma that preserves `IInv`; the theorem
combines them.

**BridgeKernelJournal** (`WrittenInv`, on top of `IInv`): `WrittenInvariant`,
`EffectsAreRecorded` (`EffectsFollowExecution`), `SettlementsAreOrdered`
(`SettlementFollowsOutcome`), `CommitsAreUnique` (`OneOperationPerCommit`),
`JournalNeverCorrupts` (the action property `JournalReplays`). The lemma
`JournalStep` reduces all actions to what they may do to the journal: admit an
operation, rewrite the record of one in one of the ways of `Rewritten`, or
acknowledge a settlement. `WrittenInv` adds to the properties that every record is
well formed and that the records are not more than an open accepts
(`SoundJournal`), that a call holds an answer of the port's type or a reservation
its owner has settled (`AnswerHeld`), and that a committed plan of this host is no
longer offered (`CommitsConsumePlans`): without the last one a second commit of
the same plan could not be excluded.

**BridgeKernelExit** (`EffectInv`, `ExitInv`): `EffectInvariant`,
`EffectsAreExclusive` (`EffectsBlockAdmission`), `PoisonedHostStays`
(`PoisonedHostDefersExit`), `ExitInvariant`, `ExitIsClean`
(`ExitLeavesNothingOpen`), `PublicationsAreKept` (`PublicationNotDropped`). The
owner acts one step before the engine records it, so what is inductive is where
the owner may be beside each record (`EffectsRecorded`), together with what the
unrecorded answer of a call in progress says of it (`AnswerAgrees`). The last two
theorems assume `~PortFaults`, ports that keep the contract of `ports.rs`;
`kernel_close_doc` shows that the first of them fails without it. `ExitInv` says
what a safe recovery is worth then: its boundary holds unless the port is at work
on it. The other theorems hold for faulty ports as well.

**FileJournalProofs** (`JournalInv`): `JournalInvariant`, `JournalTypeCorrect`
(`TypeOK`), `AcknowledgedDurable` (`AcknowledgedIsDurable`),
`OpenReturnsAcknowledged` (`OpenShowsAcknowledged`), and `JournalIsDurableLog`: the
file implements `DurableLog` (`PromisedSpec`). The invariant says what the holder's
memory is worth against the frames at each point of an append
(`MemoryFollowsFile`, `SyncedBeforeAcknowledged`), and that whoever holds the
journal has read it whole (`HeldIsGood`). In the refinement every step of the file
is an attempt to append, a hardening of all that was written, a failure, a
crash, a power loss that keeps a prefix of what is in doubt, an open, or a
stutter of the log.

**CommitCustodyProofs** (`CustodyInv`): `CustodyInvariant`, `CustodyTypeCorrect`
(`TypeOK`), `ForgottenAreSettled` (`ForgottenIsSettled`), `RepetitionsAreExact`
(`RepetitionIsExact`), `RecordedOperationsAreOwn` (`RecordedOperationIsOwn`),
`UncertainAreRetained` (`UncertainIsRetained`), `GivenUpWereNeverSent` (the action
property `GivenUpWasNeverSent`). `ClientInv` ties each call to the original it
repeats and to the record of its key; `ControllerInv` ties each attempt to its
record. Its core is `ReviewSound`: of an attempt that may still return to its
review, every call its own controller made is dead, or belongs to the very
record that is given up with the review. The proof shows that this survives what
other holders of the client do with the same keys.

**DraftEditingProofs** (`DraftInv`): `DraftInvariant`, `DraftTypeCorrect`
(`TypeOK`), `GenerationsAreOne` (`OneGeneration`), `EditsAreNotLost` (the action
property `EditsNotLost`), `DiscardedAreNotWritten` (the action property
`DiscardedIsNotWritten`). The invariant has three parts. Every copy of a draft that
travels or is kept agrees with the host's (`Agrees`): it is of an earlier revision
or of the same content, and drafts only go on (`GoesOn`); this is all the host's
steps need. The facade waits for what it asked, once (`AskedOnce`), and its
transition holds the context (`TransitionHeld`), so a view or a late answer finds
either an idle facade or a busy context. What may have been submitted is bounded
by the state of the facade (`WorkNotWritten`): outside a submission every save of
the draft has failed and no commit under way can be admitted (`SavesFailed`),
within one only the observed save may succeed (`SaveIsObserved`); the hard case is
the commit that never left, whose review must be back where nothing was submitted.
`OpenedAreFresh` keeps drafts that a view opens apart from all of this.
`EditsAreNotLost` also uses that reconciliation notices what moved
(`CapturedIsCurrent`) and that an answer says what is so (`Answers`).

**OperationStreamProofs** (`StreamInv`): `StreamInvariant`, `StreamTypeCorrect`
(`TypeOK`), `NothingIsMissed` (`NothingMissed`), `ShownIsFresh`
(`ShownIsCurrentOrComing`), `ShownAdvances` (the action property
`ShownOnlyAdvances`). The invariant counts: `Base` is how much of the stream is
neither buffered nor carried nor queued, and those three are the rest of what the
owner has sent, one behind the other (`ComingSound`). A trusting client's place is
not before `Base` (`TrustSound`), nor is that of a snapshot on its way whose
buffer is whole (`SnapshotSound`); at either place each operation is known as the
host has it, or an event behind the place says so (`Fresh`). An answer travels
beside the events, so it may be older than what it meets, but never newer than
the host (`ReplySound`): if the store accepts it, it either is current or
replaces something an event is still to tell of (`AnswerFresh`). Every step of
the owner only lets the stream grow (`Grows`), which is all the client's part of
the invariant needs to know of it; every step of the client leaves the engine
alone. `Replayed` replays a buffer of any length. It is a recursive function, so
it exists by induction over the natural numbers (`Recursion`, from the library's
well-founded relation, which needs no operator as a parameter), and what it
computes is `Caught` after each buffered event (`CaughtNext`, `ReplayedIs`).

**ModDeploymentProofs** (`IInv`): `DeploymentInvariant`, `DeploymentTyped`
(`TypeOK`), `PriorIsAlwaysKept` (`PriorIsKept`), `AdoptedIsAlwaysKept`
(`AdoptedIsKept`), `EndsOldOrNew` (the action property `AllOldOrAllNew`),
`OthersFilesAlwaysSurvive` (the action property `OthersFilesSurvive`), and
`GivesUpOnlyOverThese`, which names all the ways in which the refuted
`RecoveryRestores` fails. What a
transaction may find in its places depends on how far its call has come, and a
call is the sequence `todo`; so the proof first puts the sequences in order. Every
step has a number (`Rank`), and what is left of a call is always the end of the
one sequence its kind has (`Follows`, `Script`): a call goes forward, discards
what it staged, starts a rollback, or carries out its plan. From then on the
invariant only asks which steps are still in `rest`, and the order of two steps is
a comparison of two numbers. Some of it holds whoever is at work: what the journal
says of the files before (`JournalSound`), what can lie at each place
(`PlacesSound`), that nothing is touched before the precondition (`Untouched`),
and that the prior file is live, in the backup or in the durable copy (`Kept`).
While a call goes forward the rest of it says exactly what is live (`LiveNow`)
and what is staged, put aside and copied (`ForwardMember`). When it stops, by a
crash or by a failure, only the journal is left to say so, and `Settled` and
`LiveSound` are what every point of the call implies (`ForwardGives`) and what a
rollback from any of them needs. A rollback then ties its plan to what it found
and has done (`ReturnMember`). The checks of the plan are not enough for
`OthersFilesSurvive`: between the plan and the deletion another program may have
replaced the live file, and the proof uses that the deletion looks again
(`Removable`) and that the copy the plan was made for is still there. A member
that another program has changed is left out of what the invariant says of live
files; its durable copy is still the prior file, and its backup still matches
what the journal says of it (`BackupSound`). `AdoptedIsAlwaysKept` also speaks of
ended transactions and of what earlier ones retained, of which `IInv` says little,
so it has an induction of its own on top of `IInv`: that the receipt is the one
before the transaction or the one it records (`ReceiptKnown`) is inductive with
it. A step either leaves alone what holds adopted files (`Quiet`), moves files or
writes the receipt under an unchanged journal (`Loud`), or saves the journal
(`Saving`); only a few of the second kind can touch a last copy, and of these the
order of the steps says that its file has been seen to be live.

Only model-checked: liveness and fairness (`AdmittedIsServed`,
`ObservationRecovers`), which the prover does not handle, and the refuted
properties of the `_doc` runs.
None of the modules uses a RECURSIVE operator, so all
of them can be proved about.

## Plan

1. Done: `BridgeKernel`, `FileJournal`, `OperationStream` and the first theorems;
   `CommitCustody`, `DraftEditing`, `ModDeployment`.
2. Proofs. Done: the kernel, the journal file with its refinement, commit
   custody, draft editing, the stream and the deployment; every invariant and
   action property of a passing run is a theorem. A further module to prove about
   would share a module of theorems with one of these.
3. `HostTransport`: several observers, registration slots, inbox, pending and
   observer limits, failure, taint, close signals, both runners; liveness of
   replies; the pump under port faults.
4. `ProviderSwitch`: the outer journal over `ModDeployment` and the configuration
   store as participants, with the coordinated rollback left out above;
   `AtomicTomlStore`.
5. The owner of `bridge-app` as an implementation of the owner `BridgeKernel`
   assumes (`OwnerMoves`, `OwnerAnswers` as its abstract specification). Of less
   value than it looks: the native transaction behind it is outside the
   repository's control, and its guards repeat the kernel's.
6. Battle ingest and lifecycle.

The set of runs is complete as far as their cost goes; a further module replaces
or joins one of them.

## Not modelled

Parsers and schemas (pure data), FFI and I/O of the platform crates, presentation
in the views, release verification, build scripts and provider data. By number of
lines, JavaScript and TypeScript consist almost entirely of
`ui/src/generated/validators.mjs` and `protocol.ts`, generated shape checks of wire
types without state, and of scripts that test and package: the models cover the
client and state code that is left, and the Rust and C# code behind it, so
the share of lines they stand for stays small and is no measure of
what they say. Of the modelled components, "partly" in each case means the
operations named as left out above.
